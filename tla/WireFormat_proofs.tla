--------------------------- MODULE WireFormat_proofs ---------------------------
(***************************************************************************)
(* Integers as bytes, and what is laid out of them.                        *)
(***************************************************************************)
EXTENDS WireReader, WellFoundedInduction, TLAPS

-----------------------------------------------------------------------------

\* Induction, with a set in the place of a predicate.

LEMMA LeastOf == ASSUME NEW S, S \subseteq Nat, S # {}
    PROVE  \E least \in S : \A n \in S : ~(n < least)
<1>1. PICK x \in S : \A y \in S : ~(<<y, x>> \in OpToRel(<, Nat))
  BY NatLessThanWellFounded, WFMin
<1> QED
  BY <1>1, Zenon DEF OpToRel

LEMMA Induction ==
    ASSUME NEW S, 0 \in S, \A n \in Nat : n \in S => n + 1 \in S
    PROVE  Nat \subseteq S
<1> SUFFICES ASSUME Nat \ S # {} PROVE FALSE
  OBVIOUS
<1>1. PICK least \in Nat \ S : \A n \in Nat \ S : ~(n < least)
  BY LeastOf
<1>2. least - 1 \in Nat /\ least - 1 < least
  BY <1>1
<1> QED
  BY <1>1, <1>2

LEMMA InductionUpTo ==
    ASSUME NEW last \in Nat, NEW S, 0 \in S, \A n \in 0..(last - 1) : n \in S => n + 1 \in S
    PROVE  0..last \subseteq S
<1> DEFINE T == {n \in Nat : n \in 0..last => n \in S}
<1>1. 0 \in T /\ \A n \in Nat : n \in T => n + 1 \in T
  OBVIOUS
<1>2. Nat \subseteq T
  <2> HIDE DEF T
  <2> QED
    BY <1>1, Induction
<1> QED
  BY <1>2

\* A function defined by recursion on the natural numbers exists.
StepOn(A, step) == step \in [Nat \X A -> A]
Recurses(f, A, base, step) ==
    f \in [Nat -> A] /\ f[0] = base /\ \A n \in Nat : f[n + 1] = step[<<n, f[n]>>]

LEMMA Recursion ==
    ASSUME NEW A, NEW base \in A, NEW step, StepOn(A, step)
    PROVE  \E f : Recurses(f, A, base, step)
<1> DEFINE Starts(n, g) == /\ g \in [0..n -> A] /\ g[0] = base
                           /\ \A i \in 0..(n - 1) : g[i + 1] = step[<<i, g[i]>>]
           start(n) == CHOOSE g : Starts(n, g)
           f == [n \in Nat |-> start(n)[n]]
           S == {n \in Nat : \E g : Starts(n, g)}
<1> USE DEF StepOn
<1>1. 0 \in S
  <2> DEFINE g == [i \in 0..0 |-> base]
  <2>1. Starts(0, g)
    OBVIOUS
  <2> QED
    BY <2>1
<1>2. ASSUME NEW n \in Nat, n \in S PROVE n + 1 \in S
  <2>1. PICK g : Starts(n, g)
    BY <1>2
  <2>2. g[n] \in A
    BY <2>1
  <2>3. step[<<n, g[n]>>] \in A
    BY <2>2
  <2> DEFINE h == [i \in 0..(n + 1) |-> IF i = n + 1 THEN step[<<n, g[n]>>] ELSE g[i]]
  <2>4. \A i \in 0..(n + 1) : h[i] = IF i = n + 1 THEN step[<<n, g[n]>>] ELSE g[i]
    OBVIOUS
  <2>5. h \in [0..(n + 1) -> A]
    BY <2>1, <2>3
  <2> HIDE DEF h
  <2>6. \A i \in 0..n : h[i + 1] = step[<<i, h[i]>>]
    <3> TAKE i \in 0..n
    <3>1. h[i] = g[i]
      BY <2>4
    <3>2. CASE i = n
      BY <2>4, <3>1, <3>2
    <3>3. CASE i # n
      <4>1. i \in 0..(n - 1) /\ i + 1 \in 0..(n + 1) /\ i + 1 # n + 1
        BY <3>3
      <4> QED
        BY <2>1, <2>4, <3>1, <4>1
    <3> QED
      BY <3>2, <3>3
  <2>7. Starts(n + 1, h)
    BY <2>1, <2>4, <2>5, <2>6
  <2> QED
    BY <2>7
<1>3. \A n \in Nat : n \in S
  <2> HIDE DEF S
  <2> QED
    BY <1>1, <1>2, Induction
<1>4. \A n \in Nat : Starts(n, start(n))
  BY <1>3
<1> HIDE DEF start
<1>5. \A n \in Nat : start(n + 1)[n] = start(n)[n]
  <2> SUFFICES ASSUME NEW n \in Nat PROVE start(n + 1)[n] = start(n)[n]
    OBVIOUS
  <2> DEFINE T == {i \in Nat : i \in 0..n => start(n + 1)[i] = start(n)[i]}
  <2>1. 0 \in T
    BY <1>4
  <2>2. ASSUME NEW i \in Nat, i \in T PROVE i + 1 \in T
    <3> SUFFICES ASSUME i + 1 \in 0..n PROVE start(n + 1)[i + 1] = start(n)[i + 1]
      OBVIOUS
    <3>1. i \in 0..(n - 1) /\ i \in 0..n /\ i \in 0..((n + 1) - 1)
      OBVIOUS
    <3>2. start(n + 1)[i + 1] = step[<<i, start(n + 1)[i]>>]
      BY <1>4, <3>1
    <3>3. start(n)[i + 1] = step[<<i, start(n)[i]>>]
      BY <1>4, <3>1
    <3> QED
      BY <2>2, <3>1, <3>2, <3>3
  <2>3. n \in T
    <3> HIDE DEF T
    <3> QED
      BY <2>1, <2>2, Induction
  <2> QED
    BY <2>3
<1>6. f \in [Nat -> A] /\ f[0] = base
  BY <1>4
<1>7. \A n \in Nat : f[n + 1] = step[<<n, f[n]>>]
  <2> SUFFICES ASSUME NEW n \in Nat PROVE f[n + 1] = step[<<n, f[n]>>]
    OBVIOUS
  <2>1. start(n + 1)[n + 1] = step[<<n, start(n + 1)[n]>>]
    BY <1>4
  <2> QED
    BY <1>5, <2>1
<1> HIDE DEF f
<1> QED
  BY <1>6, <1>7 DEF Recurses

-----------------------------------------------------------------------------

\* Powers

LEMMA PowerEquation ==
    ASSUME NEW b \in Nat
    PROVE  Power(b, 0) = 1 /\ \A n \in Nat : Power(b, n + 1) = b * Power(b, n)
<1> DEFINE Solves(g) == g = [k \in Nat |-> IF k = 0 THEN 1 ELSE b * g[k - 1]]
           power == CHOOSE g : Solves(g)
           step == [p \in Nat \X Nat |-> b * p[2]]
<1>1. \A n \in Nat : Power(b, n) = power[n]
  BY DEF Power
<1>2. \A n, m \in Nat : step[<<n, m>>] = b * m
  OBVIOUS
<1>3. step \in [Nat \X Nat -> Nat]
  OBVIOUS
<1> HIDE DEF step
<1>4. PICK f : Recurses(f, Nat, 1, step)
  BY <1>3, Recursion DEF StepOn
<1>5. f \in [Nat -> Nat] /\ f[0] = 1 /\ \A n \in Nat : f[n + 1] = b * f[n]
  BY <1>2, <1>4 DEF Recurses
<1>6. \A n \in Nat : n # 0 => n - 1 \in Nat /\ (n - 1) + 1 = n
  OBVIOUS
<1>7. \A n \in Nat : f[n] = IF n = 0 THEN 1 ELSE b * f[n - 1]
  BY <1>5, <1>6
<1>8. Solves(f)
  BY <1>5, <1>7
<1>9. Solves(power)
  BY <1>8
<1> HIDE DEF power
<1>10. \A n \in Nat : power[n] = IF n = 0 THEN 1 ELSE b * power[n - 1]
  BY <1>9
<1> QED
  BY <1>1, <1>10

LEMMA PowerPositive ==
    ASSUME NEW b \in Nat \ {0} PROVE \A n \in Nat : Power(b, n) \in Nat \ {0}
<1> DEFINE S == {n \in Nat : Power(b, n) \in Nat \ {0}}
<1>1. 0 \in S
  BY PowerEquation
<1>2. ASSUME NEW n \in Nat, n \in S PROVE n + 1 \in S
  BY <1>2, PowerEquation
<1>3. Nat \subseteq S
  <2> HIDE DEF S
  <2> QED
    BY <1>1, <1>2, Induction
<1> QED
  BY <1>3

LEMMA PowerSum ==
    ASSUME NEW b \in Nat \ {0}, NEW m \in Nat
    PROVE  \A n \in Nat : Power(b, m + n) = Power(b, m) * Power(b, n)
<1> DEFINE S == {n \in Nat : Power(b, m + n) = Power(b, m) * Power(b, n)}
<1>1. \A n \in Nat : Power(b, n) \in Nat
  BY PowerPositive
<1>2. 0 \in S
  BY <1>1, PowerEquation
<1>3. ASSUME NEW n \in Nat, n \in S PROVE n + 1 \in S
  <2>1. Power(b, m + (n + 1)) = b * Power(b, m + n)
    <3>1. m + (n + 1) = (m + n) + 1 /\ m + n \in Nat
      OBVIOUS
    <3> QED
      BY <3>1, PowerEquation
  <2>2. Power(b, n + 1) = b * Power(b, n)
    BY PowerEquation
  <2>3. b * (Power(b, m) * Power(b, n)) = Power(b, m) * (b * Power(b, n))
    BY <1>1
  <2> QED
    BY <1>3, <2>1, <2>2, <2>3
<1>4. Nat \subseteq S
  <2> HIDE DEF S
  <2> QED
    BY <1>2, <1>3, Induction
<1> QED
  BY <1>4

\* Division

LEMMA DivMod ==
    ASSUME NEW a \in Int, NEW b \in Nat \ {0}
    PROVE  a = (a \div b) * b + (a % b) /\ a % b \in 0..(b - 1) /\ a \div b \in Int
<1>1. a = (a \div b) * b + (a % b)
  OBVIOUS
<1> QED
  BY <1>1

LEMMA DivUnique ==
    ASSUME NEW a \in Int, NEW b \in Nat \ {0}, NEW q \in Int, NEW r \in 0..(b - 1), a = q * b + r
    PROVE  a \div b = q /\ a % b = r
<1>1. a \div b = q
  OBVIOUS
<1>2. a % b = r
  OBVIOUS
<1> QED
  BY <1>1, <1>2

LEMMA DivTwice ==
    ASSUME NEW a \in Int, NEW b \in Nat \ {0}, NEW c \in Nat \ {0}
    PROVE  (a \div b) \div c = a \div (b * c)
OBVIOUS

-----------------------------------------------------------------------------

\* Integers as bytes

LEMMA BasePowers ==
    /\ \A n \in Nat : Power(Base, n) \in Nat \ {0} /\ Power(Base, n + 1) = Base * Power(Base, n)
    /\ Power(Base, 0) = 1
<1>1. Base \in Nat \ {0}
  BY BytesAssumption
<1> QED
  BY <1>1, PowerPositive, PowerEquation

\* The `width' bytes at an offset are those of v.
Holds(data, offset, v, width) ==
    \A i \in 0..(width - 1) : ByteAt(data, offset + i) = (v \div Power(Base, i)) % Base

\* What unsignedAt() has read after n bytes.
Read(last, data, offset, width) ==
    /\ unsignedAt(data, offset, width) = last[width]
    /\ last[0] = 0
    /\ \A n \in 0..(width - 1) :
          last[n] \in Int /\ last[n + 1] = last[n] * Base + ByteAt(data, offset + width - (n + 1))

LEMMA UnsignedSteps ==
    ASSUME NEW data, NEW offset \in Nat, NEW width \in Nat,
           \A i \in 0..(width - 1) : ByteAt(data, offset + i) \in Int
    PROVE  \E last : Read(last, data, offset, width)
<1> DEFINE Solves(g) ==
               g = [n \in 0..width |->
                       IF n = 0 THEN 0 ELSE g[n - 1] * Base + ByteAt(data, offset + width - n)]
           last == CHOOSE g : Solves(g)
           digit(n) == IF n < width THEN ByteAt(data, offset + width - (n + 1)) ELSE 0
           step == [p \in Nat \X Int |-> p[2] * Base + digit(p[1])]
<1>1. unsignedAt(data, offset, width) = last[width]
  BY DEF unsignedAt
<1>2. \A n \in Nat : digit(n) \in Int
  <2> SUFFICES ASSUME NEW n \in Nat, n < width PROVE ByteAt(data, offset + width - (n + 1)) \in Int
    OBVIOUS
  <2>1. width - (n + 1) \in 0..(width - 1) /\ offset + width - (n + 1) = offset + (width - (n + 1))
    OBVIOUS
  <2> QED
    BY <2>1
<1>3. /\ \A n \in 0..(width - 1) : digit(n) = ByteAt(data, offset + width - (n + 1))
      /\ \A n \in 1..width : n - 1 \in 0..(width - 1) /\ (n - 1) + 1 = n
  OBVIOUS
<1> HIDE DEF digit
<1>4. StepOn(Int, step) /\ \A n \in Nat, m \in Int : step[<<n, m>>] = m * Base + digit(n)
  BY <1>2, BytesAssumption DEF StepOn
<1> HIDE DEF step
<1>5. PICK f : Recurses(f, Int, 0, step)
  BY <1>4, 0 \in Int, Recursion
<1>6. f \in [Nat -> Int] /\ f[0] = 0 /\ \A n \in Nat : f[n + 1] = f[n] * Base + digit(n)
  BY <1>4, <1>5 DEF Recurses
<1> DEFINE g == [n \in 0..width |-> f[n]]
<1>7. \A n \in 0..width :
         g[n] = IF n = 0 THEN 0 ELSE g[n - 1] * Base + ByteAt(data, offset + width - n)
  <2> SUFFICES ASSUME NEW n \in 1..width
               PROVE  f[n] = f[n - 1] * Base + ByteAt(data, offset + width - n)
    BY <1>6
  <2>1. f[(n - 1) + 1] = f[n - 1] * Base + digit(n - 1)
    BY <1>6
  <2> QED
    BY <1>3, <2>1
<1>8. Solves(g)
  BY <1>7
<1>9. Solves(last)
  <2> HIDE DEF g
  <2> QED
    BY <1>8
<1> HIDE DEF last
<1>10. \A n \in 0..width :
          last[n] = IF n = 0 THEN 0 ELSE last[n - 1] * Base + ByteAt(data, offset + width - n)
  BY <1>9
<1>11. \A n \in 0..width : last[n] = f[n]
  <2> DEFINE S == {n \in 0..width : last[n] = f[n]}
  <2>1. 0 \in S
    BY <1>6, <1>10
  <2>2. ASSUME NEW n \in 0..(width - 1), n \in S PROVE n + 1 \in S
    <3>1. n + 1 \in 0..width /\ n + 1 # 0 /\ (n + 1) - 1 = n
      OBVIOUS
    <3>2. last[n + 1] = last[n] * Base + ByteAt(data, offset + width - (n + 1))
      BY <1>10, <3>1
    <3> QED
      BY <1>3, <1>6, <2>2, <3>1, <3>2
  <2>3. 0..width \subseteq S
    <3> HIDE DEF S
    <3> QED
      BY <2>1, <2>2, InductionUpTo
  <2> QED
    BY <2>3
<1> QED
  BY <1>1, <1>3, <1>6, <1>11 DEF Read

\* Reading the bytes of a number gives the number.
LEMMA UnsignedReadsBack ==
    ASSUME NEW data, NEW offset \in Nat, NEW width \in Nat,
           NEW v \in 0..(Power(Base, width) - 1), Holds(data, offset, v, width)
    PROVE  unsignedAt(data, offset, width) = v
<1>1. Base \in Nat \ {0}
  BY BytesAssumption
<1>2. \A n \in Nat : Power(Base, n) \in Nat \ {0} /\ v \in Nat
  BY BasePowers
<1>3. \A i \in 0..(width - 1) : ByteAt(data, offset + i) \in Int
  <2> SUFFICES ASSUME NEW i \in 0..(width - 1)
               PROVE  (v \div Power(Base, i)) % Base \in Int
    BY DEF Holds
  <2>1. v \in Int /\ Power(Base, i) \in Nat \ {0}
    BY <1>2
  <2>2. v \div Power(Base, i) \in Int
    BY <2>1
  <2> QED
    BY <1>1, <2>2
<1>4. PICK last : Read(last, data, offset, width)
  BY <1>3, UnsignedSteps
<1> DEFINE S == {n \in 0..width : last[n] = v \div Power(Base, width - n)}
<1>5. 0 \in S
  <2>1. v \div Power(Base, width) = 0
    BY <1>2, DivUnique
  <2> QED
    BY <1>4, <2>1 DEF Read
<1>6. ASSUME NEW n \in 0..(width - 1), n \in S PROVE n + 1 \in S
  <2> DEFINE m == width - (n + 1)
  <2>1. m \in Nat /\ m \in 0..(width - 1) /\ width - n = m + 1
        /\ offset + width - (n + 1) = offset + m
    OBVIOUS
  <2>2. PICK q \in Int : q = v \div Power(Base, m)
    BY <1>2, <2>1
  <2>3. v \div Power(Base, m + 1) = q \div Base
    <3>1. Power(Base, m) \in Nat \ {0} /\ Power(Base, m + 1) = Power(Base, m) * Base
      BY <1>1, <1>2, <2>1, BasePowers
    <3> QED
      BY <1>1, <1>2, <2>2, <3>1, DivTwice
  <2>4. last[n + 1] = last[n] * Base + (q % Base)
    BY <1>4, <2>1, <2>2 DEF Holds, Read
  <2>5. last[n] = q \div Base
    BY <1>6, <2>1, <2>3
  <2>6. last[n + 1] = q
    BY <1>1, <2>4, <2>5, DivMod
  <2> QED
    BY <2>1, <2>2, <2>6
<1>7. 0..width \subseteq S
  <2> HIDE DEF S
  <2> QED
    BY <1>5, <1>6, InductionUpTo
<1>8. width \in S /\ v \div Power(Base, 0) = v
  BY <1>2, <1>7, BasePowers
<1> QED
  BY <1>4, <1>8 DEF Read

LEMMA UnsignedBytes ==
    ASSUME NEW v \in Int, NEW width \in Nat
    PROVE  /\ unsignedLE(v, width) \in Seq(0..(Base - 1)) /\ Len(unsignedLE(v, width)) = width
           /\ \A i \in 1..width : unsignedLE(v, width)[i] = (v \div Power(Base, i - 1)) % Base
<1>1. ASSUME NEW i \in 1..width
      PROVE  (v \div Power(Base, i - 1)) % Base \in 0..(Base - 1)
  <2>1. Power(Base, i - 1) \in Nat \ {0} /\ Base \in Nat \ {0}
    BY BasePowers, BytesAssumption
  <2>2. v \div Power(Base, i - 1) \in Int
    BY <2>1, DivMod
  <2> QED
    BY <2>1, <2>2, DivMod
<1>2. unsignedLE(v, width) \in [1..width -> 0..(Base - 1)]
  BY <1>1 DEF unsignedLE
<1> QED
  BY <1>2 DEF unsignedLE

\* What stands in a sequence between two others.
LEMMA Between ==
    ASSUME NEW S, NEW a \in Seq(S), NEW s \in Seq(S), NEW c \in Seq(S)
    PROVE  \A i \in 0..(Len(s) - 1) : ByteAt(a \o s \o c, Len(a) + i) = s[i + 1]
<1>1. a \o s \in Seq(S) /\ Len(a \o s) = Len(a) + Len(s)
  OBVIOUS
<1>2. a \o s \o c \in Seq(S) /\ Len(a \o s \o c) = Len(a) + Len(s) + Len(c)
  BY <1>1
<1>3. ASSUME NEW i \in 0..(Len(s) - 1)
      PROVE  Len(a) + i + 1 \in 1..Len(a \o s) /\ (a \o s)[Len(a) + i + 1] = s[i + 1]
  OBVIOUS
<1>4. ASSUME NEW i \in 0..(Len(s) - 1)
      PROVE  (a \o s \o c)[Len(a) + i + 1] = s[i + 1]
  BY <1>1, <1>3
<1>5. ASSUME NEW i \in 0..(Len(s) - 1)
      PROVE  Len(a) + i + 1 \in DOMAIN (a \o s \o c)
  BY <1>2
<1> QED
  BY <1>4, <1>5 DEF ByteAt

\* Half of a modulus is a whole number.
LEMMA Moduli ==
    ASSUME NEW t \in IntegerType
    PROVE  /\ Width[t] \in Nat \ {0} /\ Modulus(t) \in Nat \ {0}
           /\ \E half \in Nat : half = Modulus(t) \div 2 /\ Modulus(t) = 2 * half
<1>1. Width[t] \in Nat \ {0} /\ Base \in Nat \ {0} /\ Base % 2 = 0
  BY BytesAssumption DEF IntegerType
<1>2. PICK w \in Nat : w = Width[t] - 1 /\ Width[t] = w + 1
  BY <1>1
<1>3. PICK p \in Nat \ {0} : p = Power(Base, w) /\ Modulus(t) = Base * p
  BY <1>2, BasePowers DEF Modulus
<1>4. PICK b \in Nat : Base = 2 * b
  BY <1>1
<1>5. Modulus(t) = 2 * (b * p) /\ b * p \in Nat
  BY <1>3, <1>4
<1>6. Modulus(t) \div 2 = b * p
  BY <1>5
<1>7. Modulus(t) \in Nat \ {0}
  BY <1>1, <1>3
<1> QED
  BY <1>1, <1>5, <1>6, <1>7

\* codec/borsh.ts: what is written of a number is read back as it, whatever
\* stands around it.
LEMMA DecodesEncoded ==
    ASSUME NEW t \in IntegerType, NEW v \in MinOf(t)..MaxOf(t), NEW data, NEW offset \in Nat,
           Holds(data, offset, IF v < 0 THEN v + Modulus(t) ELSE v, Width[t])
    PROVE  decode(t, data, offset) = v
<1>1. Width[t] \in Nat \ {0} /\ Modulus(t) \in Nat \ {0}
  BY Moduli
<1>2. PICK half \in Nat : half = Modulus(t) \div 2 /\ Modulus(t) = 2 * half
  BY Moduli
<1>3. PICK u : u = IF v < 0 THEN v + Modulus(t) ELSE v
  OBVIOUS
<1>4. /\ t \in SignedType => -half <= v /\ v < half
      /\ t \notin SignedType => 0 <= v /\ v < Modulus(t)
      /\ v \in Int
  BY <1>1, <1>2 DEF MinOf, MaxOf
<1>5. u \in 0..(Modulus(t) - 1)
  BY <1>1, <1>2, <1>3, <1>4
<1>6. unsignedAt(data, offset, Width[t]) = u
  BY <1>1, <1>3, <1>5, UnsignedReadsBack DEF Modulus
<1>7. t \in SignedType => AsSigned(t, u) = v
  BY <1>1, <1>2, <1>3, <1>4, <1>5 DEF AsSigned
<1>8. CASE t = "u32"
  <2>1. AsSigned(t, u) \in {u, u - Modulus(t)}
    BY DEF AsSigned
  <2>2. AsSigned(t, u) % Modulus(t) = u
    <3>1. PICK m \in Nat \ {0} : m = Modulus(t)
      BY <1>1
    <3>2. u \in 0..(m - 1) /\ u = 0 * m + u /\ u - m = (-1) * m + u
      BY <1>5, <3>1
    <3>3. u % m = u /\ (u - m) % m = u
      BY <3>2, DivUnique
    <3> QED
      BY <2>1, <3>1, <3>3
  <2>3. u = v
    BY <1>3, <1>4, <1>8 DEF SignedType
  <2> QED
    BY <1>6, <1>8, <2>2, <2>3 DEF decode, decodeU32LE, OrOfBytes
<1>9. CASE t = "i32"
  <2>1. OrOfBytes(data, offset) = AsSigned("i32", u)
    BY <1>6, <1>9, BytesAssumption DEF OrOfBytes, AsSigned, Modulus
  <2> QED
    BY <1>7, <1>9, <2>1 DEF decode, decodeI32LE, SignedType
<1>10. CASE t \in {"u16", "u64", "u128"}
  BY <1>3, <1>4, <1>6, <1>10 DEF decode, SignedType
<1>11. CASE t \in {"i64", "i128"}
  BY <1>6, <1>7, <1>11 DEF decode, SignedType
<1> QED
  BY <1>8, <1>9, <1>10, <1>11, BytesAssumption DEF IntegerType

-----------------------------------------------------------------------------

\* What stands where in a list of cells

\* The cells of s stand in data from an offset on.
Stands(data, offset, s) == \A i \in 1..Len(s) : ByteAt(data, offset + i - 1) = s[i]

LEMMA StandsBetween ==
    ASSUME NEW S, NEW a \in Seq(S), NEW s \in Seq(S), NEW c \in Seq(S)
    PROVE  Stands(a \o s \o c, Len(a), s)
<1>1. ASSUME NEW i \in 1..Len(s) PROVE ByteAt(a \o s \o c, Len(a) + i - 1) = s[i]
  <2>1. i - 1 \in 0..(Len(s) - 1) /\ (i - 1) + 1 = i /\ Len(a) + (i - 1) = Len(a) + i - 1
    OBVIOUS
  <2>2. ByteAt(a \o s \o c, Len(a) + (i - 1)) = s[(i - 1) + 1]
    BY <2>1, Between
  <2> QED
    BY <2>1, <2>2
<1> QED
  BY <1>1 DEF Stands

LEMMA StandsItself ==
    ASSUME NEW S, NEW s \in Seq(S) PROVE Stands(s, 0, s)
<1>1. \A i \in 1..Len(s) : (0 + i - 1) + 1 = i /\ i \in DOMAIN s
  OBVIOUS
<1> QED
  BY <1>1 DEF Stands, ByteAt

LEMMA StandsParts ==
    ASSUME NEW S, NEW s \in Seq(S), NEW t \in Seq(S), NEW data, NEW offset \in Nat,
           Stands(data, offset, s \o t)
    PROVE  Stands(data, offset, s) /\ Stands(data, offset + Len(s), t)
<1>1. Len(s \o t) = Len(s) + Len(t) /\ Len(s) \in Nat /\ Len(t) \in Nat
  OBVIOUS
<1>2. ASSUME NEW i \in 1..Len(s) PROVE ByteAt(data, offset + i - 1) = s[i]
  <2>1. i \in 1..Len(s \o t) /\ (s \o t)[i] = s[i]
    BY <1>1
  <2> QED
    BY <2>1 DEF Stands
<1>3. ASSUME NEW i \in 1..Len(t) PROVE ByteAt(data, (offset + Len(s)) + i - 1) = t[i]
  <2>1. Len(s) + i \in 1..Len(s \o t) /\ (s \o t)[Len(s) + i] = t[i]
    BY <1>1
  <2>2. offset + (Len(s) + i) - 1 = (offset + Len(s)) + i - 1
    BY <1>1
  <2>3. ByteAt(data, offset + (Len(s) + i) - 1) = (s \o t)[Len(s) + i]
    BY <2>1 DEF Stands
  <2> QED
    BY <2>1, <2>2, <2>3
<1> QED
  BY <1>2, <1>3 DEF Stands

LEMMA StandsOne ==
    ASSUME NEW cell, NEW data, NEW offset \in Nat, Stands(data, offset, <<cell>>)
    PROVE  ByteAt(data, offset) = cell
<1>1. Len(<<cell>>) = 1 /\ <<cell>>[1] = cell /\ offset + 1 - 1 = offset
  OBVIOUS
<1> QED
  BY <1>1 DEF Stands

LEMMA TakesStanding ==
    ASSUME NEW S, NEW s \in Seq(S), NEW data, NEW offset, Stands(data, offset, s)
    PROVE  Take(data, offset, Len(s)) = s
<1>1. Take(data, offset, Len(s)) = [i \in 1..Len(s) |-> s[i]]
  BY DEF Take, Stands
<1> QED
  BY <1>1

-----------------------------------------------------------------------------

\* Integers taken modulo their width

\* The low digits of a number are those of its remainder.
LEMMA LowDigits ==
    ASSUME NEW v \in Int, NEW width \in Nat, NEW i \in 0..(width - 1)
    PROVE  ((v % Power(Base, width)) \div Power(Base, i)) % Base
                = (v \div Power(Base, i)) % Base
<1>1. PICK b \in Nat \ {0} : b = Base
  BY BytesAssumption
<1>2. PICK p \in Nat \ {0} : p = Power(Base, i)
  BY BasePowers
<1>3. PICK more \in Nat : width = (i + 1) + more
  <2>1. width - (i + 1) \in Nat /\ width = (i + 1) + (width - (i + 1))
    OBVIOUS
  <2> QED
    BY <2>1
<1>4. PICK k \in Nat \ {0} : k = Power(Base, more)
  BY BasePowers
<1>5. Power(Base, width) = (b * p) * k
  <2>1. Power(Base, i + 1) = b * p
    BY <1>1, <1>2, BasePowers
  <2>2. Power(Base, (i + 1) + more) = Power(Base, i + 1) * Power(Base, more)
    BY <1>1, PowerSum
  <2> QED
    BY <1>3, <1>4, <2>1, <2>2
<1>6. PICK m \in Nat \ {0} : m = (b * p) * k
  <2>1. b * p \in Nat \ {0}
    OBVIOUS
  <2> QED
    BY <2>1
<1>7. PICK q \in Int, r \in Int : q = v \div m /\ r = v % m /\ v = q * m + r
  BY DivMod
<1>8. PICK d \in Int, e \in 0..(p - 1) : r = d * p + e /\ r \div p = d
  <2>1. r = (r \div p) * p + (r % p) /\ r % p \in 0..(p - 1) /\ r \div p \in Int
    BY DivMod
  <2> QED
    BY <2>1
<1>9. v \div p = (q * k) * b + d
  <2>1. v = ((q * k) * b + d) * p + e
    <3>1. q * m = ((q * k) * b) * p
      BY <1>6
    <3>2. PICK x \in Int : x = (q * k) * b
      OBVIOUS
    <3>3. (x + d) * p = x * p + d * p
      OBVIOUS
    <3> QED
      BY <1>7, <1>8, <3>1, <3>2, <3>3
  <2>2. (q * k) * b + d \in Int
    OBVIOUS
  <2> QED
    BY <2>1, <2>2, DivUnique
<1>10. ((q * k) * b + d) % b = d % b
  <2>1. PICK x \in Int, y \in 0..(b - 1) : d = x * b + y /\ d % b = y
    <3>1. d = (d \div b) * b + (d % b) /\ d % b \in 0..(b - 1) /\ d \div b \in Int
      BY DivMod
    <3> QED
      BY <3>1
  <2>2. PICK z \in Int : z = q * k
    OBVIOUS
  <2>3. z * b + d = (z + x) * b + y /\ z + x \in Int /\ z * b + d \in Int
    BY <2>1, <2>2
  <2>4. (z * b + d) % b = y
    BY <2>3, DivUnique
  <2> QED
    BY <2>1, <2>2, <2>4
<1> QED
  BY <1>1, <1>2, <1>5, <1>6, <1>7, <1>8, <1>9, <1>10

LEMMA BytesOfRemainder ==
    ASSUME NEW v \in Int, NEW width \in Nat
    PROVE  unsignedLE(v % Power(Base, width), width) = unsignedLE(v, width)
<1>1. ASSUME NEW i \in 1..width
      PROVE  ((v % Power(Base, width)) \div Power(Base, i - 1)) % Base
                  = (v \div Power(Base, i - 1)) % Base
  <2>1. i - 1 \in 0..(width - 1)
    OBVIOUS
  <2> QED
    BY <2>1, LowDigits
<1> QED
  BY <1>1 DEF unsignedLE

\* Masked words are the bytes of the whole.
LEMMA WordsAreBytes ==
    ASSUME NEW v \in Int
    PROVE  /\ u32ToLeBytes(v) = unsignedLE(v, Width["u32"])
           /\ u64ToLeBytes(v) = unsignedLE(v, Width["u64"])
<1>1. PICK w \in Nat \ {0} : w = Width["u32"] /\ Width["u64"] = w + w
  BY BytesAssumption
<1>2. \A x \in Int : u32ToLeBytes(x) = unsignedLE(x, w)
  BY <1>1, BytesOfRemainder DEF u32ToLeBytes, Modulus
<1>3. PICK high \in Int : high = v \div Power(Base, w)
  BY BasePowers, DivMod
<1>4. u64ToLeBytes(v) = unsignedLE(v, w) \o unsignedLE(high, w)
  BY <1>1, <1>2, <1>3 DEF u64ToLeBytes, Modulus
<1>5. PICK low, top, all : low = unsignedLE(v, w) /\ top = unsignedLE(high, w)
                           /\ all = unsignedLE(v, w + w)
  OBVIOUS
<1>9. PICK S : S = 0..(Base - 1)
  OBVIOUS
<1>10. /\ low \in Seq(S) /\ Len(low) = w
       /\ \A i \in 1..w : low[i] = (v \div Power(Base, i - 1)) % Base
  BY <1>5, <1>9, UnsignedBytes
<1>11. /\ top \in Seq(S) /\ Len(top) = w
       /\ \A i \in 1..w : top[i] = (high \div Power(Base, i - 1)) % Base
  BY <1>5, <1>9, UnsignedBytes
<1>12. /\ all \in Seq(S) /\ Len(all) = w + w
       /\ \A i \in 1..(w + w) : all[i] = (v \div Power(Base, i - 1)) % Base
  <2>1. w + w \in Nat
    OBVIOUS
  <2> QED
    BY <1>5, <1>9, <2>1, UnsignedBytes
<1>7. ASSUME NEW i \in 1..w PROVE top[i] = all[w + i]
  <2>1. PICK p \in Nat \ {0}, q \in Nat \ {0} : p = Power(Base, w) /\ q = Power(Base, i - 1)
    <3>1. w \in Nat /\ i - 1 \in Nat
      OBVIOUS
    <3>2. Power(Base, w) \in Nat \ {0} /\ Power(Base, i - 1) \in Nat \ {0}
      BY <3>1, BasePowers
    <3> QED
      BY <3>2
  <2>2. Power(Base, w + (i - 1)) = p * q
    BY <2>1, PowerSum, BytesAssumption
  <2>3. high \div q = v \div (p * q)
    BY <1>3, <2>1, DivTwice
  <2>4. w + i \in 1..(w + w) /\ (w + i) - 1 = w + (i - 1)
    OBVIOUS
  <2> QED
    BY <1>11, <1>12, <2>1, <2>2, <2>3, <2>4
<1>8. low \o top = all
  <2>1. low \o top \in Seq(S) /\ Len(low \o top) = w + w
    <3>1. low \in Seq(S) /\ top \in Seq(S) /\ Len(low) = w /\ Len(top) = w
      BY <1>10, <1>11
    <3>2. low \o top \in Seq(S) /\ Len(low \o top) = Len(low) + Len(top)
      BY <3>1
    <3> QED
      BY <3>1, <3>2
  <2>2. ASSUME NEW i \in 1..(w + w) PROVE (low \o top)[i] = all[i]
    <3>1. CASE i \in 1..w
      BY <1>10, <1>11, <1>12, <3>1
    <3>2. CASE i \notin 1..w
      <4>1. i - w \in 1..w /\ w + (i - w) = i
        BY <3>2
      <4>2. (low \o top)[i] = top[i - w]
        BY <1>10, <1>11, <4>1
      <4> QED
        BY <1>7, <4>1, <4>2
    <3> QED
      BY <3>1, <3>2
  <2> QED
    <3>1. PICK both : both = low \o top
      OBVIOUS
    <3>2. both \in Seq(S) /\ all \in Seq(S) /\ Len(both) = w + w /\ Len(all) = w + w
          /\ \A i \in 1..(w + w) : both[i] = all[i]
      BY <1>12, <2>1, <2>2, <3>1
    <3>3. both = all
      BY <3>2
    <3> QED
      BY <3>1, <3>3
<1> QED
  BY <1>1, <1>2, <1>4, <1>5, <1>8

\* A number that stands somewhere is read back, modulo its width.
LEMMA NumberStanding ==
    ASSUME NEW t \in IntegerType, NEW v \in Int, NEW data, NEW offset \in Nat,
           Stands(data, offset, unsignedLE(v, Width[t]))
    PROVE  /\ ReadNumber(t, data, offset) = v % Modulus(t)
           /\ Holds(data, offset, v % Modulus(t), Width[t])
<1>1. Width[t] \in Nat \ {0} /\ Modulus(t) = Power(Base, Width[t]) /\ Modulus(t) \in Nat \ {0}
  BY Moduli DEF Modulus
<1>2. PICK width \in Nat : width = Width[t]
  BY <1>1
<1>3. PICK m \in 0..(Power(Base, width) - 1) : m = v % Modulus(t)
  BY <1>1, <1>2, DivMod
<1>4. unsignedLE(m, width) = unsignedLE(v, width)
  BY <1>1, <1>2, <1>3, BytesOfRemainder
<1>5. PICK bytes : bytes = unsignedLE(m, width)
  OBVIOUS
<1>6. /\ bytes \in Seq(0..(Base - 1)) /\ Len(bytes) = width
      /\ \A i \in 1..width : bytes[i] = (m \div Power(Base, i - 1)) % Base
  <2>1. m \in Int
    BY <1>1, <1>2, <1>3
  <2> QED
    BY <1>5, <2>1, UnsignedBytes
<1>7. Take(data, offset, width) = bytes
  BY <1>2, <1>4, <1>5, <1>6, TakesStanding
<1>8. \A i \in DOMAIN bytes : bytes[i] \in 0..(Base - 1)
  <2>1. PICK S : S = 0..(Base - 1)
    OBVIOUS
  <2>2. bytes \in Seq(S)
    BY <1>6, <2>1
  <2>3. \A i \in DOMAIN bytes : bytes[i] \in S
    BY <2>2
  <2> QED
    BY <2>1, <2>3
<1>9. ReadNumber(t, data, offset) = unsignedAt(bytes, 0, width)
  BY <1>2, <1>7, <1>8 DEF ReadNumber
<1>10. Holds(bytes, 0, m, width)
  <2>1. \A i \in 0..(width - 1) : i + 1 \in 1..width /\ (i + 1) - 1 = i /\ 0 + i = i
    OBVIOUS
  <2>2. DOMAIN bytes = 1..width
    BY <1>6
  <2> QED
    BY <1>6, <2>1, <2>2 DEF Holds, ByteAt
<1>11. unsignedAt(bytes, 0, width) = m
  BY <1>10, UnsignedReadsBack
<1>12. ASSUME NEW i \in 0..(width - 1)
       PROVE  ByteAt(data, offset + i) = (m \div Power(Base, i)) % Base
  <2>1. i + 1 \in 1..width /\ (i + 1) - 1 = i /\ offset + (i + 1) - 1 = offset + i
    OBVIOUS
  <2>2. ByteAt(data, offset + (i + 1) - 1) = bytes[i + 1]
    BY <1>2, <1>4, <1>5, <1>6, <2>1 DEF Stands
  <2> QED
    BY <1>6, <2>1, <2>2
<1> QED
  BY <1>2, <1>3, <1>9, <1>11, <1>12 DEF Holds

LEMMA Joined ==
    ASSUME NEW S, NEW s \in Seq(S), NEW t \in Seq(S)
    PROVE  s \o t \in Seq(S) /\ Len(s \o t) = Len(s) + Len(t)
OBVIOUS

LEMMA StandsJoined ==
    ASSUME NEW S, NEW s \in Seq(S), NEW t \in Seq(S), NEW st, st = s \o t,
           NEW data, NEW offset \in Nat, Stands(data, offset, st),
           NEW next, next = offset + Len(s)
    PROVE  Stands(data, offset, s) /\ Stands(data, next, t)
BY StandsParts

LEMMA StandsTaken ==
    ASSUME NEW S, NEW s \in Seq(S), NEW data, NEW offset \in Nat, NEW n \in Nat,
           Stands(data, offset, s), offset + Len(s) <= n
    PROVE  Stands(Take(data, 0, n), offset, s)
<1>1. ASSUME NEW i \in 1..Len(s) PROVE ByteAt(Take(data, 0, n), offset + i - 1) = s[i]
  <2>1. Len(s) \in Nat /\ (offset + i - 1) + 1 \in 1..n
        /\ 0 + ((offset + i - 1) + 1) - 1 = offset + i - 1
    OBVIOUS
  <2>2. PICK at \in 1..n : at = (offset + i - 1) + 1
    BY <2>1
  <2>3. Take(data, 0, n)[at] = ByteAt(data, 0 + at - 1) /\ at \in DOMAIN Take(data, 0, n)
    BY <2>2 DEF Take
  <2>4. ByteAt(Take(data, 0, n), offset + i - 1) = ByteAt(data, 0 + at - 1)
    BY <2>2, <2>3 DEF ByteAt
  <2> QED
    BY <2>1, <2>2, <2>4 DEF Stands
<1> QED
  BY <1>1 DEF Stands

LEMMA NumberCells ==
    ASSUME NEW v \in Int, NEW S, 0..(Base - 1) \subseteq S
    PROVE  /\ u32ToLeBytes(v) \in Seq(S) /\ Len(u32ToLeBytes(v)) = Width["u32"]
           /\ u64ToLeBytes(v) \in Seq(S) /\ Len(u64ToLeBytes(v)) = Width["u64"]
<1>1. Width["u32"] \in Nat /\ Width["u64"] \in Nat
  BY BytesAssumption
<1>2. ASSUME NEW width \in Nat
      PROVE  unsignedLE(v, width) \in Seq(S) /\ Len(unsignedLE(v, width)) = width
  <2>1. PICK bytes, T : bytes = unsignedLE(v, width) /\ T = 0..(Base - 1)
    OBVIOUS
  <2>2. bytes \in Seq(T) /\ Len(bytes) = width /\ T \subseteq S
    BY <2>1, UnsignedBytes
  <2>3. bytes \in Seq(S)
    BY <2>2
  <2> QED
    BY <2>1, <2>2, <2>3
<1> QED
  BY <1>1, <1>2, WordsAreBytes

\* A number within its type that stands somewhere.
LEMMA NumberRead ==
    ASSUME NEW data, NEW offset \in Nat
    PROVE  /\ \A v \in 0..MaxOf("u32") : Stands(data, offset, u32ToLeBytes(v))
                 => decodeU32LE(data, offset) = v
           /\ \A v \in 0..MaxOf("u64") : Stands(data, offset, u64ToLeBytes(v))
                 => decode("u64", data, offset) = v
<1>1. "u32" \in IntegerType /\ "u64" \in IntegerType
  BY BytesAssumption DEF IntegerType
<1>2. /\ Modulus("u32") \in Nat \ {0} /\ MinOf("u32") = 0 /\ MaxOf("u32") = Modulus("u32") - 1
      /\ Modulus("u64") \in Nat \ {0} /\ MinOf("u64") = 0 /\ MaxOf("u64") = Modulus("u64") - 1
  BY <1>1, Moduli DEF MinOf, MaxOf, SignedType
<1>3. ASSUME NEW t \in {"u32", "u64"}, NEW v \in 0..MaxOf(t),
             Stands(data, offset, unsignedLE(v, Width[t]))
      PROVE  decode(t, data, offset) = v
  <2>1. t \in IntegerType /\ v \in Int /\ ~(v < 0) /\ v \in MinOf(t)..MaxOf(t)
    BY <1>1, <1>2
  <2>2. v % Modulus(t) = v
    BY <1>2
  <2>3. Holds(data, offset, v, Width[t])
    BY <1>3, <2>1, <2>2, NumberStanding
  <2> QED
    BY <2>1, <2>3, DecodesEncoded
<1>4. decode("u32", data, offset) = decodeU32LE(data, offset)
  BY DEF decode
<1>5. ASSUME NEW v \in 0..MaxOf("u32"), Stands(data, offset, u32ToLeBytes(v))
      PROVE  decodeU32LE(data, offset) = v
  BY <1>2, <1>3, <1>4, <1>5, WordsAreBytes
<1>6. ASSUME NEW v \in 0..MaxOf("u64"), Stands(data, offset, u64ToLeBytes(v))
      PROVE  decode("u64", data, offset) = v
  BY <1>2, <1>3, <1>6, WordsAreBytes
<1> QED
  BY <1>5, <1>6

LEMMA COptionCells ==
    ASSUME NEW key, NEW S, 0..(Base - 1) \subseteq S, key \in S
    PROVE  COptionData(key) \in Seq(S) /\ Len(COptionData(key)) = COptionSize
<1>1. PICK tag : tag = u32ToLeBytes(Flag(key # "null"))
  OBVIOUS
<1>2. Flag(key # "null") \in Int
  BY DEF Flag
<1>3. tag \in Seq(S) /\ Len(tag) = Width["u32"]
  BY <1>1, <1>2, NumberCells
<1>4. PICK cell \in S : cell = IF key = "null" THEN 0 ELSE key
  BY BytesAssumption
<1>5. COptionData(key) = tag \o <<cell>>
  BY <1>1, <1>4 DEF COptionData
<1>6. tag \o <<cell>> \in Seq(S) /\ Len(tag \o <<cell>>) = Len(tag) + 1
  BY <1>3
<1> QED
  BY <1>3, <1>5, <1>6 DEF COptionSize

LEMMA COptionRead ==
    ASSUME NEW key, NEW data, NEW offset \in Nat, Stands(data, offset, COptionData(key))
    PROVE  coption(data, offset) = key
<1>1. PICK tag, flag : flag = Flag(key # "null") /\ tag = u32ToLeBytes(flag)
  OBVIOUS
<1>2. PICK cell : cell = IF key = "null" THEN 0 ELSE key
  OBVIOUS
<1>3. PICK S : S = 0..(Base - 1) \union {cell}
  OBVIOUS
<1>4. flag \in Int /\ flag \in {0, 1} /\ (flag = 0 <=> key = "null")
  BY <1>1 DEF Flag
<1>5. tag \in Seq(S) /\ <<cell>> \in Seq(S) /\ Len(tag) = Width["u32"]
  <2>1. 0..(Base - 1) \subseteq S /\ cell \in S
    BY <1>3
  <2>2. tag \in Seq(S) /\ Len(tag) = Width["u32"]
    BY <1>1, <1>4, <2>1, NumberCells
  <2> QED
    BY <2>1, <2>2
<1>6. Stands(data, offset, tag \o <<cell>>)
  BY <1>1, <1>2 DEF COptionData
<1>7. Stands(data, offset, tag) /\ Stands(data, offset + Width["u32"], <<cell>>)
  BY <1>5, <1>6, StandsParts
<1>8. flag \in 0..MaxOf("u32")
  <2>1. "u32" \in IntegerType
    BY BytesAssumption DEF IntegerType
  <2>2. PICK half \in Nat : Modulus("u32") = 2 * half
    BY <2>1, Moduli
  <2>3. Modulus("u32") \in Nat \ {0} /\ MaxOf("u32") = Modulus("u32") - 1
    BY <2>1, Moduli DEF MaxOf, MinOf, SignedType
  <2> QED
    BY <1>4, <2>2, <2>3
<1>9. decodeU32LE(data, offset) = flag
  BY <1>1, <1>7, <1>8, NumberRead
<1>10. ByteAt(data, offset + Width["u32"]) = cell
  BY <1>7, BytesAssumption, StandsOne
<1> QED
  BY <1>2, <1>4, <1>9, <1>10 DEF coption

-----------------------------------------------------------------------------

\* Sequences that are appended to one another, one after the other.
Chain(f, A, none, cat, parts, n) ==
    /\ f \in [Nat -> A] /\ f[0] = none
    /\ \A i \in 1..n : f[i] = cat[<<f[i - 1], parts[i]>>]

LEMMA ChainExists ==
    ASSUME NEW A, NEW none \in A, NEW cat \in [A \X A -> A], NEW n \in Nat, NEW parts \in [1..n -> A]
    PROVE  \E f : Chain(f, A, none, cat, parts, n)
<1>1. PICK more \in [Nat -> A] : \A i \in 1..n : more[i - 1] = parts[i]
  <2> DEFINE next == [i \in Nat |-> IF i + 1 \in 1..n THEN parts[i + 1] ELSE none]
  <2>1. next \in [Nat -> A]
    OBVIOUS
  <2>2. ASSUME NEW i \in 1..n PROVE next[i - 1] = parts[i]
    <3>1. i - 1 \in Nat /\ (i - 1) + 1 = i
      OBVIOUS
    <3> QED
      BY <3>1
  <2> HIDE DEF next
  <2> QED
    BY <2>1, <2>2
<1>2. PICK step : step = [p \in Nat \X A |-> cat[<<p[2], more[p[1]]>>]]
  OBVIOUS
<1>3. \A i \in Nat, s \in A : step[<<i, s>>] = cat[<<s, more[i]>>]
  BY <1>2
<1>4. StepOn(A, step)
  <2>1. \A p \in Nat \X A : cat[<<p[2], more[p[1]]>>] \in A
    BY <1>1
  <2> QED
    BY <1>2, <2>1 DEF StepOn
<1>5. PICK f : Recurses(f, A, none, step)
  BY <1>4, Recursion
<1>6. f \in [Nat -> A] /\ f[0] = none /\ \A i \in Nat : f[i + 1] = step[<<i, f[i]>>]
  BY <1>5 DEF Recurses
<1>7. ASSUME NEW i \in 1..n PROVE f[i] = cat[<<f[i - 1], parts[i]>>]
  <2>1. i - 1 \in Nat /\ (i - 1) + 1 = i
    OBVIOUS
  <2>2. f[(i - 1) + 1] = step[<<i - 1, f[i - 1]>>]
    BY <1>6, <2>1
  <2>3. f[i - 1] \in A
    BY <1>6, <2>1
  <2> QED
    BY <1>1, <1>3, <2>1, <2>2, <2>3
<1> QED
  BY <1>6, <1>7 DEF Chain

Grows(f, S, parts, n) ==
    /\ f \in [Nat -> Seq(S)] /\ f[0] = <<>>
    /\ \A i \in 1..n : f[i] = f[i - 1] \o parts[i]

LEMMA Growth ==
    ASSUME NEW S, NEW n \in Nat, NEW parts \in [1..n -> Seq(S)]
    PROVE  \E f : Grows(f, S, parts, n)
<1>1. PICK A : A = Seq(S)
  OBVIOUS
<1>2. PICK none \in A : none = <<>>
  <2>1. <<>> \in Seq(S)
    OBVIOUS
  <2> QED
    BY <1>1, <2>1
<1>3. PICK cat : cat = [p \in A \X A |-> p[1] \o p[2]]
  OBVIOUS
<1>4. cat \in [A \X A -> A]
  <2>1. \A p \in A \X A : p[1] \o p[2] \in A
    BY <1>1
  <2> QED
    BY <1>3, <2>1
<1>5. \A s, t \in A : cat[<<s, t>>] = s \o t
  BY <1>3
<1>6. PICK f : Chain(f, A, none, cat, parts, n)
  BY <1>1, <1>2, <1>4, ChainExists
<1>7. f \in [Nat -> A] /\ f[0] = none /\ \A i \in 1..n : f[i] = cat[<<f[i - 1], parts[i]>>]
  BY <1>6 DEF Chain
<1>8. ASSUME NEW i \in 1..n PROVE f[i] = f[i - 1] \o parts[i]
  <2>1. i - 1 \in Nat
    OBVIOUS
  <2>2. f[i - 1] \in A
    BY <1>7, <2>1
  <2>3. parts[i] \in A
    BY <1>1
  <2> QED
    BY <1>5, <1>7, <2>2, <2>3, Zenon
<1>9. f \in [Nat -> Seq(S)] /\ f[0] = <<>>
  BY <1>1, <1>2, <1>7
<1> QED
  BY <1>8, <1>9 DEF Grows


\* What FlattenSeq() comes to
Flattens(g, parts, n) ==
    g = [i \in 1..n |-> IF i = 1 THEN parts[i] ELSE g[i - 1] \o parts[i]]

LEMMA FlattenGrown ==
    ASSUME NEW S, NEW n \in Nat \ {0}, NEW parts \in [1..n -> Seq(S)], NEW f, Grows(f, S, parts, n)
    PROVE  \E g : Flattens(g, parts, n)
<1> DEFINE told == [i \in 1..n |-> f[i]]
<1>1. ASSUME NEW i \in 1..n
      PROVE  told[i] = IF i = 1 THEN parts[i] ELSE told[i - 1] \o parts[i]
  <2>1. told[i] = f[i] /\ f[i] = f[i - 1] \o parts[i]
    BY DEF Grows
  <2>2. CASE i = 1
    <3>1. i - 1 = 0
      BY <2>2
    <3>2. f[i - 1] = <<>>
      BY <3>1 DEF Grows
    <3>3. parts[i] \in Seq(S)
      OBVIOUS
    <3>4. \A s \in Seq(S) : <<>> \o s = s
      OBVIOUS
    <3>5. told[i] = <<>> \o parts[i]
      BY <2>1, <3>2, Zenon
    <3>6. told[i] = parts[i]
      BY <3>3, <3>4, <3>5, Zenon
    <3> QED
      BY <2>2, <3>6
  <2>3. CASE i # 1
    <3>1. i - 1 \in 1..n
      BY <2>3
    <3>2. told[i - 1] = f[i - 1]
      BY <3>1
    <3> QED
      BY <2>1, <2>3, <3>2, Zenon
  <2> QED
    BY <2>2, <2>3
<1>2. told = [i \in 1..n |-> told[i]]
  OBVIOUS
<1> HIDE DEF told
<1>3. Flattens(told, parts, n)
  BY <1>1, <1>2 DEF Flattens
<1> QED
  BY <1>3

LEMMA FlattenedGrown ==
    ASSUME NEW S, NEW n \in Nat \ {0}, NEW parts \in [1..n -> Seq(S)], NEW f, Grows(f, S, parts, n),
           NEW g, Flattens(g, parts, n)
    PROVE  g[n] = f[n]
<1> DEFINE Same == {i \in 0..n : i = 0 \/ g[i] = f[i]}
<1>1. 0 \in Same
  OBVIOUS
<1>2. ASSUME NEW i \in 0..(n - 1), i \in Same PROVE i + 1 \in Same
  <2>1. i + 1 \in 1..n /\ (i + 1) - 1 = i
    OBVIOUS
  <2>2. f[i + 1] = f[i] \o parts[i + 1]
    BY <2>1 DEF Grows
  <2>3. g[i + 1] = IF i + 1 = 1 THEN parts[i + 1] ELSE g[i] \o parts[i + 1]
    BY <2>1 DEF Flattens
  <2>4. CASE i = 0
    <3>1. f[i] = <<>>
      BY <2>4 DEF Grows
    <3>2. \A s \in Seq(S) : <<>> \o s = s
      OBVIOUS
    <3>3. parts[i + 1] \in Seq(S)
      BY <2>1
    <3>4. f[i + 1] = <<>> \o parts[i + 1]
      BY <2>2, <3>1, Zenon
    <3>5. f[i + 1] = parts[i + 1]
      BY <3>2, <3>3, <3>4, Zenon
    <3>6. g[i + 1] = parts[i + 1]
      BY <2>3, <2>4
    <3> QED
      BY <2>1, <3>5, <3>6
  <2>5. CASE i # 0
    <3>1. g[i] = f[i]
      BY <1>2, <2>5
    <3>2. g[i + 1] = g[i] \o parts[i + 1]
      <4>1. i + 1 # 1
        BY <2>5
      <4> QED
        BY <2>3, <4>1, Zenon
    <3>3. g[i + 1] = f[i + 1]
      BY <2>2, <3>1, <3>2, Zenon
    <3> QED
      BY <2>1, <3>3
  <2> QED
    BY <2>4, <2>5
<1>3. 0..n \subseteq Same
  <2> HIDE DEF Same
  <2> QED
    BY <1>1, <1>2, InductionUpTo
<1> QED
  BY <1>3

LEMMA FlattenSeqGrown ==
    ASSUME NEW S, NEW n \in Nat, NEW parts \in [1..n -> Seq(S)], NEW f, Grows(f, S, parts, n)
    PROVE  FlattenSeq(parts) = f[n]
<1>1. CASE n = 0
  <2>1. parts = <<>> /\ Len(parts) = 0
    BY <1>1
  <2>2. FlattenSeq(parts) = parts
    BY <2>1 DEF FlattenSeq
  <2>3. f[n] = <<>>
    BY <1>1 DEF Grows
  <2> QED
    BY <2>1, <2>2, <2>3
<1>2. CASE n > 0
  <2>1. Len(parts) = n /\ n # 0 /\ n \in Nat \ {0}
    BY <1>2
  <2> DEFINE flatten == CHOOSE g : Flattens(g, parts, n)
  <2>2. FlattenSeq(parts) = flatten[n]
    BY <2>1 DEF FlattenSeq, Flattens
  <2>3. \E g : Flattens(g, parts, n)
    BY <2>1, FlattenGrown
  <2>4. Flattens(flatten, parts, n)
    BY <2>3
  <2> HIDE DEF flatten
  <2>5. flatten[n] = f[n]
    BY <2>1, <2>4, FlattenedGrown
  <2> QED
    BY <2>2, <2>5
<1> QED
  BY <1>1, <1>2

\* Several parts in a row

LEMMA ThreeJoined ==
    ASSUME NEW S, NEW a \in Seq(S), NEW b \in Seq(S), NEW c \in Seq(S),
           NEW all, all = a \o b \o c
    PROVE  all \in Seq(S) /\ Len(all) = Len(a) + Len(b) + Len(c)
<1>1. PICK ab \in Seq(S) : ab = a \o b /\ Len(ab) = Len(a) + Len(b)
  BY Joined
<1>2. all = ab \o c
  BY <1>1
<1> QED
  BY <1>1, <1>2, Joined

LEMMA ThreeParts ==
    ASSUME NEW S, NEW a \in Seq(S), NEW b \in Seq(S), NEW c \in Seq(S),
           NEW all, all = a \o b \o c,
           NEW data, NEW offset \in Nat, Stands(data, offset, all)
    PROVE  /\ Stands(data, offset, a) /\ Stands(data, offset + Len(a), b)
           /\ Stands(data, offset + Len(a) + Len(b), c)
<1>1. PICK ab \in Seq(S) : ab = a \o b /\ Len(ab) = Len(a) + Len(b)
  BY Joined
<1>2. all = ab \o c
  BY <1>1
<1>3. Stands(data, offset, ab) /\ Stands(data, offset + Len(ab), c)
  BY <1>2, StandsParts
<1>4. Stands(data, offset, a) /\ Stands(data, offset + Len(a), b)
  BY <1>1, <1>3, StandsParts
<1>5. offset + Len(ab) = offset + Len(a) + Len(b)
  BY <1>1
<1> QED
  BY <1>3, <1>4, <1>5

Four(S, a, b, c, d, all) ==
    /\ a \in Seq(S) /\ b \in Seq(S) /\ c \in Seq(S) /\ d \in Seq(S)
    /\ all = a \o b \o c \o d

LEMMA FourJoined ==
    ASSUME NEW S, NEW a, NEW b, NEW c, NEW d, NEW all, Four(S, a, b, c, d, all)
    PROVE  all \in Seq(S) /\ Len(all) = Len(a) + Len(b) + Len(c) + Len(d)
<1> USE DEF Four
<1>1. PICK abc : abc = a \o b \o c
  OBVIOUS
<1>2. abc \in Seq(S) /\ Len(abc) = Len(a) + Len(b) + Len(c)
  BY <1>1, ThreeJoined
<1>3. all = abc \o d
  BY <1>1
<1> QED
  BY <1>2, <1>3, Joined

LEMMA FourParts ==
    ASSUME NEW S, NEW a, NEW b, NEW c, NEW d, NEW all, Four(S, a, b, c, d, all),
           NEW data, NEW offset \in Nat, Stands(data, offset, all)
    PROVE  /\ Stands(data, offset, a) /\ Stands(data, offset + Len(a), b)
           /\ Stands(data, offset + Len(a) + Len(b), c)
           /\ Stands(data, offset + Len(a) + Len(b) + Len(c), d)
<1> USE DEF Four
<1>1. PICK abc : abc = a \o b \o c
  OBVIOUS
<1>2. abc \in Seq(S) /\ Len(abc) = Len(a) + Len(b) + Len(c)
  BY <1>1, ThreeJoined
<1>3. all = abc \o d
  BY <1>1
<1>4. Stands(data, offset, abc) /\ Stands(data, offset + Len(abc), d)
  BY <1>2, <1>3, StandsParts
<1>5. /\ Stands(data, offset, a) /\ Stands(data, offset + Len(a), b)
      /\ Stands(data, offset + Len(a) + Len(b), c)
  BY <1>1, <1>4, ThreeParts
<1>6. offset + Len(abc) = offset + Len(a) + Len(b) + Len(c)
  BY <1>2
<1> QED
  BY <1>4, <1>5, <1>6

Five(S, a, b, c, d, e, all) ==
    /\ a \in Seq(S) /\ b \in Seq(S) /\ c \in Seq(S)
    /\ d \in Seq(S) /\ e \in Seq(S)
    /\ all = a \o b \o c \o d \o e

LEMMA FiveJoined ==
    ASSUME NEW S, NEW a, NEW b, NEW c, NEW d, NEW e, NEW all, Five(S, a, b, c, d, e, all)
    PROVE  all \in Seq(S) /\ Len(all) = Len(a) + Len(b) + Len(c) + Len(d) + Len(e)
<1> USE DEF Five
<1>1. PICK abcd : abcd = a \o b \o c \o d
  OBVIOUS
<1>2. abcd \in Seq(S) /\ Len(abcd) = Len(a) + Len(b) + Len(c) + Len(d)
  <2>1. Four(S, a, b, c, d, abcd)
    BY <1>1 DEF Four
  <2> QED
    BY <2>1, FourJoined
<1>3. all = abcd \o e
  BY <1>1
<1> QED
  BY <1>2, <1>3, Joined

LEMMA FiveParts ==
    ASSUME NEW S, NEW a, NEW b, NEW c, NEW d, NEW e, NEW all, Five(S, a, b, c, d, e, all),
           NEW data, NEW offset \in Nat, Stands(data, offset, all)
    PROVE  /\ Stands(data, offset, a)
           /\ Stands(data, offset + Len(a), b)
           /\ Stands(data, offset + Len(a) + Len(b), c)
           /\ Stands(data, offset + Len(a) + Len(b) + Len(c), d)
           /\ Stands(data, offset + Len(a) + Len(b) + Len(c) + Len(d), e)
<1> USE DEF Five
<1>1. PICK abc : abc = a \o b \o c
  OBVIOUS
<1>2. abc \in Seq(S) /\ Len(abc) = Len(a) + Len(b) + Len(c)
  BY <1>1, ThreeJoined
<1>3. all = abc \o d \o e
  BY <1>1
<1>4. /\ Stands(data, offset, abc) /\ Stands(data, offset + Len(abc), d)
      /\ Stands(data, offset + Len(abc) + Len(d), e)
  BY <1>2, <1>3, ThreeParts
<1>5. /\ Stands(data, offset, a) /\ Stands(data, offset + Len(a), b)
      /\ Stands(data, offset + Len(a) + Len(b), c)
  BY <1>1, <1>4, ThreeParts
<1>6. offset + Len(abc) = offset + Len(a) + Len(b) + Len(c)
  BY <1>2
<1> QED
  BY <1>4, <1>5, <1>6

Six(S, a, b, c, d, e, f, all) ==
    /\ a \in Seq(S) /\ b \in Seq(S) /\ c \in Seq(S)
    /\ d \in Seq(S) /\ e \in Seq(S) /\ f \in Seq(S)
    /\ all = a \o b \o c \o d \o e \o f

LEMMA SixJoined ==
    ASSUME NEW S, NEW a, NEW b, NEW c, NEW d, NEW e, NEW f, NEW all, Six(S, a, b, c, d, e, f, all)
    PROVE  all \in Seq(S) /\ Len(all) = Len(a) + Len(b) + Len(c) + Len(d) + Len(e) + Len(f)
<1> USE DEF Six
<1>1. PICK abcde : abcde = a \o b \o c \o d \o e
  OBVIOUS
<1>2. abcde \in Seq(S) /\ Len(abcde) = Len(a) + Len(b) + Len(c) + Len(d) + Len(e)
  <2>1. Five(S, a, b, c, d, e, abcde)
    BY <1>1 DEF Five
  <2> QED
    BY <2>1, FiveJoined
<1>3. all = abcde \o f
  BY <1>1
<1> QED
  BY <1>2, <1>3, Joined

LEMMA SixParts ==
    ASSUME NEW S, NEW a, NEW b, NEW c, NEW d, NEW e, NEW f, NEW all, Six(S, a, b, c, d, e, f, all),
           NEW data, NEW offset \in Nat, Stands(data, offset, all)
    PROVE  /\ Stands(data, offset, a)
           /\ Stands(data, offset + Len(a), b)
           /\ Stands(data, offset + Len(a) + Len(b), c)
           /\ Stands(data, offset + Len(a) + Len(b) + Len(c), d)
           /\ Stands(data, offset + Len(a) + Len(b) + Len(c) + Len(d), e)
           /\ Stands(data, offset + Len(a) + Len(b) + Len(c) + Len(d) + Len(e), f)
<1> USE DEF Six
<1>1. PICK ab : ab = a \o b
  OBVIOUS
<1>2. ab \in Seq(S) /\ Len(ab) = Len(a) + Len(b)
  BY <1>1, Joined
<1>3. PICK abcd : abcd = ab \o c \o d
  OBVIOUS
<1>4. abcd \in Seq(S) /\ Len(abcd) = Len(ab) + Len(c) + Len(d)
  <2>1. ab \in Seq(S) /\ c \in Seq(S) /\ d \in Seq(S) /\ abcd = ab \o c \o d
    BY <1>2, <1>3
  <2> QED
    BY ONLY <2>1, ThreeJoined
<1>5. all = abcd \o e \o f
  BY <1>1, <1>3
<1>6. /\ Stands(data, offset, abcd) /\ Stands(data, offset + Len(abcd), e)
      /\ Stands(data, offset + Len(abcd) + Len(e), f)
  BY <1>4, <1>5, ThreeParts
<1>7. /\ Stands(data, offset, ab) /\ Stands(data, offset + Len(ab), c)
      /\ Stands(data, offset + Len(ab) + Len(c), d)
  BY <1>2, <1>3, <1>6, ThreeParts
<1>8. Stands(data, offset, a) /\ Stands(data, offset + Len(a), b)
  BY <1>1, <1>7, StandsParts
<1>9. offset + Len(ab) = offset + Len(a) + Len(b)
  BY <1>2
<1>10. offset + Len(abcd) = offset + Len(a) + Len(b) + Len(c) + Len(d)
  BY <1>2, <1>4
<1> QED
  BY <1>6, <1>7, <1>8, <1>9, <1>10

\* What stands within something that stands somewhere
LEMMA StandsWithin ==
    ASSUME NEW S, NEW whole \in Seq(S), NEW part \in Seq(S), NEW data, NEW offset \in Nat,
           NEW at \in Nat, Stands(data, offset, whole), Stands(whole, at, part),
           at + Len(part) <= Len(whole)
    PROVE  Stands(data, offset + at, part)
<1>1. ASSUME NEW i \in 1..Len(part) PROVE ByteAt(data, (offset + at) + i - 1) = part[i]
  <2>1. PICK k \in 1..Len(whole) : k = at + i
    OBVIOUS
  <2>2. ByteAt(data, offset + k - 1) = whole[k]
    BY DEF Stands
  <2>3. ByteAt(whole, at + i - 1) = whole[k]
    <3>1. (at + i - 1) + 1 = k /\ k \in DOMAIN whole
      BY <2>1
    <3> QED
      BY <3>1 DEF ByteAt
  <2>4. ByteAt(whole, at + i - 1) = part[i]
    BY DEF Stands
  <2>5. offset + k - 1 = (offset + at) + i - 1
    BY <2>1
  <2> QED
    BY <2>2, <2>3, <2>4, <2>5
<1> QED
  BY <1>1 DEF Stands


\* Where each of a list of parts ends.
Ends(ends, parts, n) ==
    /\ ends \in [0..n -> Nat] /\ ends[0] = 0
    /\ \A i \in 1..n : ends[i] = ends[i - 1] + Len(parts[i])

LEMMA GrownEnds ==
    ASSUME NEW S, NEW n \in Nat, NEW parts \in [1..n -> Seq(S)], NEW f, Grows(f, S, parts, n),
           NEW ends, ends = [i \in 0..n |-> Len(f[i])]
    PROVE  Ends(ends, parts, n) /\ \A i \in 0..n : ends[i] = Len(f[i])
<1>1. \A i \in 0..n : f[i] \in Seq(S)
  BY DEF Grows
<1>2. ends \in [0..n -> Nat] /\ \A i \in 0..n : ends[i] = Len(f[i])
  <2>1. \A i \in 0..n : Len(f[i]) \in Nat
    BY <1>1
  <2> QED
    BY <2>1
<1>3. ends[0] = 0
  <2>1. f[0] = <<>> /\ 0 \in 0..n
    BY DEF Grows
  <2> QED
    BY <1>2, <2>1
<1>4. ASSUME NEW i \in 1..n PROVE ends[i] = ends[i - 1] + Len(parts[i])
  <2>1. i \in 0..n /\ i - 1 \in 0..n
    OBVIOUS
  <2>2. f[i - 1] \in Seq(S) /\ parts[i] \in Seq(S)
    BY <1>1, <2>1
  <2>3. f[i] = f[i - 1] \o parts[i]
    BY DEF Grows
  <2>4. Len(f[i]) = Len(f[i - 1]) + Len(parts[i])
    BY <2>2, <2>3, Joined
  <2> QED
    BY <1>2, <2>1, <2>4
<1> QED
  BY <1>2, <1>3, <1>4 DEF Ends

\* What of a growing sequence stands in it
Placed(f, parts, m) ==
    \A i \in 1..m : Len(f[i]) <= Len(f[m]) /\ Stands(f[m], Len(f[i - 1]), parts[i])

LEMMA PlacedNext ==
    ASSUME NEW S, NEW n \in Nat, NEW parts \in [1..n -> Seq(S)], NEW f, Grows(f, S, parts, n),
           NEW m \in 0..(n - 1), Placed(f, parts, m)
    PROVE  Placed(f, parts, m + 1)
<1>1. m + 1 \in 1..n /\ (m + 1) - 1 = m /\ m \in Nat /\ m + 1 \in Nat
  OBVIOUS
<1>2. PICK before \in Seq(S) : before = f[m]
  BY <1>1 DEF Grows
<1>3. PICK last \in Seq(S) : last = parts[m + 1]
  BY <1>1
<1>4. PICK now \in Seq(S) : now = f[m + 1]
  BY <1>1 DEF Grows
<1>5. now = before \o last
  <2>1. f[m + 1] = f[(m + 1) - 1] \o parts[m + 1]
    BY <1>1 DEF Grows
  <2> QED
    BY <1>1, <1>2, <1>3, <1>4, <2>1
<1>6. Len(now) = Len(before) + Len(last)
  BY <1>5, Joined
<1>7. Stands(now, 0, now)
  BY StandsItself
<1>8. Stands(now, 0, before) /\ Stands(now, 0 + Len(before), last)
  BY <1>5, <1>7, StandsParts
<1>9. Len(before) \in Nat /\ Len(last) \in Nat
  OBVIOUS
<1>10. ASSUME NEW i \in 1..(m + 1)
       PROVE  Len(f[i]) <= Len(f[m + 1]) /\ Stands(f[m + 1], Len(f[i - 1]), parts[i])
  <2>1. CASE i = m + 1
    <3>1. f[i - 1] = before /\ f[i] = now /\ parts[i] = last
      BY <1>1, <1>2, <1>3, <1>4, <2>1
    <3>2. 0 + Len(before) = Len(before) /\ Len(now) <= Len(now)
      BY <1>6, <1>9
    <3> QED
      BY <1>4, <1>8, <3>1, <3>2
  <2>2. CASE i # m + 1
    <3>1. i \in 1..m /\ i \in 1..n /\ i - 1 \in Nat /\ i \in Nat
      BY <2>2
    <3>2. Len(f[i]) <= Len(before) /\ Stands(before, Len(f[i - 1]), parts[i])
      BY <1>2, <3>1 DEF Placed
    <3>3. PICK start \in Seq(S) : start = f[i - 1]
      BY <3>1 DEF Grows
    <3>4. PICK part \in Seq(S) : part = parts[i]
      BY <3>1
    <3>5. Len(f[i]) = Len(start) + Len(part)
      <4>1. f[i] = start \o part
        BY <3>1, <3>3, <3>4 DEF Grows
      <4> QED
        BY <4>1, Joined
    <3>6. Len(start) \in Nat /\ Len(start) + Len(part) <= Len(before)
      BY <3>2, <3>5
    <3>7. Stands(before, Len(start), part)
      BY <3>2, <3>3, <3>4
    <3>8. Stands(now, 0 + Len(start), part)
      BY <1>8, <3>6, <3>7, StandsWithin
    <3>9. 0 + Len(start) = Len(start)
      BY <3>6
    <3>10. Len(f[i]) <= Len(now)
      BY <1>6, <1>9, <3>5, <3>6
    <3> QED
      BY <1>4, <3>3, <3>4, <3>8, <3>9, <3>10
  <2> QED
    BY <2>1, <2>2
<1> QED
  BY <1>10 DEF Placed

\* A list of parts put together: where each ends, and that it stands there
LaidOut(S, n, parts, flat) ==
    /\ flat \in Seq(S)
    /\ \E ends : /\ Ends(ends, parts, n) /\ Len(flat) = ends[n]
                 /\ \A i \in 1..n : ends[i] <= ends[n] /\ Stands(flat, ends[i - 1], parts[i])

LEMMA Flattened ==
    ASSUME NEW S, NEW n \in Nat, NEW parts \in [1..n -> Seq(S)],
           NEW flat, flat = FlattenSeq(parts)
    PROVE  LaidOut(S, n, parts, flat)
<1>1. PICK f : Grows(f, S, parts, n)
  BY Growth
<1>2. flat = f[n]
  BY <1>1, FlattenSeqGrown
<1>3. flat \in Seq(S)
  BY <1>1, <1>2 DEF Grows
<1>4. PICK ends : ends = [i \in 0..n |-> Len(f[i])]
  OBVIOUS
<1>5. Ends(ends, parts, n) /\ \A i \in 0..n : ends[i] = Len(f[i])
  BY <1>1, <1>4, GrownEnds
<1> DEFINE Good == {m \in 0..n : Placed(f, parts, m)}
<1>6. 0 \in Good
  BY DEF Placed
<1>7. ASSUME NEW m \in 0..(n - 1), m \in Good PROVE m + 1 \in Good
  <2>1. Placed(f, parts, m + 1)
    BY <1>1, <1>7, PlacedNext
  <2>2. m + 1 \in 0..n
    OBVIOUS
  <2> QED
    BY <2>1, <2>2
<1>8. 0..n \subseteq Good
  <2> HIDE DEF Good
  <2> QED
    BY <1>6, <1>7, InductionUpTo
<1>9. Placed(f, parts, n)
  BY <1>8
<1>10. ASSUME NEW i \in 1..n PROVE ends[i] <= ends[n] /\ Stands(flat, ends[i - 1], parts[i])
  <2>1. i \in 0..n /\ i - 1 \in 0..n /\ n \in 0..n
    OBVIOUS
  <2>2. ends[i] = Len(f[i]) /\ ends[i - 1] = Len(f[i - 1]) /\ ends[n] = Len(f[n])
    BY <1>5, <2>1
  <2>3. Len(f[i]) <= Len(f[n]) /\ Stands(f[n], Len(f[i - 1]), parts[i])
    BY <1>9 DEF Placed
  <2> QED
    BY <1>2, <2>2, <2>3
<1>11. Len(flat) = ends[n]
  BY <1>2, <1>5
<1> QED
  BY <1>3, <1>5, <1>10, <1>11 DEF LaidOut

-----------------------------------------------------------------------------

\* What ReadEach() comes to
ReadsOn(g, reader, offset, n) ==
    g = [i \in 0..n |->
            IF i = 0 THEN [items |-> <<>>, next |-> offset]
            ELSE [items |-> Append(g[i - 1].items, reader[g[i - 1].next].value),
                  next |-> reader[g[i - 1].next].next]]

\* Each item of a list is read where the one before it ends.
InARow(reader, list, ends, n) ==
    /\ ends \in [0..n -> Nat]
    /\ \A i \in 1..n : reader[ends[i - 1]] = [value |-> list[i], next |-> ends[i]]

LEMMA Growing ==
    ASSUME NEW S, NEW list \in Seq(S), NEW i \in 1..Len(list)
    PROVE  Append(SubSeq(list, 1, i - 1), list[i]) = SubSeq(list, 1, i)
<1>1. SubSeq(list, 1, i - 1) \in Seq(S) /\ Len(SubSeq(list, 1, i - 1)) = i - 1
  OBVIOUS
<1>2. SubSeq(list, 1, i) \in Seq(S) /\ Len(SubSeq(list, 1, i)) = i
  OBVIOUS
<1>3. \A k \in 1..i : SubSeq(list, 1, i)[k] = list[k]
  OBVIOUS
<1>4. \A k \in 1..(i - 1) : SubSeq(list, 1, i - 1)[k] = list[k]
  OBVIOUS
<1>5. PICK before \in Seq(S) : before = SubSeq(list, 1, i - 1)
  BY <1>1
<1>6. Append(before, list[i]) \in Seq(S) /\ Len(Append(before, list[i])) = i
  BY <1>1, <1>5
<1>7. \A k \in 1..i : Append(before, list[i])[k] = list[k]
  BY <1>1, <1>4, <1>5
<1> QED
  BY <1>2, <1>3, <1>5, <1>6, <1>7

\* What is told after i items
LEMMA InARowReads ==
    ASSUME NEW S, NEW list \in Seq(S), NEW n \in Nat, n = Len(list),
           NEW reader, NEW ends, InARow(reader, list, ends, n),
           NEW g, ReadsOn(g, reader, ends[0], n)
    PROVE  g[n] = [items |-> list, next |-> ends[n]]
<1> DEFINE Same == {i \in 0..n : g[i] = [items |-> SubSeq(list, 1, i), next |-> ends[i]]}
<1>1. 0 \in Same
  <2>1. g[0] = [items |-> <<>>, next |-> ends[0]]
    BY DEF ReadsOn
  <2>2. SubSeq(list, 1, 0) = <<>>
    OBVIOUS
  <2> QED
    BY <2>1, <2>2
<1>2. ASSUME NEW i \in 0..(n - 1), i \in Same PROVE i + 1 \in Same
  <2>1. i + 1 \in 1..n /\ (i + 1) - 1 = i /\ i + 1 # 0 /\ i + 1 \in 0..n
    OBVIOUS
  <2>2. g[i + 1] = [items |-> Append(g[i].items, reader[g[i].next].value),
                    next |-> reader[g[i].next].next]
    BY <2>1 DEF ReadsOn
  <2>3. g[i].items = SubSeq(list, 1, i) /\ g[i].next = ends[i]
    BY <1>2
  <2>4. reader[ends[i]] = [value |-> list[i + 1], next |-> ends[i + 1]]
    BY <2>1 DEF InARow
  <2>5. Append(SubSeq(list, 1, i), list[i + 1]) = SubSeq(list, 1, i + 1)
    BY <2>1, Growing
  <2>6. reader[g[i].next] = [value |-> list[i + 1], next |-> ends[i + 1]]
    BY <2>3, <2>4, Zenon
  <2>7. reader[g[i].next].value = list[i + 1] /\ reader[g[i].next].next = ends[i + 1]
    BY <2>6
  <2>8. g[i + 1] = [items |-> SubSeq(list, 1, i + 1), next |-> ends[i + 1]]
    BY <2>2, <2>3, <2>5, <2>7, Zenon
  <2> QED
    BY <2>1, <2>8
<1>3. 0..n \subseteq Same
  <2> HIDE DEF Same
  <2> QED
    BY <1>1, <1>2, InductionUpTo
<1>4. SubSeq(list, 1, n) = list
  OBVIOUS
<1> QED
  BY <1>3, <1>4

LEMMA ReadsOnExists ==
    ASSUME NEW S, NEW list \in Seq(S), NEW n \in Nat, n = Len(list),
           NEW reader, NEW ends, InARow(reader, list, ends, n)
    PROVE  \E g : ReadsOn(g, reader, ends[0], n)
<1> DEFINE told == [i \in 0..n |-> [items |-> SubSeq(list, 1, i), next |-> ends[i]]]
<1>1. ASSUME NEW i \in 0..n
      PROVE  told[i] = IF i = 0 THEN [items |-> <<>>, next |-> ends[0]]
                       ELSE [items |-> Append(told[i - 1].items, reader[told[i - 1].next].value),
                             next |-> reader[told[i - 1].next].next]
  <2>1. told[i] = [items |-> SubSeq(list, 1, i), next |-> ends[i]]
    OBVIOUS
  <2>2. CASE i = 0
    <3>1. SubSeq(list, 1, i) = <<>>
      BY <2>2
    <3> QED
      BY <2>1, <2>2, <3>1
  <2>3. CASE i # 0
    <3>1. i \in 1..n /\ i - 1 \in 0..n
      BY <2>3
    <3>2. told[i - 1].items = SubSeq(list, 1, i - 1) /\ told[i - 1].next = ends[i - 1]
      BY <3>1
    <3>3. reader[ends[i - 1]] = [value |-> list[i], next |-> ends[i]]
      BY <3>1 DEF InARow
    <3>4. Append(SubSeq(list, 1, i - 1), list[i]) = SubSeq(list, 1, i)
      BY <3>1, Growing
    <3> HIDE DEF told
    <3>5. reader[told[i - 1].next] = [value |-> list[i], next |-> ends[i]]
      BY <3>2, <3>3, Zenon
    <3>6. reader[told[i - 1].next].value = list[i] /\ reader[told[i - 1].next].next = ends[i]
      BY <3>5
    <3>7. told[i] = [items |-> Append(told[i - 1].items, reader[told[i - 1].next].value),
                     next |-> reader[told[i - 1].next].next]
      BY <2>1, <3>2, <3>4, <3>6, Zenon
    <3> QED
      BY <2>3, <3>7, Zenon
  <2> QED
    BY <2>2, <2>3
<1>2. told = [i \in 0..n |-> told[i]]
  OBVIOUS
<1> HIDE DEF told
<1>3. ReadsOn(told, reader, ends[0], n)
  BY <1>1, <1>2 DEF ReadsOn
<1> QED
  BY <1>3

LEMMA EachRead ==
    ASSUME NEW S, NEW list \in Seq(S), NEW n \in Nat, n = Len(list),
           NEW reader, NEW ends, InARow(reader, list, ends, n), NEW offset, offset = ends[0]
    PROVE  ReadEach(reader, offset, n) = [items |-> list, next |-> ends[n]]
<1> DEFINE read == CHOOSE g : ReadsOn(g, reader, offset, n)
<1>1. ReadEach(reader, offset, n) = read[n]
  BY DEF ReadEach, ReadsOn
<1>2. \E g : ReadsOn(g, reader, offset, n)
  BY ReadsOnExists
<1>3. ReadsOn(read, reader, offset, n)
  BY <1>2
<1> HIDE DEF read
<1>4. read[n] = [items |-> list, next |-> ends[n]]
  BY <1>3, InARowReads
<1> QED
  BY <1>1, <1>4

-----------------------------------------------------------------------------

LEMMA CountRead ==
    ASSUME NEW n \in Nat, n < Modulus("u32"), NEW data, NEW offset \in Nat,
           Stands(data, offset, u32ToLeBytes(n))
    PROVE  ReadNumber("u32", data, offset) = n
<1>1. "u32" \in IntegerType
  BY BytesAssumption DEF IntegerType
<1>2. Stands(data, offset, unsignedLE(n, Width["u32"]))
  BY WordsAreBytes
<1>3. ReadNumber("u32", data, offset) = n % Modulus("u32")
  BY <1>1, <1>2, NumberStanding
<1>4. PICK m \in Nat \ {0} : m = Modulus("u32")
  BY <1>1, Moduli
<1> QED
  BY <1>3, <1>4

LEMMA SeqWider ==
    ASSUME NEW A, NEW S, A \subseteq S, NEW s \in Seq(A)
    PROVE  s \in Seq(S)
OBVIOUS

LEMMA BytesAreBytes ==
    /\ \A n \in Octet : Byte(n) = n
    /\ \A s \in Seq(Octet) : Bytes(s) = s
<1>1. PICK B \in Nat \ {0} : B = Base
  BY BytesAssumption
<1>2. \A n \in Octet : Byte(n) = n
  BY <1>1 DEF Byte, Octet
<1>3. ASSUME NEW s \in Seq(Octet) PROVE Bytes(s) = s
  <2>1. \A i \in DOMAIN s : s[i] \in Octet
    OBVIOUS
  <2>2. \A i \in DOMAIN s : Byte(s[i]) = s[i]
    BY <1>2, <2>1
  <2>3. s = [i \in DOMAIN s |-> s[i]]
    OBVIOUS
  <2> QED
    BY <2>2, <2>3, Zenon DEF Bytes
<1> QED
  BY <1>2, <1>3

LEMMA SanitizedInstructionCells ==
    ASSUME NEW ix \in SanitizedInstruction, NEW S, Octet \subseteq S
    PROVE  \E index \in Seq(S), count \in Seq(S), accounts \in Seq(S), length \in Seq(S), bytes \in Seq(S) :
              /\ index = <<ix.program_id_index>> /\ Len(index) = 1
              /\ count = u32ToLeBytes(Len(ix.accounts)) /\ Len(count) = Width["u32"]
              /\ accounts = ix.accounts
              /\ length = u32ToLeBytes(Len(ix.data)) /\ Len(length) = Width["u32"]
              /\ bytes = ix.data
              /\ Five(S, index, count, accounts, length, bytes, serializeSanitizedInstruction(ix))
<1>1. /\ ix.program_id_index \in Octet
      /\ ix.accounts \in Seq(Octet) /\ ix.data \in Seq(Octet)
  BY DEF SanitizedInstruction
<1>2. /\ ix.accounts \in Seq(S) /\ ix.data \in Seq(S)
      /\ <<ix.program_id_index>> \in Seq(S) /\ Len(<<ix.program_id_index>>) = 1
  <2>1. ix.accounts \in Seq(S) /\ ix.data \in Seq(S)
    BY <1>1, SeqWider
  <2>2. ix.program_id_index \in S
    BY <1>1
  <2> QED
    BY <2>1, <2>2
<1>3. Len(ix.accounts) \in Int /\ Len(ix.data) \in Int
  BY <1>1
<1>4. u32ToLeBytes(Len(ix.accounts)) \in Seq(S) /\ Len(u32ToLeBytes(Len(ix.accounts))) = Width["u32"]
  BY <1>3, NumberCells DEF Octet
<1>5. u32ToLeBytes(Len(ix.data)) \in Seq(S) /\ Len(u32ToLeBytes(Len(ix.data))) = Width["u32"]
  BY <1>3, NumberCells DEF Octet
<1>6. Byte(ix.program_id_index) = ix.program_id_index /\ Bytes(ix.accounts) = ix.accounts
  BY <1>1, BytesAreBytes
<1>7. serializeSanitizedInstruction(ix) =
         <<ix.program_id_index>> \o u32ToLeBytes(Len(ix.accounts)) \o ix.accounts
         \o u32ToLeBytes(Len(ix.data)) \o ix.data
  BY <1>6, Zenon DEF serializeSanitizedInstruction
<1> QED
  <2> DEFINE index == <<ix.program_id_index>>
             count == u32ToLeBytes(Len(ix.accounts))
             length == u32ToLeBytes(Len(ix.data))
  <2>1. Five(S, index, count, ix.accounts, length, ix.data, serializeSanitizedInstruction(ix))
    BY <1>2, <1>4, <1>5, <1>7, Zenon DEF Five
  <2> QED
    BY <1>2, <1>4, <1>5, <2>1, Zenon

LEMMA SanitizedInstructionRead ==
    ASSUME NEW ix \in SanitizedInstruction, NEW S, Octet \subseteq S,
           NEW cells, cells = serializeSanitizedInstruction(ix),
           NEW data, NEW offset \in Nat, Stands(data, offset, cells)
    PROVE  ReadSanitizedInstruction(data, offset) = [value |-> ix, next |-> offset + Len(cells)]
<1>1. PICK index \in Seq(S), count \in Seq(S), accounts \in Seq(S), length \in Seq(S), bytes \in Seq(S) :
              /\ index = <<ix.program_id_index>> /\ Len(index) = 1
              /\ count = u32ToLeBytes(Len(ix.accounts)) /\ Len(count) = Width["u32"]
              /\ accounts = ix.accounts
              /\ length = u32ToLeBytes(Len(ix.data)) /\ Len(length) = Width["u32"]
              /\ bytes = ix.data
              /\ Five(S, index, count, accounts, length, bytes, cells)
  BY SanitizedInstructionCells, Zenon
<1>2. PICK w \in Nat, n \in Nat, m \in Nat :
         w = Width["u32"] /\ n = Len(accounts) /\ m = Len(bytes)
  BY BytesAssumption
<1>3. Len(cells) = 1 + w + n + w + m
  <2>1. Len(cells) = Len(index) + Len(count) + Len(accounts) + Len(length) + Len(bytes)
    <3>1. Five(S, index, count, accounts, length, bytes, cells)
      BY <1>1
    <3> QED
      BY ONLY <3>1, FiveJoined
  <2> QED
    BY <1>1, <1>2, <2>1, Zenon
<1>4. /\ Stands(data, offset, index) /\ Stands(data, offset + 1, count)
      /\ Stands(data, offset + 1 + w, accounts) /\ Stands(data, offset + 1 + w + n, length)
      /\ Stands(data, offset + 1 + w + n + w, bytes)
  <2>1. /\ Stands(data, offset, index)
        /\ Stands(data, offset + Len(index), count)
        /\ Stands(data, offset + Len(index) + Len(count), accounts)
        /\ Stands(data, offset + Len(index) + Len(count) + Len(accounts), length)
        /\ Stands(data, offset + Len(index) + Len(count) + Len(accounts) + Len(length), bytes)
    <3>1. Five(S, index, count, accounts, length, bytes, cells)
      BY <1>1
    <3>2. offset \in Nat /\ Stands(data, offset, cells)
      OBVIOUS
    <3> QED
      BY ONLY <3>1, <3>2, FiveParts
  <2> QED
    BY <1>1, <1>2, <2>1, Zenon
<1>5. ByteAt(data, offset) = ix.program_id_index
  BY <1>1, <1>4, StandsOne
<1>6. n < Modulus("u32") /\ m < Modulus("u32") /\ n = Len(ix.accounts) /\ m = Len(ix.data)
  BY <1>1, <1>2 DEF SanitizedInstruction, Countable
<1>7. ReadNumber("u32", data, offset + 1) = n
  <2>1. u32ToLeBytes(n) = count
    BY <1>1, <1>6
  <2>2. offset + 1 \in Nat /\ Stands(data, offset + 1, u32ToLeBytes(n))
    BY <1>4, <2>1
  <2> QED
    BY <1>6, <2>2, CountRead
<1>8. ReadNumber("u32", data, offset + 1 + w + n) = m
  <2>1. u32ToLeBytes(m) = length
    BY <1>1, <1>6
  <2>2. offset + 1 + w + n \in Nat /\ Stands(data, offset + 1 + w + n, u32ToLeBytes(m))
    BY <1>4, <2>1
  <2> QED
    BY <1>6, <2>2, CountRead
<1>9. Take(data, offset + 1 + w, n) = ix.accounts
  BY <1>1, <1>2, <1>4, TakesStanding
<1>10. Take(data, offset + 1 + w + n + w, m) = ix.data
  BY <1>1, <1>2, <1>4, TakesStanding
<1>11. ReadSanitizedInstruction(data, offset) =
          [value |-> [program_id_index |-> ByteAt(data, offset),
                      accounts |-> Take(data, offset + 1 + w, n),
                      data |-> Take(data, offset + 1 + w + n + w, m)],
           next |-> offset + 1 + w + n + w + m]
  BY <1>2, <1>7, <1>8 DEF ReadSanitizedInstruction
<1>12. ix = [program_id_index |-> ix.program_id_index, accounts |-> ix.accounts, data |-> ix.data]
  BY DEF SanitizedInstruction
<1>13. offset + 1 + w + n + w + m = offset + Len(cells)
  BY <1>3
<1> QED
  BY <1>5, <1>9, <1>10, <1>11, <1>12, <1>13, Zenon

\* Each part of a list stands for an item.
ReadsParts(reader, data, list, parts, n) ==
    \A i \in 1..n, at \in Nat :
        Stands(data, at, parts[i]) => reader[at] = [value |-> list[i], next |-> at + Len(parts[i])]

\* A list, and its parts one after the other.
Written(S, A, list, n, parts, flat) ==
    /\ list \in Seq(A) /\ n \in Nat /\ n = Len(list)
    /\ parts \in [1..n -> Seq(S)] /\ flat = FlattenSeq(parts)

LEMMA ListRead ==
    ASSUME NEW S, NEW A, NEW list, NEW n, NEW parts, NEW flat,
           Written(S, A, list, n, parts, flat),
           NEW reader, NEW data, NEW offset \in Nat, Stands(data, offset, flat),
           ReadsParts(reader, data, list, parts, n)
    PROVE  ReadEach(reader, offset, n) = [items |-> list, next |-> offset + Len(flat)]
<1> USE DEF Written
<1>1. LaidOut(S, n, parts, flat)
  BY Flattened
<1>2. PICK ends : /\ flat \in Seq(S) /\ Ends(ends, parts, n) /\ Len(flat) = ends[n]
                  /\ \A i \in 1..n : ends[i] <= ends[n] /\ Stands(flat, ends[i - 1], parts[i])
  BY <1>1 DEF LaidOut
<1>3. /\ ends \in [0..n -> Nat] /\ ends[0] = 0
      /\ \A i \in 1..n : ends[i] = ends[i - 1] + Len(parts[i])
  BY <1>2 DEF Ends
<1>4. PICK at : at = [i \in 0..n |-> offset + ends[i]]
  OBVIOUS
<1>5. at \in [0..n -> Nat] /\ at[0] = offset /\ at[n] = offset + Len(flat)
  BY <1>2, <1>3, <1>4
<1>6. ASSUME NEW i \in 1..n PROVE reader[at[i - 1]] = [value |-> list[i], next |-> at[i]]
  <2>1. i - 1 \in 0..n /\ i \in 0..n
    OBVIOUS
  <2>2. PICK part \in Seq(S) : part = parts[i]
    OBVIOUS
  <2>3. PICK before \in Nat : before = ends[i - 1]
    BY <1>3, <2>1
  <2>4. before + Len(part) <= Len(flat) /\ Stands(flat, before, part)
        /\ ends[i] = before + Len(part)
    BY <1>2, <1>3, <2>2, <2>3
  <2>5. Stands(data, offset + before, part)
    BY <1>2, <2>4, StandsWithin
  <2>6. at[i - 1] = offset + before /\ at[i] = (offset + before) + Len(part)
    BY <1>4, <2>1, <2>3, <2>4, SMTT(30)
  <2>7. offset + before \in Nat
    OBVIOUS
  <2> QED
    BY <2>2, <2>5, <2>6, <2>7 DEF ReadsParts
<1>7. InARow(reader, list, at, n)
  BY <1>5, <1>6 DEF InARow
<1>8. ReadEach(reader, offset, n) = [items |-> list, next |-> at[n]]
  BY <1>5, <1>7, EachRead
<1> QED
  BY <1>5, <1>8

LEMMA SanitizedInstructionIsCells ==
    ASSUME NEW ix \in SanitizedInstruction, NEW S, Octet \subseteq S
    PROVE  serializeSanitizedInstruction(ix) \in Seq(S)
<1>1. \E a, b, c, d, e : Five(S, a, b, c, d, e, serializeSanitizedInstruction(ix))
  BY SanitizedInstructionCells, Zenon
<1> QED
  BY <1>1, FiveJoined

SanitizedParts(list) == [i \in DOMAIN list |-> serializeSanitizedInstruction(list[i])]
SanitizedReader(data) == [at \in Nat |-> ReadSanitizedInstruction(data, at)]

LEMMA SanitizedInstructionsLaidOut ==
    ASSUME NEW list \in Seq(SanitizedInstruction), NEW S, Octet \subseteq S
    PROVE  /\ SanitizedParts(list) \in [1..Len(list) -> Seq(S)]
           /\ FlattenSeq(SanitizedParts(list)) \in Seq(S)
<1>1. PICK n \in Nat : n = Len(list) /\ DOMAIN list = 1..n
  OBVIOUS
<1>2. PICK parts : parts = SanitizedParts(list)
  OBVIOUS
<1>3. \A i \in 1..n : serializeSanitizedInstruction(list[i]) \in Seq(S)
  <2> TAKE i \in 1..n
  <2>1. list[i] \in SanitizedInstruction
    BY <1>1
  <2> QED
    BY <2>1, SanitizedInstructionIsCells
<1>4. parts \in [1..n -> Seq(S)]
  BY <1>1, <1>2, <1>3 DEF SanitizedParts
<1>5. PICK flat : flat = FlattenSeq(parts)
  OBVIOUS
<1>6. LaidOut(S, n, parts, flat)
  BY <1>4, <1>5, Flattened
<1> QED
  BY <1>1, <1>2, <1>4, <1>5, <1>6 DEF LaidOut

LEMMA SanitizedInstructionsRead ==
    ASSUME NEW list \in Seq(SanitizedInstruction),
           NEW flat, flat = FlattenSeq(SanitizedParts(list)),
           NEW data, NEW offset \in Nat, Stands(data, offset, flat)
    PROVE  ReadEach(SanitizedReader(data), offset, Len(list)) =
               [items |-> list, next |-> offset + Len(flat)]
<1>1. PICK n \in Nat : n = Len(list) /\ DOMAIN list = 1..n
  OBVIOUS
<1>2. PICK parts : parts = SanitizedParts(list)
  OBVIOUS
<1>3. PICK S : S = Octet
  OBVIOUS
<1>4. parts \in [1..n -> Seq(S)]
  BY <1>1, <1>2, <1>3, SanitizedInstructionsLaidOut
<1>5. PICK reader : reader = SanitizedReader(data)
  OBVIOUS
<1>6. ReadsParts(reader, data, list, parts, n)
  <2>1. ASSUME NEW i \in 1..n, NEW at \in Nat, Stands(data, at, parts[i])
        PROVE  reader[at] = [value |-> list[i], next |-> at + Len(parts[i])]
    <3>1. list[i] \in SanitizedInstruction /\ parts[i] = serializeSanitizedInstruction(list[i])
      BY <1>1, <1>2 DEF SanitizedParts
    <3>2. ReadSanitizedInstruction(data, at) = [value |-> list[i], next |-> at + Len(parts[i])]
      BY <1>3, <2>1, <3>1, SanitizedInstructionRead
    <3>3. reader[at] = ReadSanitizedInstruction(data, at)
      BY <1>5 DEF SanitizedReader
    <3> QED
      BY <3>2, <3>3, Zenon
  <2> QED
    BY <2>1 DEF ReadsParts
<1>7. ReadEach(reader, offset, n) = [items |-> list, next |-> offset + Len(flat)]
  <2>1. Written(S, SanitizedInstruction, list, n, parts, flat)
    BY <1>1, <1>2, <1>4 DEF Written
  <2>2. offset \in Nat /\ Stands(data, offset, flat)
    OBVIOUS
  <2> QED
    BY ONLY <1>6, <2>1, <2>2, ListRead
<1> QED
  BY <1>1, <1>5, <1>7

Cell == Octet \union Pubkey \union Signature \union Blockhash

\* A message in parts
LEMMA MessageCells ==
    ASSUME NEW message \in SanitizedMessage
    PROVE  \E header, count, keys, hash, length, flat :
              /\ Len(header) = 3 /\ header[1] = message.header.num_required_signatures
              /\ header[2] = message.header.num_readonly_signed_accounts
              /\ header[3] = message.header.num_readonly_unsigned_accounts
              /\ count = u32ToLeBytes(Len(message.account_keys)) /\ Len(count) = Width["u32"]
              /\ keys = message.account_keys
              /\ hash = <<message.recent_blockhash>> /\ Len(hash) = 1
              /\ length = u32ToLeBytes(Len(message.instructions)) /\ Len(length) = Width["u32"]
              /\ flat = FlattenSeq(SanitizedParts(message.instructions))
              /\ Six(Cell, header, count, keys, hash, length, flat, serializeSanitizedMessage(message))
<1>1. /\ message.header \in Header /\ message.account_keys \in Seq(Pubkey)
      /\ message.recent_blockhash \in Blockhash
      /\ message.instructions \in Seq(SanitizedInstruction)
  BY DEF SanitizedMessage
<1>2. PICK x \in Octet, y \in Octet, z \in Octet :
         /\ x = message.header.num_required_signatures
         /\ y = message.header.num_readonly_signed_accounts
         /\ z = message.header.num_readonly_unsigned_accounts
  BY <1>1 DEF Header
<1>3. PICK S : S = Cell
  OBVIOUS
<1>4. Octet \subseteq S /\ Pubkey \subseteq S /\ Blockhash \subseteq S
  BY <1>3 DEF Cell
<1>5. PICK header : /\ header = serializeMessageHeader(message.header) /\ header \in Seq(S)
                    /\ Len(header) = 3 /\ header[1] = x /\ header[2] = y /\ header[3] = z
  <2>1. Byte(x) = x /\ Byte(y) = y /\ Byte(z) = z
    BY BytesAreBytes
  <2>2. serializeMessageHeader(message.header) = <<x, y, z>>
    BY <1>2, <2>1, Zenon DEF serializeMessageHeader
  <2>3. x \in S /\ y \in S /\ z \in S
    BY <1>4
  <2>4. /\ <<x, y, z>> \in Seq(S) /\ Len(<<x, y, z>>) = 3
        /\ <<x, y, z>>[1] = x /\ <<x, y, z>>[2] = y /\ <<x, y, z>>[3] = z
    BY <2>3
  <2> QED
    BY <2>2, <2>4
<1>6. PICK keys \in Seq(S) : keys = message.account_keys
  BY <1>1, <1>4, SeqWider
<1>7. PICK hash \in Seq(S) : hash = <<message.recent_blockhash>> /\ Len(hash) = 1
  <2>1. message.recent_blockhash \in S
    BY <1>1, <1>4
  <2>2. <<message.recent_blockhash>> \in Seq(S) /\ Len(<<message.recent_blockhash>>) = 1
    BY <2>1
  <2> QED
    BY <2>2
<1>8. Len(message.account_keys) \in Int /\ Len(message.instructions) \in Int
  BY <1>1
<1>9. PICK count \in Seq(S) :
         count = u32ToLeBytes(Len(message.account_keys)) /\ Len(count) = Width["u32"]
  BY <1>4, <1>8, NumberCells DEF Octet
<1>10. PICK length \in Seq(S) :
          length = u32ToLeBytes(Len(message.instructions)) /\ Len(length) = Width["u32"]
  BY <1>4, <1>8, NumberCells DEF Octet
<1>11. PICK flat \in Seq(S) : flat = FlattenSeq(SanitizedParts(message.instructions))
  BY <1>1, <1>4, SanitizedInstructionsLaidOut
<1>12. serializeSanitizedMessage(message) =
          header \o count \o keys \o hash \o length \o flat
  BY <1>5, <1>6, <1>7, <1>9, <1>10, <1>11, Zenon DEF serializeSanitizedMessage, SanitizedParts
<1>13. Six(S, header, count, keys, hash, length, flat, serializeSanitizedMessage(message))
  BY <1>5, <1>12, Zenon DEF Six
<1> QED
  BY <1>2, <1>3, <1>5, <1>6, <1>7, <1>9, <1>10, <1>11, <1>13, Zenon

\* What reading a message at an offset comes to
MessageReads(data, offset, message, next) ==
    \E w \in Nat, k \in Nat : \E hash \in Nat :
       /\ w = Width["u32"] /\ k = Len(message.account_keys)
       /\ ReadNumber("u32", data, offset + 3) = k
       /\ hash = offset + 3 + w + k
       /\ ByteAt(data, offset) = message.header.num_required_signatures
       /\ ByteAt(data, offset + 1) = message.header.num_readonly_signed_accounts
       /\ ByteAt(data, offset + 2) = message.header.num_readonly_unsigned_accounts
       /\ Take(data, offset + 3 + w, k) = message.account_keys
       /\ ByteAt(data, hash) = message.recent_blockhash
       /\ ReadNumber("u32", data, hash + 1) = Len(message.instructions)
       /\ ReadEach(SanitizedReader(data), hash + 1 + w, Len(message.instructions))
             = [items |-> message.instructions, next |-> next]

LEMMA MessageRead ==
    ASSUME NEW message \in SanitizedMessage, NEW cells, cells = serializeSanitizedMessage(message),
           NEW data, NEW offset \in Nat, Stands(data, offset, cells)
    PROVE  cells \in Seq(Cell) /\ MessageReads(data, offset, message, offset + Len(cells))
<1>1. PICK header, count, keys, hash, length, flat :
              /\ Len(header) = 3 /\ header[1] = message.header.num_required_signatures
              /\ header[2] = message.header.num_readonly_signed_accounts
              /\ header[3] = message.header.num_readonly_unsigned_accounts
              /\ count = u32ToLeBytes(Len(message.account_keys)) /\ Len(count) = Width["u32"]
              /\ keys = message.account_keys
              /\ hash = <<message.recent_blockhash>> /\ Len(hash) = 1
              /\ length = u32ToLeBytes(Len(message.instructions)) /\ Len(length) = Width["u32"]
              /\ flat = FlattenSeq(SanitizedParts(message.instructions))
              /\ Six(Cell, header, count, keys, hash, length, flat,
                     serializeSanitizedMessage(message))
  BY MessageCells, Zenon
<1>2. PICK S : S = Cell
  OBVIOUS
<1>3. Six(S, header, count, keys, hash, length, flat, cells)
  BY <1>1, <1>2
<1>4. /\ header \in Seq(S) /\ keys \in Seq(S) /\ flat \in Seq(S)
  BY <1>3 DEF Six
<1>5. PICK w \in Nat, k \in Nat, f \in Nat : w = Width["u32"] /\ k = Len(keys) /\ f = Len(flat)
  BY <1>4, BytesAssumption
<1>6. cells \in Seq(S) /\ Len(cells) = 3 + w + k + 1 + w + f
  <2>1. /\ cells \in Seq(S)
        /\ Len(cells) = Len(header) + Len(count) + Len(keys) + Len(hash) + Len(length) + Len(flat)
    BY ONLY <1>3, SixJoined
  <2> QED
    BY <1>1, <1>5, <2>1, Zenon
<1>7. /\ Stands(data, offset, header) /\ Stands(data, offset + 3, count)
      /\ Stands(data, offset + 3 + w, keys) /\ Stands(data, offset + 3 + w + k, hash)
      /\ Stands(data, offset + 3 + w + k + 1, length)
      /\ Stands(data, offset + 3 + w + k + 1 + w, flat)
  <2>1. offset \in Nat /\ Stands(data, offset, cells)
    OBVIOUS
  <2>2. /\ Stands(data, offset, header)
        /\ Stands(data, offset + Len(header), count)
        /\ Stands(data, offset + Len(header) + Len(count), keys)
        /\ Stands(data, offset + Len(header) + Len(count) + Len(keys), hash)
        /\ Stands(data, offset + Len(header) + Len(count) + Len(keys) + Len(hash), length)
        /\ Stands(data, offset + Len(header) + Len(count) + Len(keys) + Len(hash) + Len(length), flat)
    BY ONLY <1>3, <2>1, SixParts
  <2> QED
    BY <1>1, <1>5, <2>2, Zenon
<1>8. PICK at \in Nat : at = offset + 3 + w + k
  OBVIOUS
<1>9. /\ ByteAt(data, offset) = header[1] /\ ByteAt(data, offset + 1) = header[2]
      /\ ByteAt(data, offset + 2) = header[3]
  <2>1. /\ 1 \in 1..Len(header) /\ 2 \in 1..Len(header) /\ 3 \in 1..Len(header)
        /\ offset + 1 - 1 = offset /\ offset + 2 - 1 = offset + 1 /\ offset + 3 - 1 = offset + 2
    BY <1>1
  <2> QED
    BY <1>7, <2>1 DEF Stands
<1>10. /\ k = Len(message.account_keys) /\ k < Modulus("u32")
       /\ Len(message.instructions) \in Nat /\ Len(message.instructions) < Modulus("u32")
  BY <1>1, <1>5 DEF SanitizedMessage, Countable
<1>11. ReadNumber("u32", data, offset + 3) = k
  <2>1. Stands(data, offset + 3, u32ToLeBytes(k)) /\ offset + 3 \in Nat
    <3>1. count = u32ToLeBytes(k)
      BY <1>1, <1>10, Zenon
    <3> QED
      BY <1>7, <3>1
  <2> QED
    BY <1>10, <2>1, CountRead
<1>12. Take(data, offset + 3 + w, k) = message.account_keys
  BY <1>1, <1>4, <1>5, <1>7, TakesStanding
<1>13. ByteAt(data, at) = message.recent_blockhash
  BY <1>1, <1>7, <1>8, StandsOne
<1>14. PICK m \in Nat : m = Len(message.instructions)
  BY <1>10
<1>15. ReadNumber("u32", data, at + 1) = m
  <2>1. length = u32ToLeBytes(m)
    BY <1>1, <1>14, Zenon
  <2>2. Stands(data, at + 1, u32ToLeBytes(m)) /\ at + 1 \in Nat
    BY <1>7, <1>8, <2>1
  <2> QED
    BY <1>10, <1>14, <2>2, CountRead
<1>16. ReadEach(SanitizedReader(data), at + 1 + w, m)
          = [items |-> message.instructions, next |-> offset + Len(cells)]
  <2>1. PICK next \in Nat : next = at + 1 + w
    OBVIOUS
  <2>2. Stands(data, next, flat)
    BY <1>7, <1>8, <2>1
  <2>3. message.instructions \in Seq(SanitizedInstruction)
    BY DEF SanitizedMessage
  <2>4. flat = FlattenSeq(SanitizedParts(message.instructions))
    BY <1>1
  <2>5. ReadEach(SanitizedReader(data), next, m) = [items |-> message.instructions, next |-> next + Len(flat)]
    BY <1>14, <2>1, <2>2, <2>3, <2>4, SanitizedInstructionsRead
  <2>6. next + f = offset + (3 + w + k + 1 + w + f)
    BY <1>8, <2>1
  <2>7. next + Len(flat) = offset + Len(cells)
    BY <1>5, <1>6, <2>6, Zenon
  <2> QED
    BY <2>1, <2>5, <2>7, Zenon
<1>17. MessageReads(data, offset, message, offset + Len(cells))
  <2>1. /\ w \in Nat /\ k \in Nat /\ at \in Nat /\ w = Width["u32"]
        /\ k = Len(message.account_keys) /\ at = offset + 3 + w + k
    BY <1>5, <1>8, <1>10
  <2>2. /\ ByteAt(data, offset) = message.header.num_required_signatures
        /\ ByteAt(data, offset + 1) = message.header.num_readonly_signed_accounts
        /\ ByteAt(data, offset + 2) = message.header.num_readonly_unsigned_accounts
    BY <1>1, <1>9, Zenon
  <2>3. /\ ReadNumber("u32", data, at + 1) = Len(message.instructions)
        /\ ReadEach(SanitizedReader(data), at + 1 + w, Len(message.instructions))
             = [items |-> message.instructions, next |-> offset + Len(cells)]
    BY <1>14, <1>15, <1>16, Zenon
  <2> QED
    BY <1>11, <1>12, <1>13, <2>1, <2>2, <2>3, Zenon DEF MessageReads
<1> QED
  BY <1>2, <1>6, <1>17

LEMMA TransactionRead ==
    ASSUME NEW tx \in RuntimeTransaction, Len(tx.signatures) <= MAX_SIGNERS
    PROVE  \E bytes : /\ serializeTransaction(tx) = Returns(bytes)
                      /\ bytes \in Seq(Cell)
                      /\ ReadTransaction(bytes) = [value |-> tx, next |-> Len(bytes)]
<1>1. /\ tx.version \in 0..(Modulus("u32") - 1) /\ tx.signatures \in Seq(Signature)
      /\ tx.message \in SanitizedMessage
  BY DEF RuntimeTransaction
<1>2. PICK s \in Nat : s = Len(tx.signatures)
  BY <1>1
<1>3. s \in Octet
  <2>1. PICK most \in Nat : most = MAX_SIGNERS /\ most < Base
    BY WireAssumption
  <2>2. s < Base
    BY <1>2, <2>1, BytesAssumption
  <2> QED
    BY <2>2, BytesAssumption DEF Octet
<1>4. PICK S : S = Cell
  OBVIOUS
<1>5. Octet \subseteq S /\ Signature \subseteq S
  BY <1>4 DEF Cell
<1>6. "u32" \in IntegerType
  BY BytesAssumption DEF IntegerType
<1>7. PICK v \in Nat : v = tx.version /\ v < Modulus("u32")
  <2>1. Modulus("u32") \in Nat
    BY <1>6, Moduli
  <2> QED
    BY <1>1, <2>1
<1>8. PICK w \in Nat : w = Width["u32"]
  BY BytesAssumption
<1>9. PICK version \in Seq(S) : version = u32ToLeBytes(v) /\ Len(version) = w
  BY <1>5, <1>8, NumberCells DEF Octet
<1>10. PICK count \in Seq(S) : count = <<s>> /\ Len(count) = 1
  <2>1. s \in S
    BY <1>3, <1>5
  <2>2. <<s>> \in Seq(S) /\ Len(<<s>>) = 1
    BY <2>1
  <2> QED
    BY <2>2
<1>11. PICK signatures \in Seq(S) : signatures = tx.signatures /\ Len(signatures) = s
  BY <1>1, <1>2, <1>5, SeqWider
<1>12. PICK message : message = serializeSanitizedMessage(tx.message)
  OBVIOUS
<1>13. message \in Seq(S)
  <2>1. \E a, b, c, d, e, f : Six(Cell, a, b, c, d, e, f, message)
    BY <1>1, <1>12, MessageCells, ZenonT(30)
  <2> QED
    BY <1>4, <2>1, SixJoined
<1>14. PICK bytes : bytes = version \o count \o signatures \o message
  OBVIOUS
<1>15. Four(S, version, count, signatures, message, bytes)
  BY <1>13, <1>14, Zenon DEF Four
<1>16. serializeTransaction(tx) = Returns(bytes)
  <2>1. Byte(s) = s
    BY <1>3, BytesAreBytes
  <2>2. ~TooManySigners(tx)
    BY <1>2, WireAssumption DEF TooManySigners
  <2> QED
    BY <1>2, <1>7, <1>9, <1>10, <1>11, <1>12, <1>14, <2>1, <2>2, Zenon DEF serializeTransaction
<1>17. /\ bytes \in Seq(S) /\ Len(bytes) = Len(version) + Len(count) + Len(signatures) + Len(message)
  BY ONLY <1>15, FourJoined
<1>18. PICK all \in Nat : all = Len(message)
  BY <1>13
<1>19. Len(bytes) = w + 1 + s + all
  BY <1>9, <1>10, <1>11, <1>17, <1>18, Zenon
<1>20. Stands(bytes, 0, bytes)
  BY <1>17, StandsItself
<1>21. /\ Stands(bytes, 0, version) /\ Stands(bytes, w, count)
       /\ Stands(bytes, w + 1, signatures) /\ Stands(bytes, w + 1 + s, message)
  <2>1. 0 \in Nat
    OBVIOUS
  <2>2. /\ Stands(bytes, 0, version) /\ Stands(bytes, 0 + Len(version), count)
        /\ Stands(bytes, 0 + Len(version) + Len(count), signatures)
        /\ Stands(bytes, 0 + Len(version) + Len(count) + Len(signatures), message)
    BY ONLY <1>15, <1>20, <2>1, FourParts
  <2>3. 0 + w = w
    OBVIOUS
  <2> QED
    BY <1>9, <1>10, <1>11, <2>2, <2>3, Zenon
<1>22. ReadNumber("u32", bytes, 0) = v
  BY <1>7, <1>9, <1>21, CountRead
<1>23. ByteAt(bytes, w) = s
  BY <1>10, <1>21, StandsOne
<1>24. ReadCount(bytes, w) = s
  BY <1>3, <1>23 DEF ReadCount, Octet
<1>25. Take(bytes, w + 1, s) = tx.signatures
  BY <1>11, <1>21, TakesStanding
<1>26. PICK header \in Nat : header = w + 1 + s
  OBVIOUS
<1>27. MessageReads(bytes, header, tx.message, header + Len(message))
  BY <1>1, <1>12, <1>21, <1>26, MessageRead
<1>28. header + Len(message) = Len(bytes)
  BY <1>18, <1>19, <1>26
<1>29. PICK k \in Nat, hash \in Nat :
          /\ k = Len(tx.message.account_keys)
          /\ ReadNumber("u32", bytes, header + 3) = k
          /\ hash = header + 3 + w + k
          /\ ByteAt(bytes, header) = tx.message.header.num_required_signatures
          /\ ByteAt(bytes, header + 1) = tx.message.header.num_readonly_signed_accounts
          /\ ByteAt(bytes, header + 2) = tx.message.header.num_readonly_unsigned_accounts
          /\ Take(bytes, header + 3 + w, k) = tx.message.account_keys
          /\ ByteAt(bytes, hash) = tx.message.recent_blockhash
          /\ ReadNumber("u32", bytes, hash + 1) = Len(tx.message.instructions)
          /\ ReadEach(SanitizedReader(bytes), hash + 1 + w, Len(tx.message.instructions))
                = [items |-> tx.message.instructions, next |-> Len(bytes)]
  BY <1>8, <1>27, <1>28, Zenon DEF MessageReads
<1>30. PICK body : body = ReadEach(SanitizedReader(bytes), hash + 1 + w, Len(tx.message.instructions))
  OBVIOUS
<1>31. body.items = tx.message.instructions /\ body.next = Len(bytes)
  <2>1. body = [items |-> tx.message.instructions, next |-> Len(bytes)]
    BY <1>29, <1>30, Zenon
  <2> QED
    BY <2>1
<1>32. ReadTransaction(bytes) =
          [value |-> [version |-> v, signatures |-> Take(bytes, w + 1, s),
                      message |->
                         [header |-> [num_required_signatures |-> ByteAt(bytes, header),
                                      num_readonly_signed_accounts |-> ByteAt(bytes, header + 1),
                                      num_readonly_unsigned_accounts |-> ByteAt(bytes, header + 2)],
                          account_keys |-> Take(bytes, header + 3 + w, k),
                          recent_blockhash |-> ByteAt(bytes, hash),
                          instructions |-> body.items]],
           next |-> body.next]
  <2>1. /\ Width["u32"] = w /\ ReadCount(bytes, w) = s /\ w + 1 + s = header
        /\ ReadNumber("u32", bytes, 0) = v /\ ReadNumber("u32", bytes, header + 3) = k
        /\ header + 3 + w + k = hash
    BY <1>8, <1>22, <1>24, <1>26, <1>29, Zenon
  <2>2. ReadEach([at \in Nat |-> ReadSanitizedInstruction(bytes, at)], hash + 1 + w,
                 ReadNumber("u32", bytes, hash + 1)) = body
    BY <1>29, <1>30, Zenon DEF SanitizedReader
  <2> QED
    BY <2>1, <2>2 DEF ReadTransaction
<1>33. tx.message.header = [num_required_signatures |-> tx.message.header.num_required_signatures,
                            num_readonly_signed_accounts |-> tx.message.header.num_readonly_signed_accounts,
                            num_readonly_unsigned_accounts |->
                                tx.message.header.num_readonly_unsigned_accounts]
  BY <1>1 DEF SanitizedMessage, Header
<1>34. tx.message = [header |-> tx.message.header, account_keys |-> tx.message.account_keys,
                     recent_blockhash |-> tx.message.recent_blockhash,
                     instructions |-> tx.message.instructions]
  BY <1>1 DEF SanitizedMessage
<1>35. tx = [version |-> tx.version, signatures |-> tx.signatures, message |-> tx.message]
  BY DEF RuntimeTransaction
<1>36. ReadTransaction(bytes) = [value |-> tx, next |-> Len(bytes)]
  BY <1>7, <1>25, <1>29, <1>31, <1>32, <1>33, <1>34, <1>35, Zenon
<1> QED
  BY <1>4, <1>16, <1>17, <1>36

-----------------------------------------------------------------------------

\* The messages of the former format

LEMMA FlagTells == \A b \in BOOLEAN : Flag(b) \in Octet /\ (Flag(b) = 1) = b
<1>1. 0 \in Octet /\ 1 \in Octet
  <2>1. PICK B \in Nat \ {0} : B = Base /\ B % 2 = 0
    BY BytesAssumption
  <2>2. B # 1
    BY <2>1
  <2> QED
    BY <2>1, <2>2 DEF Octet
<1>2. 0 # 1
  OBVIOUS
<1>3. Flag(TRUE) = 1 /\ Flag(FALSE) = 0
  BY DEF Flag
<1>4. Flag(TRUE) \in Octet /\ (Flag(TRUE) = 1) = TRUE
  BY <1>1, <1>3
<1>5. Flag(FALSE) \in Octet /\ (Flag(FALSE) = 1) = FALSE
  BY <1>1, <1>2, <1>3
<1> QED
  BY <1>4, <1>5, Zenon

LEMMA AccountMetaRead ==
    ASSUME NEW meta \in AccountMeta, NEW S, Octet \subseteq S, Pubkey \subseteq S
    PROVE  /\ serializeAccountMeta(meta) \in Seq(S) /\ Len(serializeAccountMeta(meta)) = 3
           /\ \A data : \A offset \in Nat : Stands(data, offset, serializeAccountMeta(meta)) =>
                 ReadAccountMeta(data, offset) = [value |-> meta, next |-> offset + 3]
<1>1. /\ meta.pubkey \in Pubkey /\ meta.is_signer \in BOOLEAN /\ meta.is_writable \in BOOLEAN
      /\ meta = [pubkey |-> meta.pubkey, is_signer |-> meta.is_signer,
                 is_writable |-> meta.is_writable]
  BY DEF AccountMeta
<1>2. PICK key \in S, x \in S, y \in S :
         key = meta.pubkey /\ x = Flag(meta.is_signer) /\ y = Flag(meta.is_writable)
  BY <1>1, FlagTells
<1>3. PICK cells : cells = serializeAccountMeta(meta)
  OBVIOUS
<1>4. cells = <<key, x, y>>
  BY <1>2, <1>3 DEF serializeAccountMeta
<1>5. cells \in Seq(S) /\ Len(cells) = 3 /\ cells[1] = key /\ cells[2] = x /\ cells[3] = y
  BY <1>4
<1>6. ASSUME NEW data, NEW offset \in Nat, Stands(data, offset, cells)
      PROVE  ReadAccountMeta(data, offset) = [value |-> meta, next |-> offset + 3]
  <2>1. /\ ByteAt(data, offset) = key /\ ByteAt(data, offset + 1) = x
        /\ ByteAt(data, offset + 2) = y
    <3>1. /\ 1 \in 1..Len(cells) /\ 2 \in 1..Len(cells) /\ 3 \in 1..Len(cells)
          /\ offset + 1 - 1 = offset /\ offset + 2 - 1 = offset + 1 /\ offset + 3 - 1 = offset + 2
      BY <1>5
    <3> QED
      BY <1>5, <1>6, <3>1 DEF Stands
  <2>2. (x = 1) = meta.is_signer /\ (y = 1) = meta.is_writable
    BY <1>1, <1>2, FlagTells, Zenon
  <2>3. ReadAccountMeta(data, offset) =
           [value |-> [pubkey |-> key, is_signer |-> x = 1, is_writable |-> y = 1],
            next |-> offset + 3]
    BY <2>1, Zenon DEF ReadAccountMeta
  <2> QED
    BY <1>1, <1>2, <2>2, <2>3, Zenon
<1> QED
  BY <1>3, <1>5, <1>6

AccountParts(list) == [i \in DOMAIN list |-> serializeAccountMeta(list[i])]
AccountReader(data) == [at \in Nat |-> ReadAccountMeta(data, at)]

LEMMA AccountMetasRead ==
    ASSUME NEW list \in Seq(AccountMeta), NEW S, Octet \subseteq S, Pubkey \subseteq S,
           NEW flat, flat = FlattenSeq(AccountParts(list))
    PROVE  /\ flat \in Seq(S)
           /\ \A data : \A offset \in Nat : Stands(data, offset, flat) =>
                 ReadEach(AccountReader(data), offset, Len(list))
                    = [items |-> list, next |-> offset + Len(flat)]
<1>1. PICK n \in Nat : n = Len(list) /\ DOMAIN list = 1..n
  OBVIOUS
<1>2. PICK parts : parts = AccountParts(list)
  OBVIOUS
<1>3. \A i \in 1..n : list[i] \in AccountMeta
  BY <1>1
<1>4. \A i \in 1..n : parts[i] = serializeAccountMeta(list[i])
  BY <1>1, <1>2 DEF AccountParts
<1>5. parts \in [1..n -> Seq(S)]
  <2>1. \A i \in 1..n : serializeAccountMeta(list[i]) \in Seq(S)
    BY <1>3, AccountMetaRead
  <2> QED
    BY <1>1, <1>2, <2>1 DEF AccountParts
<1>6. flat \in Seq(S)
  <2>1. LaidOut(S, n, parts, flat)
    BY <1>2, <1>5, Flattened
  <2> QED
    BY <2>1 DEF LaidOut
<1>7. ASSUME NEW data, NEW offset \in Nat, Stands(data, offset, flat)
      PROVE  ReadEach(AccountReader(data), offset, Len(list))
                = [items |-> list, next |-> offset + Len(flat)]
  <2>1. PICK reader : reader = AccountReader(data)
    OBVIOUS
  <2>2. ReadsParts(reader, data, list, parts, n)
    <3>1. ASSUME NEW i \in 1..n, NEW at \in Nat, Stands(data, at, parts[i])
          PROVE  reader[at] = [value |-> list[i], next |-> at + Len(parts[i])]
      <4>1. PICK meta \in AccountMeta : meta = list[i]
        BY <1>3
      <4>2. parts[i] = serializeAccountMeta(meta)
        BY <1>4, <4>1
      <4>3. Len(serializeAccountMeta(meta)) = 3
            /\ ReadAccountMeta(data, at) = [value |-> meta, next |-> at + 3]
        BY <3>1, <4>2, AccountMetaRead
      <4>4. reader[at] = ReadAccountMeta(data, at)
        BY <2>1 DEF AccountReader
      <4> QED
        BY <4>1, <4>2, <4>3, <4>4, Zenon
    <3> QED
      BY <3>1 DEF ReadsParts
  <2>3. Written(S, AccountMeta, list, n, parts, flat)
    BY <1>1, <1>2, <1>5 DEF Written
  <2>4. offset \in Nat /\ Stands(data, offset, flat)
    BY <1>7
  <2>5. ReadEach(reader, offset, n) = [items |-> list, next |-> offset + Len(flat)]
    BY ONLY <2>2, <2>3, <2>4, ListRead
  <2> QED
    BY <1>1, <2>1, <2>5
<1> QED
  BY <1>6, <1>7

LEMMA LongCountRead ==
    ASSUME NEW n \in Nat, n < Modulus("u64"), NEW data, NEW offset \in Nat,
           Stands(data, offset, u64ToLeBytes(n))
    PROVE  ReadNumber("u64", data, offset) = n
<1>1. "u64" \in IntegerType
  BY BytesAssumption DEF IntegerType
<1>2. Stands(data, offset, unsignedLE(n, Width["u64"]))
  BY WordsAreBytes
<1>3. ReadNumber("u64", data, offset) = n % Modulus("u64")
  BY <1>1, <1>2, NumberStanding
<1>4. PICK m \in Nat \ {0} : m = Modulus("u64")
  BY <1>1, Moduli
<1> QED
  BY <1>3, <1>4

\* An instruction and a message that the former format can tell of: each count
\* of accounts, of signers and of instructions is a byte.
CountedInstruction == {ix \in FormerInstruction : Len(ix.accounts) < Base}

LEMMA ByteRead ==
    ASSUME NEW n \in Octet, NEW data, NEW offset \in Nat, ByteAt(data, offset) = n
    PROVE  ReadCount(data, offset) = n
BY DEF ReadCount, Octet

LEMMA FormerInstructionCells ==
    ASSUME NEW ix \in CountedInstruction, NEW S, Octet \subseteq S, Pubkey \subseteq S
    PROVE  \E head, flat, length, bytes :
              /\ Len(head) = 2 /\ head[1] = ix.program_id /\ head[2] = Len(ix.accounts)
              /\ flat = FlattenSeq(AccountParts(ix.accounts))
              /\ length = u64ToLeBytes(Len(ix.data)) /\ Len(length) = Width["u64"]
              /\ bytes = ix.data
              /\ Four(S, head, flat, length, bytes, serializeInstruction(ix))
<1>1. /\ ix.program_id \in Pubkey /\ ix.accounts \in Seq(AccountMeta) /\ ix.data \in Seq(Octet)
      /\ Len(ix.accounts) < Base
  BY DEF CountedInstruction, FormerInstruction
<1>2. Len(ix.accounts) \in Nat /\ Len(ix.data) \in Int
  BY <1>1
<1>3. PICK n \in Octet : n = Len(ix.accounts)
  BY <1>1, <1>2, BytesAssumption DEF Octet
<1>4. PICK head : /\ head = <<ix.program_id, Byte(Len(ix.accounts))>> /\ head \in Seq(S)
                  /\ Len(head) = 2 /\ head[1] = ix.program_id /\ head[2] = Len(ix.accounts)
  <2>1. Byte(n) = n
    BY BytesAreBytes
  <2>2. PICK key \in S, m \in S : key = ix.program_id /\ m = n
    BY <1>1
  <2>3. /\ <<key, m>> \in Seq(S) /\ Len(<<key, m>>) = 2
        /\ <<key, m>>[1] = key /\ <<key, m>>[2] = m
    OBVIOUS
  <2> QED
    BY <1>3, <2>1, <2>2, <2>3
<1>5. PICK flat \in Seq(S) : flat = FlattenSeq(AccountParts(ix.accounts))
  BY <1>1, AccountMetasRead
<1>6. PICK length \in Seq(S) : length = u64ToLeBytes(Len(ix.data)) /\ Len(length) = Width["u64"]
  BY <1>2, NumberCells DEF Octet
<1>7. PICK bytes \in Seq(S) : bytes = ix.data
  BY <1>1, SeqWider
<1>8. serializeInstruction(ix) = head \o flat \o length \o bytes
  BY <1>4, <1>5, <1>6, <1>7, Zenon DEF serializeInstruction, AccountParts
<1>9. Four(S, head, flat, length, bytes, serializeInstruction(ix))
  BY <1>4, <1>8, Zenon DEF Four
<1> QED
  BY <1>4, <1>5, <1>6, <1>7, <1>9, Zenon

LEMMA FormerInstructionRead ==
    ASSUME NEW ix \in CountedInstruction, NEW S, Octet \subseteq S, Pubkey \subseteq S,
           NEW cells, cells = serializeInstruction(ix),
           NEW data, NEW offset \in Nat, Stands(data, offset, cells)
    PROVE  ReadInstruction(data, offset) = [value |-> ix, next |-> offset + Len(cells)]
<1>1. PICK head, flat, length, bytes :
              /\ Len(head) = 2 /\ head[1] = ix.program_id /\ head[2] = Len(ix.accounts)
              /\ flat = FlattenSeq(AccountParts(ix.accounts))
              /\ length = u64ToLeBytes(Len(ix.data)) /\ Len(length) = Width["u64"]
              /\ bytes = ix.data
              /\ Four(S, head, flat, length, bytes, cells)
  BY FormerInstructionCells, Zenon
<1>2. /\ head \in Seq(S) /\ flat \in Seq(S) /\ length \in Seq(S) /\ bytes \in Seq(S)
  BY <1>1 DEF Four
<1>3. PICK w \in Nat, f \in Nat, m \in Nat :
         w = Width["u64"] /\ f = Len(flat) /\ m = Len(bytes)
  BY <1>2, BytesAssumption
<1>4. Len(cells) = 2 + f + w + m
  <2>1. Four(S, head, flat, length, bytes, cells)
    BY <1>1
  <2>2. Len(cells) = Len(head) + Len(flat) + Len(length) + Len(bytes)
    BY ONLY <2>1, FourJoined
  <2> QED
    BY <1>1, <1>3, <2>2, Zenon
<1>5. /\ Stands(data, offset, head) /\ Stands(data, offset + 2, flat)
      /\ Stands(data, offset + 2 + f, length) /\ Stands(data, offset + 2 + f + w, bytes)
  <2>1. Four(S, head, flat, length, bytes, cells) /\ offset \in Nat /\ Stands(data, offset, cells)
    BY <1>1
  <2>2. /\ Stands(data, offset, head) /\ Stands(data, offset + Len(head), flat)
        /\ Stands(data, offset + Len(head) + Len(flat), length)
        /\ Stands(data, offset + Len(head) + Len(flat) + Len(length), bytes)
    BY ONLY <2>1, FourParts
  <2> QED
    BY <1>1, <1>3, <2>2, Zenon
<1>6. /\ ix.accounts \in Seq(AccountMeta) /\ ix.data \in Seq(Octet)
      /\ Len(ix.accounts) < Base /\ Len(ix.data) < Modulus("u64")
      /\ ix = [program_id |-> ix.program_id, accounts |-> ix.accounts, data |-> ix.data]
  BY DEF CountedInstruction, FormerInstruction
<1>7. PICK k \in Octet : k = Len(ix.accounts)
  <2>1. PICK n \in Nat : n = Len(ix.accounts) /\ n < Base
    BY <1>6
  <2>2. n \in Octet
    BY <2>1, BytesAssumption DEF Octet
  <2> QED
    BY <2>1, <2>2
<1>8. ByteAt(data, offset) = ix.program_id /\ ByteAt(data, offset + 1) = k
  <2>1. /\ 1 \in 1..Len(head) /\ 2 \in 1..Len(head)
        /\ offset + 1 - 1 = offset /\ offset + 2 - 1 = offset + 1
    BY <1>1
  <2> QED
    BY <1>1, <1>5, <1>7, <2>1 DEF Stands
<1>9. ReadCount(data, offset + 1) = k
  <2>1. offset + 1 \in Nat
    OBVIOUS
  <2> QED
    BY <1>8, <2>1, ByteRead
<1>10. ReadEach(AccountReader(data), offset + 2, k)
          = [items |-> ix.accounts, next |-> offset + 2 + f]
  <2>1. PICK at \in Nat : at = offset + 2
    OBVIOUS
  <2>2. Stands(data, at, flat)
    BY <1>5, <2>1
  <2>3. ReadEach(AccountReader(data), at, Len(ix.accounts))
           = [items |-> ix.accounts, next |-> at + Len(flat)]
    BY <1>1, <1>6, <2>2, AccountMetasRead
  <2> QED
    BY <1>3, <1>7, <2>1, <2>3
<1>11. PICK start \in Nat : start = offset + 2 + f
  OBVIOUS
<1>12. ReadNumber("u64", data, start) = m
  <2>1. m = Len(ix.data) /\ m < Modulus("u64") /\ u64ToLeBytes(m) = length
    BY <1>1, <1>3, <1>6
  <2>2. Stands(data, start, u64ToLeBytes(m))
    BY <1>5, <1>11, <2>1
  <2> QED
    BY <2>1, <2>2, LongCountRead
<1>13. Take(data, start + w, m) = ix.data
  <2>1. Stands(data, start + w, bytes) /\ start + w \in Nat
    BY <1>5, <1>11
  <2> QED
    BY <1>1, <1>2, <1>3, <2>1, TakesStanding
<1>14. ReadInstruction(data, offset) =
          [value |-> [program_id |-> ByteAt(data, offset), accounts |-> ix.accounts,
                      data |-> Take(data, start + w, m)],
           next |-> start + w + m]
  <2>1. PICK accounts : accounts = [items |-> ix.accounts, next |-> start]
    OBVIOUS
  <2>2. accounts.items = ix.accounts /\ accounts.next = start
    BY <2>1
  <2>3. ReadEach([at \in Nat |-> ReadAccountMeta(data, at)], offset + 2,
                 ReadCount(data, offset + 1)) = accounts
    BY <1>9, <1>10, <1>11, <2>1, Zenon DEF AccountReader
  <2> QED
    BY <1>3, <1>12, <2>2, <2>3, Zenon DEF ReadInstruction
<1>15. start + w + m = offset + Len(cells)
  BY <1>4, <1>11
<1> QED
  BY <1>6, <1>8, <1>13, <1>14, <1>15, Zenon

FormerParts(list) == [i \in DOMAIN list |-> serializeInstruction(list[i])]
FormerReader(data) == [at \in Nat |-> ReadInstruction(data, at)]

LEMMA FormerInstructionsRead ==
    ASSUME NEW list \in Seq(CountedInstruction), NEW S, Octet \subseteq S, Pubkey \subseteq S,
           NEW flat, flat = FlattenSeq(FormerParts(list))
    PROVE  /\ flat \in Seq(S)
           /\ \A data : \A offset \in Nat : Stands(data, offset, flat) =>
                 ReadEach(FormerReader(data), offset, Len(list))
                    = [items |-> list, next |-> offset + Len(flat)]
<1>1. PICK n \in Nat : n = Len(list) /\ DOMAIN list = 1..n
  OBVIOUS
<1>2. PICK parts : parts = FormerParts(list)
  OBVIOUS
<1>3. \A i \in 1..n : list[i] \in CountedInstruction
  BY <1>1
<1>4. \A i \in 1..n : parts[i] = serializeInstruction(list[i])
  BY <1>1, <1>2 DEF FormerParts
<1>5. parts \in [1..n -> Seq(S)]
  <2>1. ASSUME NEW ix \in CountedInstruction PROVE serializeInstruction(ix) \in Seq(S)
    <3>1. \E a, b, c, d : Four(S, a, b, c, d, serializeInstruction(ix))
      BY FormerInstructionCells, Zenon
    <3> QED
      BY <3>1, FourJoined
  <2>2. \A i \in 1..n : serializeInstruction(list[i]) \in Seq(S)
    BY <1>3, <2>1
  <2> QED
    BY <1>1, <1>2, <2>2 DEF FormerParts
<1>6. flat \in Seq(S)
  <2>1. LaidOut(S, n, parts, flat)
    BY <1>2, <1>5, Flattened
  <2> QED
    BY <2>1 DEF LaidOut
<1>7. ASSUME NEW data, NEW offset \in Nat, Stands(data, offset, flat)
      PROVE  ReadEach(FormerReader(data), offset, Len(list))
                = [items |-> list, next |-> offset + Len(flat)]
  <2>1. PICK reader : reader = FormerReader(data)
    OBVIOUS
  <2>2. ReadsParts(reader, data, list, parts, n)
    <3>1. ASSUME NEW i \in 1..n, NEW at \in Nat, Stands(data, at, parts[i])
          PROVE  reader[at] = [value |-> list[i], next |-> at + Len(parts[i])]
      <4>1. PICK ix \in CountedInstruction : ix = list[i]
        BY <1>3
      <4>2. PICK cells : cells = parts[i] /\ cells = serializeInstruction(ix)
        BY <1>4, <4>1
      <4>3. ReadInstruction(data, at) = [value |-> ix, next |-> at + Len(cells)]
        BY <3>1, <4>2, FormerInstructionRead
      <4>4. reader[at] = ReadInstruction(data, at)
        BY <2>1 DEF FormerReader
      <4> QED
        BY <4>1, <4>2, <4>3, <4>4, Zenon
    <3> QED
      BY <3>1 DEF ReadsParts
  <2>3. Written(S, CountedInstruction, list, n, parts, flat)
    BY <1>1, <1>2, <1>5 DEF Written
  <2>4. offset \in Nat /\ Stands(data, offset, flat)
    BY <1>7
  <2>5. ReadEach(reader, offset, n) = [items |-> list, next |-> offset + Len(flat)]
    BY ONLY <2>2, <2>3, <2>4, ListRead
  <2> QED
    BY <1>1, <2>1, <2>5
<1> QED
  BY <1>6, <1>7

LEMMA OctetOf ==
    ASSUME NEW n \in Nat, n < Base PROVE n \in Octet
BY BytesAssumption DEF Octet

\* A message whose counts fit is read back.
LEMMA FormerMessageRead ==
    ASSUME NEW m, m = [signers |-> m.signers, instructions |-> m.instructions],
           m.signers \in Seq(Pubkey), m.instructions \in Seq(CountedInstruction),
           Len(m.signers) < Base, Len(m.instructions) < Base
    PROVE  ReadMessage(serializeMessage(m)) = [value |-> m, next |-> Len(serializeMessage(m))]
<1>1. PICK S : S = Octet \union Pubkey
  OBVIOUS
<1>2. Octet \subseteq S /\ Pubkey \subseteq S
  BY <1>1
<1>3. PICK k \in Octet, n \in Octet : k = Len(m.signers) /\ n = Len(m.instructions)
  <2>1. Len(m.signers) \in Nat /\ Len(m.instructions) \in Nat
    OBVIOUS
  <2> QED
    BY <2>1, OctetOf
<1>4. k \in Nat /\ n \in Nat
  BY <1>3
<1>5. Byte(k) = k /\ Byte(n) = n
  BY BytesAreBytes
<1>6. PICK a \in Seq(S), c \in Seq(S) :
         a = <<k>> /\ Len(a) = 1 /\ a[1] = k /\ c = <<n>> /\ Len(c) = 1 /\ c[1] = n
  <2>1. k \in S /\ n \in S
    BY <1>2
  <2>2. \A x \in S : <<x>> \in Seq(S) /\ Len(<<x>>) = 1 /\ <<x>>[1] = x
    OBVIOUS
  <2> QED
    BY <2>1, <2>2, Zenon
<1>7. PICK signers \in Seq(S) : signers = m.signers
  BY <1>2, SeqWider
<1>8. PICK flat \in Seq(S) : flat = FlattenSeq(FormerParts(m.instructions))
  BY <1>2, FormerInstructionsRead
<1>9. PICK cells : cells = serializeMessage(m)
  OBVIOUS
<1>10. cells = a \o signers \o c \o flat
  BY <1>3, <1>5, <1>6, <1>7, <1>8, <1>9, Zenon DEF serializeMessage, FormerParts
<1>11. Four(S, a, signers, c, flat, cells)
  BY <1>6, <1>7, <1>8, <1>10 DEF Four
<1>12. cells \in Seq(S) /\ Len(cells) = 1 + k + 1 + Len(flat)
  <2>1. cells \in Seq(S) /\ Len(cells) = Len(a) + Len(signers) + Len(c) + Len(flat)
    BY ONLY <1>11, FourJoined
  <2> QED
    BY <1>3, <1>6, <1>7, <2>1
<1>13. /\ Stands(cells, 0, a) /\ Stands(cells, 1, signers) /\ Stands(cells, k + 1, c)
       /\ Stands(cells, k + 2, flat)
  <2>1. Stands(cells, 0, cells) /\ 0 \in Nat
    BY <1>12, StandsItself
  <2>2. /\ Stands(cells, 0, a) /\ Stands(cells, 0 + Len(a), signers)
        /\ Stands(cells, 0 + Len(a) + Len(signers), c)
        /\ Stands(cells, 0 + Len(a) + Len(signers) + Len(c), flat)
    BY ONLY <1>11, <2>1, FourParts
  <2>3. /\ 0 + Len(a) = 1 /\ 0 + Len(a) + Len(signers) = k + 1
        /\ 0 + Len(a) + Len(signers) + Len(c) = k + 2
    BY <1>3, <1>4, <1>6, <1>7
  <2> QED
    BY <2>2, <2>3, Zenon
<1>14. ReadCount(cells, 0) = k /\ ReadCount(cells, k + 1) = n
  <2>1. k + 1 \in Nat /\ 0 \in Nat
    BY <1>4
  <2>2. ByteAt(cells, 0) = k /\ ByteAt(cells, k + 1) = n
    BY <1>6, <1>13, <2>1, StandsOne
  <2> QED
    BY <2>1, <2>2, ByteRead
<1>15. Take(cells, 1, k) = m.signers
  BY <1>3, <1>7, <1>13, TakesStanding
<1>16. ReadEach(FormerReader(cells), k + 2, n) = [items |-> m.instructions, next |-> Len(cells)]
  <2>1. k + 2 \in Nat /\ k + 2 + Len(flat) = Len(cells)
    BY <1>4, <1>8, <1>12
  <2>2. ReadEach(FormerReader(cells), k + 2, Len(m.instructions))
           = [items |-> m.instructions, next |-> k + 2 + Len(flat)]
    BY <1>2, <1>8, <1>13, <2>1, FormerInstructionsRead
  <2> QED
    BY <1>3, <2>1, <2>2
<1>17. ReadMessage(cells) = [value |-> [signers |-> m.signers, instructions |-> m.instructions],
                             next |-> Len(cells)]
  <2>1. PICK body : body = [items |-> m.instructions, next |-> Len(cells)]
    OBVIOUS
  <2>2. body.items = m.instructions /\ body.next = Len(cells)
    BY <2>1
  <2>3. ReadEach([at \in Nat |-> ReadInstruction(cells, at)], k + 2, n) = body
    BY <1>16, <2>1, Zenon DEF FormerReader
  <2> QED
    BY <1>14, <1>15, <2>2, <2>3, Zenon DEF ReadMessage
<1> QED
  BY <1>9, <1>17, Zenon

-----------------------------------------------------------------------------

\* What a reader makes of any bytes: never more items than a count can tell.

LEMMA EachTold ==
    ASSUME NEW n \in Nat, NEW offset \in Nat, NEW V, NEW reader,
           \A at \in Nat : reader[at].value \in V /\ reader[at].next \in Nat
    PROVE  /\ ReadEach(reader, offset, n).items \in Seq(V)
           /\ Len(ReadEach(reader, offset, n).items) = n
           /\ ReadEach(reader, offset, n).next \in Nat
<1> DEFINE A == [items : Seq(V), next : Nat]
           none == [items |-> <<>>, next |-> offset]
           told(p) == [items |-> Append(p.items, reader[p.next].value),
                       next |-> reader[p.next].next]
           step == [p \in Nat \X A |-> told(p[2])]
           read == CHOOSE g : ReadsOn(g, reader, offset, n)
<1>1. none \in A
  OBVIOUS
<1>2. \A p \in A : told(p) \in A
  <2> TAKE p \in A
  <2>1. PICK s \in Seq(V), at \in Nat : s = p.items /\ at = p.next
    OBVIOUS
  <2>2. PICK v \in V, next \in Nat : v = reader[at].value /\ next = reader[at].next
    OBVIOUS
  <2>3. Append(s, v) \in Seq(V)
    OBVIOUS
  <2>4. told(p) = [items |-> Append(s, v), next |-> next]
    BY <2>1, <2>2
  <2> QED
    BY <2>3, <2>4
<1>3. ReadEach(reader, offset, n) = read[n]
  BY DEF ReadEach, ReadsOn
<1>4. \E g : ReadsOn(g, reader, offset, n)
  <2> HIDE DEF A, none, told
  <2>1. StepOn(A, step) /\ \A i \in Nat, p \in A : step[<<i, p>>] = told(p)
    BY <1>2 DEF StepOn
  <2> HIDE DEF step
  <2>2. PICK f : Recurses(f, A, none, step)
    BY <1>1, <2>1, Recursion
  <2>3. f \in [Nat -> A] /\ f[0] = none /\ \A i \in Nat : f[i + 1] = told(f[i])
    BY <2>1, <2>2 DEF Recurses
  <2>4. PICK g : g = [i \in 0..n |-> f[i]]
    OBVIOUS
  <2>5. ASSUME NEW i \in 0..n PROVE g[i] = IF i = 0 THEN none ELSE told(g[i - 1])
    <3>1. CASE i = 0
      BY <2>3, <2>4, <3>1
    <3>2. CASE i # 0
      <4>1. i - 1 \in Nat /\ (i - 1) + 1 = i /\ i - 1 \in 0..n
        BY <3>2
      <4>2. f[(i - 1) + 1] = told(f[i - 1])
        BY <2>3, <4>1
      <4>3. g[i] = f[i] /\ g[i - 1] = f[i - 1]
        BY <2>4, <4>1
      <4> QED
        BY <3>2, <4>1, <4>2, <4>3
    <3> QED
      BY <3>1, <3>2
  <2>6. g = [i \in 0..n |-> g[i]]
    BY <2>4
  <2>7. g = [i \in 0..n |-> IF i = 0 THEN none ELSE told(g[i - 1])]
    BY <2>5, <2>6, Zenon
  <2> QED
    BY <2>7, Zenon DEF ReadsOn, none, told
<1>5. ReadsOn(read, reader, offset, n)
  BY <1>4
<1> HIDE DEF read
<1>6. /\ read[0] = none
      /\ \A i \in 1..n : read[i] = told(read[i - 1])
  <2>1. read = [i \in 0..n |-> IF i = 0 THEN none ELSE told(read[i - 1])]
    BY <1>5, Zenon DEF ReadsOn
  <2> HIDE DEF told, none
  <2> QED
    BY <2>1
<1> DEFINE Good == {i \in 0..n : read[i] \in A /\ Len(read[i].items) = i}
<1>7. 0 \in Good
  <2>1. none.items = <<>> /\ Len(<<>>) = 0
    OBVIOUS
  <2> HIDE DEF none, A
  <2> QED
    BY <1>1, <1>6, <2>1
<1>8. ASSUME NEW i \in 0..(n - 1), i \in Good PROVE i + 1 \in Good
  <2>1. i + 1 \in 1..n /\ (i + 1) - 1 = i /\ i + 1 \in 0..n
    OBVIOUS
  <2>2. read[i + 1] = told(read[i])
    BY <1>6, <2>1
  <2>3. PICK p \in A : p = read[i] /\ Len(p.items) = i
    BY <1>8
  <2>4. Len(told(p).items) = i + 1
    <3>1. p.items \in Seq(V)
      OBVIOUS
    <3>2. told(p).items = Append(p.items, reader[p.next].value)
      OBVIOUS
    <3> HIDE DEF told
    <3> QED
      BY <2>3, <3>1, <3>2
  <2>5. told(p) \in A
    BY <1>2
  <2> QED
    BY <2>1, <2>2, <2>3, <2>4, <2>5
<1>9. 0..n \subseteq Good
  <2> HIDE DEF Good
  <2> QED
    BY <1>7, <1>8, InductionUpTo
<1> QED
  BY <1>3, <1>9

LEMMA NumberIsNatural ==
    ASSUME NEW t \in IntegerType, NEW data, NEW offset
    PROVE  ReadNumber(t, data, offset) \in Nat
<1>1. PICK width \in Nat : width = Width[t]
  BY BytesAssumption DEF IntegerType
<1>2. PICK cells : cells = Take(data, offset, width)
  OBVIOUS
<1>3. DOMAIN cells = 1..width
  BY <1>2 DEF Take
<1>4. ASSUME \A i \in DOMAIN cells : cells[i] \in 0..(Base - 1)
      PROVE  unsignedAt(cells, 0, width) \in Nat
  <2>1. PICK B \in Nat : B = Base
    BY BytesAssumption
  <2>2. \A i \in 0..(width - 1) : ByteAt(cells, 0 + i) \in Nat
    <3> TAKE i \in 0..(width - 1)
    <3>1. i + 1 \in DOMAIN cells /\ (0 + i) + 1 = i + 1
      BY <1>3
    <3>2. ByteAt(cells, 0 + i) = cells[i + 1]
      BY <3>1 DEF ByteAt
    <3> QED
      BY <1>4, <2>1, <3>1, <3>2
  <2>3. PICK last : Read(last, cells, 0, width)
    <3>1. 0 \in Nat /\ \A i \in 0..(width - 1) : ByteAt(cells, 0 + i) \in Int
      BY <2>2
    <3> QED
      BY <3>1, UnsignedSteps, Zenon
  <2> DEFINE Good == {i \in 0..width : last[i] \in Nat}
  <2>4. 0 \in Good
    BY <2>3 DEF Read
  <2>5. ASSUME NEW i \in 0..(width - 1), i \in Good PROVE i + 1 \in Good
    <3>1. PICK j \in 0..(width - 1) : 0 + width - (i + 1) = 0 + j
      <4>1. width - (i + 1) \in 0..(width - 1)
        OBVIOUS
      <4> QED
        BY <4>1
    <3>2. ByteAt(cells, 0 + width - (i + 1)) \in Nat
      BY <2>2, <3>1
    <3>3. last[i + 1] = last[i] * B + ByteAt(cells, 0 + width - (i + 1))
      BY <2>1, <2>3 DEF Read
    <3>4. PICK x \in Nat, y \in Nat : x = last[i] /\ y = ByteAt(cells, 0 + width - (i + 1))
      BY <2>5, <3>2
    <3>5. x * B + y \in Nat
      OBVIOUS
    <3> QED
      BY <3>3, <3>4, <3>5
  <2>6. 0..width \subseteq Good
    <3> HIDE DEF Good
    <3> QED
      BY <2>4, <2>5, InductionUpTo
  <2> QED
    BY <2>3, <2>6 DEF Read
<1> QED
  BY <1>1, <1>2, <1>4 DEF ReadNumber

\* What is read of an instruction has fewer accounts than a byte has values.
LEMMA FormerInstructionTold ==
    ASSUME NEW data, NEW offset \in Nat
    PROVE  /\ ReadInstruction(data, offset).next \in Nat
           /\ Len(ReadInstruction(data, offset).value.accounts) \in 0..(Base - 1)
<1>1. PICK n : n = ReadCount(data, offset + 1)
  OBVIOUS
<1>2. n \in Nat /\ n \in 0..(Base - 1)
  <2>1. 0 \in 0..(Base - 1)
    BY BytesAssumption
  <2> QED
    BY <1>1, <2>1 DEF ReadCount
<1>3. PICK at \in Nat : at = offset + 2
  OBVIOUS
<1>4. PICK reader : reader = AccountReader(data)
  OBVIOUS
<1>5. PICK V : V = {reader[i].value : i \in Nat}
  OBVIOUS
<1>6. \A i \in Nat : reader[i].value \in V /\ reader[i].next \in Nat
  <2> TAKE i \in Nat
  <2>1. reader[i] = ReadAccountMeta(data, i)
    BY <1>4 DEF AccountReader
  <2>2. ReadAccountMeta(data, i).next = i + 3
    BY DEF ReadAccountMeta
  <2> QED
    BY <1>5, <2>1, <2>2
<1>7. PICK accounts : accounts = ReadEach(reader, at, n)
  OBVIOUS
<1>8. accounts.next \in Nat /\ Len(accounts.items) = n
  BY <1>2, <1>6, <1>7, EachTold
<1>9. PICK w \in Nat, m \in Nat : w = Width["u64"] /\ m = ReadNumber("u64", data, accounts.next)
  <2>1. "u64" \in IntegerType /\ Width["u64"] \in Nat
    BY BytesAssumption DEF IntegerType
  <2> QED
    BY <2>1, NumberIsNatural
<1>10. ReadEach([i \in Nat |-> ReadAccountMeta(data, i)], offset + 2, ReadCount(data, offset + 1))
          = accounts
  BY <1>1, <1>3, <1>4, <1>7 DEF AccountReader
<1>11. PICK key, bytes : ReadInstruction(data, offset) =
          [value |-> [program_id |-> key, accounts |-> accounts.items, data |-> bytes],
           next |-> accounts.next + w + m]
  BY <1>9, <1>10, Zenon DEF ReadInstruction
<1>12. accounts.next + w + m \in Nat
  BY <1>8, <1>9
<1>13. /\ ReadInstruction(data, offset).next = accounts.next + w + m
       /\ ReadInstruction(data, offset).value.accounts = accounts.items
  BY <1>11
<1> QED
  BY <1>2, <1>8, <1>12, <1>13

LEMMA FormerMessageTold ==
    ASSUME NEW data, NEW m, ReadMessage(data).value = m
    PROVE  /\ Len(m.signers) \in 0..(Base - 1) /\ Len(m.instructions) \in 0..(Base - 1)
           /\ \A i \in DOMAIN m.instructions : Len(m.instructions[i].accounts) \in 0..(Base - 1)
<1>1. PICK k : k = ReadCount(data, 0)
  OBVIOUS
<1>2. PICK n : n = ReadCount(data, k + 1)
  OBVIOUS
<1>3. k \in Nat /\ k \in 0..(Base - 1) /\ n \in Nat /\ n \in 0..(Base - 1)
  <2>1. 0 \in 0..(Base - 1)
    BY BytesAssumption
  <2> QED
    BY <1>1, <1>2, <2>1 DEF ReadCount
<1>4. PICK reader : reader = FormerReader(data)
  OBVIOUS
<1>5. PICK V : V = {reader[i].value : i \in Nat}
  OBVIOUS
<1>6. \A i \in Nat : reader[i] = ReadInstruction(data, i)
  BY <1>4 DEF FormerReader
<1>7. \A i \in Nat : reader[i].value \in V /\ reader[i].next \in Nat
  BY <1>5, <1>6, FormerInstructionTold
<1>8. PICK at \in Nat : at = k + 2
  BY <1>3
<1>9. PICK body : body = ReadEach(reader, at, n)
  OBVIOUS
<1>10. body.items \in Seq(V) /\ Len(body.items) = n
  BY <1>3, <1>7, <1>9, EachTold
<1>11. PICK signers : signers = Take(data, 1, k)
  OBVIOUS
<1>12. ReadMessage(data) = [value |-> [signers |-> signers, instructions |-> body.items],
                            next |-> body.next]
  BY <1>1, <1>2, <1>4, <1>8, <1>9, <1>11 DEF ReadMessage, FormerReader
<1>13. m.signers = signers /\ m.instructions = body.items
  BY <1>12
<1>14. Len(signers) = k
  BY <1>3, <1>11 DEF Take
<1>15. ASSUME NEW i \in DOMAIN body.items PROVE Len(body.items[i].accounts) \in 0..(Base - 1)
  <2>1. body.items[i] \in V
    BY <1>10
  <2>2. PICK p \in Nat : body.items[i] = ReadInstruction(data, p).value
    BY <1>5, <1>6, <2>1
  <2> QED
    BY <2>2, FormerInstructionTold
<1> QED
  BY <1>3, <1>10, <1>13, <1>14, <1>15

-----------------------------------------------------------------------------

\* How many bytes some cells are

LEMMA SizeOfCells ==
    /\ \A cell : SizeOf(cell) \in Nat
    /\ \A cell \in Pubkey : SizeOf(cell) = PubkeySize
    /\ \A cell \in Octet : SizeOf(cell) = 1
<1>1. ASSUME NEW cell
      PROVE  /\ cell \in Pubkey => cell \notin Signature /\ cell \notin Blockhash
             /\ cell \in Signature => cell \notin Blockhash
             /\ cell \in Octet => cell \notin Pubkey /\ cell \notin Signature /\ cell \notin Blockhash
  BY WireAssumption DEF Octet
<1>2. PubkeySize \in Nat /\ SignatureSize \in Nat /\ BlockhashSize \in Nat
  BY WireAssumption
<1>3. ASSUME NEW cell \in Pubkey PROVE SizeOf(cell) = PubkeySize
  BY <1>1 DEF SizeOf
<1>4. ASSUME NEW cell \in Signature PROVE SizeOf(cell) = SignatureSize
  BY <1>1 DEF SizeOf
<1>5. ASSUME NEW cell \in Blockhash PROVE SizeOf(cell) = BlockhashSize
  BY <1>1 DEF SizeOf
<1>6. ASSUME NEW cell, cell \notin Pubkey, cell \notin Signature, cell \notin Blockhash
      PROVE  SizeOf(cell) = 1
  BY <1>6 DEF SizeOf
<1>7. ASSUME NEW cell \in Octet PROVE SizeOf(cell) = 1
  BY <1>1, <1>6
<1>8. ASSUME NEW cell PROVE SizeOf(cell) \in Nat
  BY <1>2, <1>3, <1>4, <1>5, <1>6, 1 \in Nat
<1> QED
  BY <1>3, <1>7, <1>8

\* What Size() has counted after each cell.
Sums(f, s) ==
    /\ f \in [0..Len(s) -> Nat] /\ f[0] = 0 /\ Size(s) = f[Len(s)]
    /\ \A i \in 1..Len(s) : f[i] = f[i - 1] + SizeOf(s[i])

LEMMA SizeSums == ASSUME NEW S, NEW s \in Seq(S) PROVE \E f : Sums(f, s)
<1> DEFINE Solves(g) ==
               g = [i \in 0..Len(s) |-> IF i = 0 THEN 0 ELSE g[i - 1] + SizeOf(s[i])]
           upTo == CHOOSE g : Solves(g)
<1>1. PICK n \in Nat : n = Len(s)
  OBVIOUS
<1>2. PICK amount \in [Nat -> Nat] : \A i \in 1..n : amount[i - 1] = SizeOf(s[i])
  <2> DEFINE more == [i \in Nat |-> SizeOf(s[i + 1])]
  <2>1. more \in [Nat -> Nat]
    BY SizeOfCells
  <2>2. \A i \in 1..n : i - 1 \in Nat /\ (i - 1) + 1 = i
    OBVIOUS
  <2>3. \A i \in 1..n : more[i - 1] = SizeOf(s[i])
    BY <2>2
  <2> HIDE DEF more
  <2> QED
    BY <2>1, <2>3
<1>3. Size(s) = upTo[Len(s)]
  BY DEF Size
<1>4. PICK step : step = [p \in Nat \X Nat |-> p[2] + amount[p[1]]]
  OBVIOUS
<1>5. step \in [Nat \X Nat -> Nat] /\ \A i \in Nat, m \in Nat : step[<<i, m>>] = m + amount[i]
  <2>1. ASSUME NEW p \in Nat \X Nat PROVE p[2] + amount[p[1]] \in Nat
    <3>1. PICK i \in Nat, m \in Nat : p[1] = i /\ p[2] = m
      OBVIOUS
    <3>2. PICK k \in Nat : k = amount[i]
      OBVIOUS
    <3>3. m + k \in Nat
      OBVIOUS
    <3> QED
      BY <3>1, <3>2, <3>3, Zenon
  <2>2. step \in [Nat \X Nat -> Nat]
    BY <1>4, <2>1, Zenon
  <2>3. ASSUME NEW i \in Nat, NEW m \in Nat PROVE step[<<i, m>>] = m + amount[i]
    BY <1>4
  <2> QED
    BY <2>2, <2>3
<1>6. PICK f : Recurses(f, Nat, 0, step)
  BY <1>5, 0 \in Nat, Recursion DEF StepOn
<1>7. f \in [Nat -> Nat] /\ f[0] = 0
  BY <1>6 DEF Recurses
<1>8. ASSUME NEW i \in 1..n PROVE f[i] = f[i - 1] + SizeOf(s[i])
  <2>1. i - 1 \in Nat /\ (i - 1) + 1 = i
    OBVIOUS
  <2>2. f[(i - 1) + 1] = step[<<i - 1, f[i - 1]>>]
    BY <1>6, <2>1 DEF Recurses
  <2>3. step[<<i - 1, f[i - 1]>>] = f[i - 1] + amount[i - 1]
    BY <1>5, <1>7, <2>1
  <2> QED
    BY <1>2, <2>1, <2>2, <2>3
<1>9. Solves([i \in 0..n |-> f[i]])
  <2> DEFINE g == [i \in 0..n |-> f[i]]
  <2>1. ASSUME NEW i \in 0..n PROVE g[i] = IF i = 0 THEN 0 ELSE g[i - 1] + SizeOf(s[i])
    <3>1. CASE i = 0
      BY <1>7, <3>1
    <3>2. CASE i # 0
      <4>1. i \in 1..n /\ i - 1 \in 0..n
        BY <3>2
      <4> QED
        BY <1>8, <3>2, <4>1
    <3> QED
      BY <3>1, <3>2
  <2>2. g = [i \in 0..n |-> g[i]]
    OBVIOUS
  <2> HIDE DEF g
  <2>3. g = [i \in 0..n |-> IF i = 0 THEN 0 ELSE g[i - 1] + SizeOf(s[i])]
    BY <2>1, <2>2, Zenon
  <2>4. Solves(g)
    BY <1>1, <2>3
  <2> QED
    BY <2>4 DEF g
<1>10. Solves(upTo)
  BY <1>9, Zenon
<1> HIDE DEF upTo
<1>11. upTo = [i \in 0..n |-> IF i = 0 THEN 0 ELSE upTo[i - 1] + SizeOf(s[i])]
  BY <1>1, <1>10
<1>12. /\ upTo[0] = 0
       /\ \A i \in 1..n : upTo[i] = upTo[i - 1] + SizeOf(s[i])
  <2>1. 0 \in 0..n /\ \A i \in 1..n : i \in 0..n /\ i # 0
    OBVIOUS
  <2> QED
    BY <1>11, <2>1
<1> DEFINE Good == {i \in 0..n : upTo[i] = f[i]}
<1>13. 0 \in Good
  <2>1. upTo[0] = f[0]
    BY <1>7, <1>12, Zenon
  <2>2. 0 \in 0..n
    OBVIOUS
  <2> QED
    BY <2>1, <2>2, Zenon
<1>14. ASSUME NEW i \in 0..(n - 1), i \in Good PROVE i + 1 \in Good
  <2>1. i + 1 \in 1..n /\ i + 1 \in 0..n /\ (i + 1) - 1 = i
    OBVIOUS
  <2>2. upTo[i + 1] = upTo[i] + SizeOf(s[i + 1]) /\ f[i + 1] = f[i] + SizeOf(s[i + 1])
    BY <1>8, <1>12, <2>1
  <2>3. upTo[i] = f[i]
    BY <1>14
  <2> QED
    BY <2>1, <2>2, <2>3
<1>15. 0..n \subseteq Good
  <2> HIDE DEF Good
  <2> QED
    BY <1>13, <1>14, InductionUpTo
<1>16. upTo \in [0..n -> Nat]
  <2>1. ASSUME NEW i \in 0..n PROVE upTo[i] \in Nat
    <3>1. upTo[i] = f[i]
      BY <1>15, Zenon
    <3>2. i \in Nat
      OBVIOUS
    <3>3. f[i] \in Nat
      BY <1>7, <3>2, Zenon
    <3> QED
      BY <3>1, <3>3
  <2>2. DOMAIN upTo = 0..n
    BY <1>11, Zenon
  <2>3. upTo = [i \in 0..n |-> upTo[i]]
    BY <1>11
  <2> QED
    BY <2>1, <2>3, Zenon
<1> HIDE DEF Good
<1> QED
  BY <1>1, <1>3, <1>12, <1>16 DEF Sums

LEMMA SizeIsNatural == ASSUME NEW S, NEW s \in Seq(S) PROVE Size(s) \in Nat
<1>1. PICK f : Sums(f, s)
  BY SizeSums
<1> QED
  BY <1>1 DEF Sums

LEMMA SizeOfOne == \A cell : Size(<<cell>>) = SizeOf(cell)
<1> TAKE cell
<1>1. PICK s : s = <<cell>>
  OBVIOUS
<1>2. s \in Seq({cell}) /\ Len(s) = 1 /\ s[1] = cell
  BY <1>1
<1>3. PICK f : Sums(f, s)
  BY <1>2, SizeSums
<1>4. f[0] = 0 /\ f[1] = f[1 - 1] + SizeOf(cell) /\ Size(s) = f[1]
  BY <1>2, <1>3 DEF Sums
<1> QED
  BY <1>1, <1>4, SizeOfCells

LEMMA SizeJoined ==
    ASSUME NEW S, NEW s \in Seq(S), NEW t \in Seq(S), NEW st, st = s \o t
    PROVE  Size(st) = Size(s) + Size(t)
<1>1. PICK n \in Nat, m \in Nat : n = Len(s) /\ m = Len(t)
  OBVIOUS
<1>2. st \in Seq(S) /\ Len(st) = n + m
  BY <1>1
<1>3. (\A i \in 1..n : st[i] = s[i]) /\ (\A i \in 1..m : st[n + i] = t[i])
  BY <1>1
<1>4. PICK f, g, h : Sums(f, s) /\ Sums(g, t) /\ Sums(h, st)
  BY <1>2, SizeSums
<1>5. /\ f \in [0..n -> Nat] /\ f[0] = 0 /\ Size(s) = f[n]
      /\ \A i \in 1..n : f[i] = f[i - 1] + SizeOf(s[i])
  BY <1>1, <1>4 DEF Sums
<1>6. /\ g \in [0..m -> Nat] /\ g[0] = 0 /\ Size(t) = g[m]
      /\ \A i \in 1..m : g[i] = g[i - 1] + SizeOf(t[i])
  BY <1>1, <1>4 DEF Sums
<1>7. /\ h \in [0..(n + m) -> Nat] /\ h[0] = 0 /\ Size(st) = h[n + m]
      /\ \A i \in 1..(n + m) : h[i] = h[i - 1] + SizeOf(st[i])
  BY <1>2, <1>4 DEF Sums
<1> DEFINE First == {i \in 0..n : h[i] = f[i]}
           Second == {i \in 0..m : h[n + i] = f[n] + g[i]}
<1>8. 0..n \subseteq First
  <2>1. 0 \in First
    BY <1>5, <1>7
  <2>2. ASSUME NEW i \in 0..(n - 1), i \in First PROVE i + 1 \in First
    <3>1. i + 1 \in 1..n /\ i + 1 \in 0..n /\ i + 1 \in 1..(n + m) /\ (i + 1) - 1 = i
      OBVIOUS
    <3>2. h[i + 1] = h[i] + SizeOf(st[i + 1]) /\ f[i + 1] = f[i] + SizeOf(s[i + 1])
      BY <1>5, <1>7, <3>1
    <3>3. st[i + 1] = s[i + 1]
      BY <1>3, <3>1
    <3> QED
      BY <2>2, <3>1, <3>2, <3>3
  <2> HIDE DEF First
  <2> QED
    BY <2>1, <2>2, InductionUpTo
<1>9. 0..m \subseteq Second
  <2>1. 0 \in Second
    <3>1. n \in First /\ n + 0 = n /\ f[n] \in Nat
      BY <1>5, <1>8
    <3>2. h[n] = f[n]
      BY <3>1
    <3> HIDE DEF First
    <3> QED
      BY <1>6, <3>1, <3>2
  <2>2. ASSUME NEW i \in 0..(m - 1), i \in Second PROVE i + 1 \in Second
    <3>1. /\ i + 1 \in 1..m /\ i + 1 \in 0..m /\ (i + 1) - 1 = i
          /\ n + (i + 1) \in 1..(n + m) /\ (n + (i + 1)) - 1 = n + i
      OBVIOUS
    <3>2. h[n + (i + 1)] = h[n + i] + SizeOf(st[n + (i + 1)]) /\ g[i + 1] = g[i] + SizeOf(t[i + 1])
      BY <1>6, <1>7, <3>1
    <3>3. PICK c \in Nat : c = SizeOf(t[i + 1]) /\ c = SizeOf(st[n + (i + 1)])
      BY <1>3, <3>1, SizeOfCells
    <3>4. PICK x \in Nat, y \in Nat : x = f[n] /\ y = g[i]
      BY <1>5, <1>6
    <3>5. h[n + i] = x + y
      BY <2>2, <3>4
    <3>6. h[n + (i + 1)] = (x + y) + c /\ f[n] + g[i + 1] = x + (y + c)
      BY <3>2, <3>3, <3>4, <3>5
    <3>7. (x + y) + c = x + (y + c)
      OBVIOUS
    <3> QED
      BY <3>1, <3>6, <3>7
  <2> HIDE DEF Second
  <2> QED
    BY <2>1, <2>2, InductionUpTo
<1>10. m \in Second
  BY <1>9
<1> QED
  BY <1>5, <1>6, <1>7, <1>10

LEMMA SizeOfOctets == ASSUME NEW s \in Seq(Octet) PROVE Size(s) = Len(s)
<1>1. PICK f : Sums(f, s)
  BY SizeSums
<1>2. PICK n \in Nat : n = Len(s)
  OBVIOUS
<1>3. /\ f[0] = 0 /\ Size(s) = f[n] /\ \A i \in 1..n : f[i] = f[i - 1] + SizeOf(s[i])
  BY <1>1, <1>2 DEF Sums
<1>4. \A i \in 1..n : SizeOf(s[i]) = 1
  <2>1. \A i \in 1..n : s[i] \in Octet
    BY <1>2
  <2> QED
    BY <2>1, SizeOfCells
<1> DEFINE Good == {i \in 0..n : f[i] = i}
<1>5. 0 \in Good
  BY <1>3
<1>6. ASSUME NEW i \in 0..(n - 1), i \in Good PROVE i + 1 \in Good
  <2>1. i + 1 \in 1..n /\ (i + 1) - 1 = i
    OBVIOUS
  <2> QED
    BY <1>3, <1>4, <1>6, <2>1
<1>7. 0..n \subseteq Good
  <2> HIDE DEF Good
  <2> QED
    BY <1>5, <1>6, InductionUpTo
<1> QED
  BY <1>2, <1>3, <1>7

LEMMA FourSizes ==
    ASSUME NEW S, NEW a, NEW b, NEW c, NEW d, NEW all, Four(S, a, b, c, d, all)
    PROVE  all \in Seq(S) /\ Size(all) = Size(a) + Size(b) + Size(c) + Size(d)
<1> USE DEF Four
<1>1. PICK ab \in Seq(S) : ab = a \o b
  BY Joined
<1>2. PICK abc \in Seq(S) : abc = ab \o c
  BY Joined
<1>3. all = abc \o d
  BY <1>1, <1>2
<1>4. Size(ab) = Size(a) + Size(b) /\ Size(abc) = Size(ab) + Size(c) /\ Size(all) = Size(abc) + Size(d)
  BY <1>1, <1>2, <1>3, SizeJoined
<1>5. all \in Seq(S)
  BY <1>3
<1> QED
  BY <1>4, <1>5

LEMMA FiveSizes ==
    ASSUME NEW S, NEW a, NEW b, NEW c, NEW d, NEW e, NEW all, Five(S, a, b, c, d, e, all)
    PROVE  all \in Seq(S) /\ Size(all) = Size(a) + Size(b) + Size(c) + Size(d) + Size(e)
<1> USE DEF Five
<1>1. PICK abcd : abcd = a \o b \o c \o d
  OBVIOUS
<1>2. Four(S, a, b, c, d, abcd)
  BY <1>1 DEF Four
<1>3. all = abcd \o e /\ e \in Seq(S)
  BY <1>1
<1>4. abcd \in Seq(S) /\ Size(abcd) = Size(a) + Size(b) + Size(c) + Size(d)
  BY ONLY <1>2, FourSizes
<1>5. Size(all) = Size(abcd) + Size(e) /\ all \in Seq(S)
  <2>1. all \in Seq(S)
    BY <1>3, <1>4
  <2> QED
    BY <1>3, <1>4, <2>1, SizeJoined
<1> QED
  BY <1>4, <1>5, Zenon

LEMMA SixSizes ==
    ASSUME NEW S, NEW a, NEW b, NEW c, NEW d, NEW e, NEW f, NEW all, Six(S, a, b, c, d, e, f, all)
    PROVE  all \in Seq(S) /\ Size(all) = Size(a) + Size(b) + Size(c) + Size(d) + Size(e) + Size(f)
<1> USE DEF Six
<1>1. PICK most : most = a \o b \o c \o d \o e
  OBVIOUS
<1>2. Five(S, a, b, c, d, e, most)
  BY <1>1 DEF Five
<1>3. all = most \o f /\ f \in Seq(S)
  BY <1>1
<1>4. most \in Seq(S) /\ Size(most) = Size(a) + Size(b) + Size(c) + Size(d) + Size(e)
  BY ONLY <1>2, FiveSizes
<1>5. Size(all) = Size(most) + Size(f) /\ all \in Seq(S)
  <2>1. all \in Seq(S)
    BY <1>3, <1>4
  <2> QED
    BY <1>3, <1>4, <2>1, SizeJoined
<1> QED
  BY <1>4, <1>5, Zenon

-----------------------------------------------------------------------------

\* What the programs read of an instruction's data

FieldName == {"lamports", "space", "index", "bytes", "owner", "base"}

\* How a field is written and what is meant by it
FieldCells(a, field) ==
    CASE field \in {"lamports", "space"} -> u64ToLeBytes(a[field])
      [] field = "index" -> u32ToLeBytes(a.index)
      [] field = "bytes" -> encodeString(a.bytes)
      [] OTHER -> <<a[field]>>
MeantBy(a, field) ==
    CASE field \in {"lamports", "space"} -> a[field] % Modulus("u64")
      [] field = "index" -> a.index % Modulus("u32")
      [] OTHER -> a[field]

LEMMA FieldRead ==
    ASSUME NEW a \in Argument, NEW field \in FieldName, NEW S, Octet \subseteq S, Pubkey \subseteq S,
           NEW cells, cells = FieldCells(a, field)
    PROVE  /\ cells \in Seq(S)
           /\ \A data : \A offset \in Nat : Stands(data, offset, cells) =>
                 ReadField(field, data, offset)
                    = [value |-> MeantBy(a, field), next |-> offset + Len(cells)]
<1>1. /\ a.owner \in Pubkey /\ a.base \in Pubkey
      /\ a.lamports \in Int /\ a.space \in Int /\ a.index \in Int
      /\ a.bytes \in Seq(Octet) /\ Len(a.bytes) < Modulus("u64")
  BY DEF Argument
<1>2. "u32" \in IntegerType /\ "u64" \in IntegerType
  BY BytesAssumption DEF IntegerType
<1>3. PICK w \in Nat, long \in Nat : w = Width["u32"] /\ long = Width["u64"]
  BY BytesAssumption
<1>4. CASE field \in {"lamports", "space"}
  <2>1. PICK v \in Int : v = a[field]
    BY <1>1, <1>4
  <2>2. cells = u64ToLeBytes(v)
    BY <1>4, <2>1 DEF FieldCells
  <2>3. cells \in Seq(S) /\ Len(cells) = long
    BY <1>3, <2>2, NumberCells DEF Octet
  <2>4. ASSUME NEW data, NEW offset \in Nat, Stands(data, offset, cells)
        PROVE  ReadNumber("u64", data, offset) = v % Modulus("u64")
    BY <1>2, <2>2, <2>4, WordsAreBytes, NumberStanding
  <2>5. MeantBy(a, field) = v % Modulus("u64")
    BY <1>4, <2>1 DEF MeantBy
  <2>6. ASSUME NEW data, NEW offset
        PROVE  ReadField(field, data, offset) =
                  [value |-> ReadNumber("u64", data, offset), next |-> offset + long]
    BY <1>3, <1>4 DEF ReadField
  <2> QED
    BY <2>3, <2>4, <2>5, <2>6
<1>5. CASE field = "index"
  <2>1. PICK v \in Int : v = a.index
    BY <1>1
  <2>2. cells = u32ToLeBytes(v)
    BY <1>5, <2>1 DEF FieldCells
  <2>3. cells \in Seq(S) /\ Len(cells) = w
    BY <1>3, <2>2, NumberCells DEF Octet
  <2>4. ASSUME NEW data, NEW offset \in Nat, Stands(data, offset, cells)
        PROVE  ReadNumber("u32", data, offset) = v % Modulus("u32")
    BY <1>2, <2>2, <2>4, WordsAreBytes, NumberStanding
  <2>5. MeantBy(a, field) = v % Modulus("u32")
    BY <1>5, <2>1 DEF MeantBy
  <2>6. ASSUME NEW data, NEW offset
        PROVE  ReadField(field, data, offset) =
                  [value |-> ReadNumber("u32", data, offset), next |-> offset + w]
    BY <1>3, <1>5 DEF ReadField
  <2> QED
    BY <2>3, <2>4, <2>5, <2>6
<1>6. CASE field = "bytes"
  <2>1. PICK n \in Nat : n = Len(a.bytes) /\ n < Modulus("u64")
    BY <1>1
  <2>2. PICK length \in Seq(S) : length = u64ToLeBytes(n) /\ Len(length) = long
    BY <1>3, NumberCells DEF Octet
  <2>3. PICK bytes \in Seq(S) : bytes = a.bytes /\ Len(bytes) = n
    BY <1>1, <2>1, SeqWider
  <2>4. cells = length \o bytes
    BY <1>6, <2>1, <2>2, <2>3 DEF FieldCells, encodeString
  <2>5. cells \in Seq(S) /\ Len(cells) = long + n
    BY <2>2, <2>3, <2>4, Joined
  <2>6. ASSUME NEW data, NEW offset \in Nat, Stands(data, offset, cells)
        PROVE  ReadField(field, data, offset) = [value |-> bytes, next |-> offset + (long + n)]
    <3>1. Stands(data, offset, length) /\ Stands(data, offset + long, bytes)
      BY <2>2, <2>4, <2>6, StandsParts, ZenonT(40)
    <3>2. ReadNumber("u64", data, offset) = n
      BY <2>1, <2>2, <3>1, LongCountRead
    <3>3. PICK at \in Nat : at = offset + long
      OBVIOUS
    <3>4. Take(data, at, n) = bytes
      BY <2>3, <3>1, <3>3, TakesStanding
    <3>5. ReadField(field, data, offset) =
             [value |-> Take(data, at, n), next |-> at + n]
      BY <1>3, <1>6, <3>2, <3>3 DEF ReadField
    <3>6. at + n = offset + (long + n)
      BY <3>3
    <3> QED
      BY <3>4, <3>5, <3>6, Zenon
  <2>7. MeantBy(a, field) = bytes
    BY <1>6, <2>3 DEF MeantBy
  <2> QED
    BY <2>5, <2>6, <2>7
<1>7. CASE field \in {"owner", "base"}
  <2>1. PICK key \in S : key = a[field]
    BY <1>1, <1>7
  <2>2. cells = <<key>>
    BY <1>7, <2>1 DEF FieldCells
  <2>3. cells \in Seq(S) /\ Len(cells) = 1
    BY <2>2
  <2>4. MeantBy(a, field) = key
    BY <1>7, <2>1 DEF MeantBy
  <2>5. ASSUME NEW data, NEW offset \in Nat, Stands(data, offset, cells)
        PROVE  ReadField(field, data, offset) = [value |-> key, next |-> offset + 1]
    <3>1. ByteAt(data, offset) = key
      BY <2>2, <2>5, StandsOne
    <3> QED
      BY <1>7, <3>1 DEF ReadField
  <2> QED
    BY <2>3, <2>4, <2>5
<1> QED
  BY <1>4, <1>5, <1>6, <1>7 DEF FieldName

\* What ReadFields() comes to
FieldsOn(g, tag, fields, data, n) ==
    g = [i \in 0..n |->
            IF i = 0 THEN [items |-> <<>>, next |-> tag]
            ELSE [items |-> Append(g[i - 1].items, ReadField(fields[i], data, g[i - 1].next).value),
                  next |-> ReadField(fields[i], data, g[i - 1].next).next]]

\* Each field is read where the one before it ends.
FieldsInARow(fields, data, list, ends, n) ==
    /\ ends \in [0..n -> Nat]
    /\ \A i \in 1..n :
          ReadField(fields[i], data, ends[i - 1]) = [value |-> list[i], next |-> ends[i]]

LEMMA FieldsTold ==
    ASSUME NEW S, NEW list \in Seq(S), NEW n \in Nat, n = Len(list),
           NEW fields, Len(fields) = n, NEW data, NEW ends, FieldsInARow(fields, data, list, ends, n),
           NEW tag, tag = ends[0]
    PROVE  ReadFields(tag, fields, data) = [items |-> list, next |-> ends[n]]
<1> DEFINE read == CHOOSE g : FieldsOn(g, tag, fields, data, n)
           told == [i \in 0..n |-> [items |-> SubSeq(list, 1, i), next |-> ends[i]]]
<1>1. ReadFields(tag, fields, data) = read[n]
  BY DEF ReadFields, FieldsOn
<1>2. ASSUME NEW i \in 1..n
      PROVE  /\ ReadField(fields[i], data, ends[i - 1]).value = list[i]
             /\ ReadField(fields[i], data, ends[i - 1]).next = ends[i]
             /\ Append(SubSeq(list, 1, i - 1), list[i]) = SubSeq(list, 1, i)
             /\ i - 1 \in 0..n
  <2>1. ReadField(fields[i], data, ends[i - 1]) = [value |-> list[i], next |-> ends[i]]
    BY DEF FieldsInARow
  <2>2. Append(SubSeq(list, 1, i - 1), list[i]) = SubSeq(list, 1, i)
    BY Growing
  <2> QED
    BY <2>1, <2>2
<1>3. SubSeq(list, 1, 0) = <<>> /\ SubSeq(list, 1, n) = list
  OBVIOUS
<1>4. \E g : FieldsOn(g, tag, fields, data, n)
  <2>1. ASSUME NEW i \in 0..n
        PROVE  told[i] = IF i = 0 THEN [items |-> <<>>, next |-> tag]
                 ELSE [items |-> Append(told[i - 1].items,
                                        ReadField(fields[i], data, told[i - 1].next).value),
                       next |-> ReadField(fields[i], data, told[i - 1].next).next]
    <3>1. told[i] = [items |-> SubSeq(list, 1, i), next |-> ends[i]]
      OBVIOUS
    <3>2. CASE i = 0
      BY <1>3, <3>1, <3>2
    <3>3. CASE i # 0
      <4>1. i \in 1..n /\ i - 1 \in 0..n
        BY <3>3
      <4>2. told[i - 1].items = SubSeq(list, 1, i - 1) /\ told[i - 1].next = ends[i - 1]
        BY <4>1
      <4> HIDE DEF told
      <4> QED
        BY <1>2, <3>1, <3>3, <4>1, <4>2, Zenon
    <3> QED
      BY <3>2, <3>3
  <2>2. told = [i \in 0..n |-> told[i]]
    OBVIOUS
  <2> HIDE DEF told
  <2>3. FieldsOn(told, tag, fields, data, n)
    BY <2>1, <2>2, Zenon DEF FieldsOn
  <2> QED
    BY <2>3
<1>5. FieldsOn(read, tag, fields, data, n)
  BY <1>4, Zenon
<1> HIDE DEF read, told
<1>6. /\ read[0] = [items |-> <<>>, next |-> tag]
      /\ \A i \in 1..n :
            read[i] = [items |-> Append(read[i - 1].items,
                                        ReadField(fields[i], data, read[i - 1].next).value),
                       next |-> ReadField(fields[i], data, read[i - 1].next).next]
  <2>1. 0 \in 0..n /\ \A i \in 1..n : i \in 0..n /\ i # 0
    OBVIOUS
  <2> QED
    BY <1>5, <2>1 DEF FieldsOn
<1> DEFINE Same == {i \in 0..n : read[i] = [items |-> SubSeq(list, 1, i), next |-> ends[i]]}
<1>7. 0 \in Same
  BY <1>3, <1>6
<1>8. ASSUME NEW i \in 0..(n - 1), i \in Same PROVE i + 1 \in Same
  <2>1. i + 1 \in 1..n /\ (i + 1) - 1 = i /\ i + 1 \in 0..n
    OBVIOUS
  <2>2. PICK k \in 1..n : k = i + 1 /\ k - 1 = i
    BY <2>1
  <2>3. read[k - 1].items = SubSeq(list, 1, k - 1) /\ read[k - 1].next = ends[k - 1]
    BY <1>8, <2>2
  <2>4. read[k] = [items |-> SubSeq(list, 1, k), next |-> ends[k]]
    BY <1>2, <1>6, <2>3, ZenonT(40)
  <2> QED
    BY <2>1, <2>2, <2>4
<1>9. 0..n \subseteq Same
  <2> HIDE DEF Same
  <2> QED
    BY <1>7, <1>8, InductionUpTo
<1>10. read[n] = [items |-> SubSeq(list, 1, n), next |-> ends[n]]
  <2>1. n \in 0..n
    OBVIOUS
  <2> QED
    BY <1>9, <2>1
<1> HIDE DEF Same
<1> QED
  BY <1>1, <1>3, <1>10

FieldParts(a, fields) == [i \in DOMAIN fields |-> FieldCells(a, fields[i])]
FieldsMeant(a, fields) == [i \in DOMAIN fields |-> MeantBy(a, fields[i])]

\* The fields behind a tag are read as they were meant, and no more than them.
LEMMA FieldsRead ==
    ASSUME NEW a \in Argument, NEW fields \in Seq(FieldName), NEW S, Octet \subseteq S, Pubkey \subseteq S,
           NEW tag \in Seq(S), NEW data, data = tag \o FlattenSeq(FieldParts(a, fields))
    PROVE  /\ Stands(data, 0, tag)
           /\ ReadFields(Len(tag), fields, data) = [items |-> FieldsMeant(a, fields), next |-> Len(data)]
<1>1. PICK n \in Nat : n = Len(fields) /\ DOMAIN fields = 1..n
  OBVIOUS
<1>2. PICK parts : parts = FieldParts(a, fields)
  OBVIOUS
<1>3. PICK flat : flat = FlattenSeq(parts)
  OBVIOUS
<1>4. \A i \in 1..n : fields[i] \in FieldName /\ parts[i] = FieldCells(a, fields[i])
  BY <1>1, <1>2 DEF FieldParts
<1>5. parts \in [1..n -> Seq(S)]
  <2>1. \A i \in 1..n : FieldCells(a, fields[i]) \in Seq(S)
    BY <1>4, FieldRead
  <2> QED
    BY <1>1, <1>2, <2>1 DEF FieldParts
<1>6. LaidOut(S, n, parts, flat)
  BY <1>3, <1>5, Flattened
<1>7. PICK ends : /\ flat \in Seq(S) /\ Ends(ends, parts, n) /\ Len(flat) = ends[n]
                  /\ \A i \in 1..n : ends[i] <= ends[n] /\ Stands(flat, ends[i - 1], parts[i])
  BY <1>6 DEF LaidOut
<1>8. /\ ends \in [0..n -> Nat] /\ ends[0] = 0
      /\ \A i \in 1..n : ends[i] = ends[i - 1] + Len(parts[i])
  BY <1>7 DEF Ends
<1>9. data \in Seq(S) /\ data = tag \o flat /\ Len(data) = Len(tag) + Len(flat)
  BY <1>2, <1>3, <1>7, Joined
<1>10. PICK t \in Nat : t = Len(tag)
  OBVIOUS
<1>11. Stands(data, 0, tag) /\ Stands(data, t, flat)
  <2>1. Stands(data, 0, data) /\ 0 \in Nat
    BY <1>9, StandsItself
  <2>2. Stands(data, 0, tag \o flat)
    BY <1>9, <2>1
  <2>3. Stands(data, 0, tag) /\ Stands(data, 0 + Len(tag), flat)
    BY <1>7, <2>1, <2>2, StandsParts
  <2>4. 0 + Len(tag) = t
    BY <1>10
  <2> QED
    BY <2>3, <2>4
<1>12. PICK at : at = [i \in 0..n |-> t + ends[i]]
  OBVIOUS
<1>13. at \in [0..n -> Nat] /\ at[0] = t /\ at[n] = Len(data)
  BY <1>7, <1>8, <1>9, <1>10, <1>12
<1>14. PICK list : list = FieldsMeant(a, fields)
  OBVIOUS
<1>15. PICK V : V = {MeantBy(a, field) : field \in FieldName}
  OBVIOUS
<1>16. list \in Seq(V) /\ Len(list) = n /\ \A i \in 1..n : list[i] = MeantBy(a, fields[i])
  <2>1. \A i \in 1..n : MeantBy(a, fields[i]) \in V
    BY <1>4, <1>15
  <2>2. list = [i \in 1..n |-> MeantBy(a, fields[i])]
    BY <1>1, <1>14 DEF FieldsMeant
  <2> QED
    BY <2>1, <2>2
<1>17. ASSUME NEW i \in 1..n
       PROVE  ReadField(fields[i], data, at[i - 1]) = [value |-> list[i], next |-> at[i]]
  <2>1. i - 1 \in 0..n /\ i \in 0..n
    OBVIOUS
  <2>2. PICK part \in Seq(S) : part = parts[i]
    BY <1>5
  <2>3. PICK before \in Nat : before = ends[i - 1]
    BY <1>8, <2>1
  <2>4. before + Len(part) <= Len(flat) /\ Stands(flat, before, part)
        /\ ends[i] = before + Len(part)
    BY <1>7, <1>8, <2>2, <2>3
  <2>5. Stands(data, t + before, part)
    BY <1>7, <1>11, <2>4, StandsWithin
  <2>6. at[i - 1] = t + before /\ at[i] = (t + before) + Len(part)
    BY <1>12, <2>1, <2>3, <2>4, SMTT(30)
  <2>7. PICK field \in FieldName : field = fields[i] /\ part = FieldCells(a, field)
    BY <1>4, <2>2
  <2>8. PICK offset \in Nat : offset = t + before
    OBVIOUS
  <2>9. ReadField(field, data, offset) = [value |-> MeantBy(a, field), next |-> offset + Len(part)]
    BY <2>5, <2>7, <2>8, FieldRead, ZenonT(40)
  <2> QED
    BY <1>16, <2>6, <2>7, <2>8, <2>9
<1>18. FieldsInARow(fields, data, list, at, n)
  BY <1>13, <1>17 DEF FieldsInARow
<1>19. ReadFields(t, fields, data) = [items |-> list, next |-> at[n]]
  BY <1>1, <1>13, <1>16, <1>18, FieldsTold
<1> QED
  BY <1>10, <1>11, <1>13, <1>14, <1>19, Zenon

\* A part more
More(S, n, m, front, parts) ==
    /\ n \in Nat /\ m \in Nat /\ m = n + 1
    /\ front \in [1..n -> Seq(S)] /\ parts \in [1..m -> Seq(S)]
    /\ \A i \in 1..n : parts[i] = front[i]

LEMMA FlattenMore ==
    ASSUME NEW S, NEW n, NEW m, NEW front, NEW parts, More(S, n, m, front, parts)
    PROVE  FlattenSeq(parts) = FlattenSeq(front) \o parts[m]
<1>0. /\ n \in Nat /\ m \in Nat /\ m = n + 1
      /\ front \in [1..n -> Seq(S)] /\ parts \in [1..m -> Seq(S)]
      /\ \A i \in 1..n : parts[i] = front[i]
  BY DEF More
<1>1. PICK f : Grows(f, S, parts, m)
  BY <1>0, Growth
<1>2. f \in [Nat -> Seq(S)] /\ f[0] = <<>> /\ \A i \in 1..m : f[i] = f[i - 1] \o parts[i]
  BY <1>1 DEF Grows
<1>3. Grows(f, S, front, n)
  <2>1. \A i \in 1..n : i \in 1..m
    BY <1>0
  <2>2. \A i \in 1..n : f[i] = f[i - 1] \o front[i]
    BY <1>0, <1>2, <2>1, Zenon
  <2> QED
    BY <1>2, <2>2 DEF Grows
<1>4. m \in 1..m /\ m - 1 = n
  BY <1>0
<1>5. f[m] = f[n] \o parts[m]
  BY <1>2, <1>4, Zenon
<1>6. FlattenSeq(parts) = f[m]
  BY <1>0, <1>1, FlattenSeqGrown
<1>7. FlattenSeq(front) = f[n]
  BY <1>0, <1>3, FlattenSeqGrown
<1> QED
  BY <1>5, <1>6, <1>7, Zenon

\* A few parts together
LEMMA FlattenNone == FlattenSeq(<<>>) = <<>>
<1>1. PICK parts : parts = <<>>
  OBVIOUS
<1>2. Len(parts) = 0
  BY <1>1
<1>3. FlattenSeq(parts) = parts
  BY <1>2 DEF FlattenSeq
<1> QED
  BY <1>1, <1>3

LEMMA FlattenOnly == ASSUME NEW S, NEW p \in Seq(S) PROVE FlattenSeq(<<p>>) = p
<1>1. PICK none, one : none = <<>> /\ one = <<p>>
  OBVIOUS
<1>2. none \in [1..0 -> Seq(S)] /\ one \in [1..1 -> Seq(S)] /\ one[1] = p /\ 1 = 0 + 1
  BY <1>1
<1>3. \A i \in 1..0 : one[i] = none[i]
  OBVIOUS
<1>4. More(S, 0, 1, none, one)
  BY <1>2, <1>3 DEF More
<1>5. FlattenSeq(one) = FlattenSeq(none) \o one[1]
  BY <1>4, FlattenMore
<1>6. FlattenSeq(none) = <<>> /\ <<>> \o p = p
  BY <1>1, FlattenNone
<1> QED
  BY <1>1, <1>2, <1>5, <1>6, Zenon

Two(S, p, q, all) == p \in Seq(S) /\ q \in Seq(S) /\ all = p \o q
Three(S, p, q, r, all) == p \in Seq(S) /\ q \in Seq(S) /\ r \in Seq(S) /\ all = p \o q \o r

LEMMA FlattenTwo ==
    ASSUME NEW S, NEW p, NEW q, NEW all, Two(S, p, q, all)
    PROVE  FlattenSeq(<<p, q>>) = all
<1>1. /\ p \in Seq(S) /\ q \in Seq(S)
      /\ all = p \o q
  BY DEF Two
<1>2. PICK front, parts : front = <<p>> /\ parts = <<p, q>>
  OBVIOUS
<1>3. More(S, 1, 2, front, parts)
  <2>1. front \in [1..1 -> Seq(S)] /\ parts \in [1..2 -> Seq(S)] /\ 2 = 1 + 1
    BY <1>1, <1>2
  <2>2. \A i \in 1..1 : parts[i] = front[i]
    BY <1>2
  <2> QED
    BY <2>1, <2>2 DEF More
<1>4. FlattenSeq(parts) = FlattenSeq(front) \o q
  <2>1. parts[2] = q
    BY <1>2
  <2>2. FlattenSeq(parts) = FlattenSeq(front) \o parts[2]
    BY <1>3, FlattenMore
  <2> QED
    BY <2>1, <2>2, Zenon
<1>5. FlattenSeq(front) = p
  BY <1>1, <1>2, FlattenOnly
<1> QED
  BY <1>1, <1>2, <1>4, <1>5, Zenon

LEMMA FlattenThree ==
    ASSUME NEW S, NEW p, NEW q, NEW r, NEW all, Three(S, p, q, r, all)
    PROVE  FlattenSeq(<<p, q, r>>) = all
<1>1. /\ p \in Seq(S) /\ q \in Seq(S) /\ r \in Seq(S)
      /\ all = p \o q \o r
  BY DEF Three
<1>2. PICK front, parts : front = <<p, q>> /\ parts = <<p, q, r>>
  OBVIOUS
<1>3. More(S, 2, 3, front, parts)
  <2>1. front \in [1..2 -> Seq(S)] /\ parts \in [1..3 -> Seq(S)] /\ 3 = 2 + 1
    BY <1>1, <1>2
  <2>2. \A i \in 1..2 : parts[i] = front[i]
    BY <1>2
  <2> QED
    BY <2>1, <2>2 DEF More
<1>4. FlattenSeq(parts) = FlattenSeq(front) \o r
  <2>1. parts[3] = r
    BY <1>2
  <2>2. FlattenSeq(parts) = FlattenSeq(front) \o parts[3]
    BY <1>3, FlattenMore
  <2> QED
    BY <2>1, <2>2, Zenon
<1>5. FlattenSeq(front) = p \o q
  <2>1. PICK these : these = p \o q
    OBVIOUS
  <2>2. Two(S, p, q, these)
    BY <1>1, <2>1 DEF Two
  <2> QED
    BY <1>2, <2>1, <2>2, FlattenTwo
<1> QED
  BY <1>1, <1>2, <1>4, <1>5, Zenon

LEMMA FlattenFour ==
    ASSUME NEW S, NEW p, NEW q, NEW r, NEW s, NEW all, Four(S, p, q, r, s, all)
    PROVE  FlattenSeq(<<p, q, r, s>>) = all
<1>1. /\ p \in Seq(S) /\ q \in Seq(S) /\ r \in Seq(S) /\ s \in Seq(S)
      /\ all = p \o q \o r \o s
  BY DEF Four
<1>2. PICK front, parts : front = <<p, q, r>> /\ parts = <<p, q, r, s>>
  OBVIOUS
<1>3. More(S, 3, 4, front, parts)
  <2>1. front \in [1..3 -> Seq(S)] /\ parts \in [1..4 -> Seq(S)] /\ 4 = 3 + 1
    BY <1>1, <1>2
  <2>2. \A i \in 1..3 : parts[i] = front[i]
    BY <1>2
  <2> QED
    BY <2>1, <2>2 DEF More
<1>4. FlattenSeq(parts) = FlattenSeq(front) \o s
  <2>1. parts[4] = s
    BY <1>2
  <2>2. FlattenSeq(parts) = FlattenSeq(front) \o parts[4]
    BY <1>3, FlattenMore
  <2> QED
    BY <2>1, <2>2, Zenon
<1>5. FlattenSeq(front) = p \o q \o r
  <2>1. PICK these : these = p \o q \o r
    OBVIOUS
  <2>2. Three(S, p, q, r, these)
    BY <1>1, <2>1 DEF Three
  <2> QED
    BY <1>2, <2>1, <2>2, FlattenThree
<1> QED
  BY <1>1, <1>2, <1>4, <1>5, Zenon

LEMMA FlattenFive ==
    ASSUME NEW S, NEW p, NEW q, NEW r, NEW s, NEW t, NEW all, Five(S, p, q, r, s, t, all)
    PROVE  FlattenSeq(<<p, q, r, s, t>>) = all
<1>1. /\ p \in Seq(S) /\ q \in Seq(S) /\ r \in Seq(S) /\ s \in Seq(S) /\ t \in Seq(S)
      /\ all = p \o q \o r \o s \o t
  BY DEF Five
<1>2. PICK front, parts : front = <<p, q, r, s>> /\ parts = <<p, q, r, s, t>>
  OBVIOUS
<1>3. More(S, 4, 5, front, parts)
  <2>1. front \in [1..4 -> Seq(S)] /\ parts \in [1..5 -> Seq(S)] /\ 5 = 4 + 1
    BY <1>1, <1>2
  <2>2. \A i \in 1..4 : parts[i] = front[i]
    BY <1>2
  <2> QED
    BY <2>1, <2>2 DEF More
<1>4. FlattenSeq(parts) = FlattenSeq(front) \o t
  <2>1. parts[5] = t
    BY <1>2
  <2>2. FlattenSeq(parts) = FlattenSeq(front) \o parts[5]
    BY <1>3, FlattenMore
  <2> QED
    BY <2>1, <2>2, Zenon
<1>5. FlattenSeq(front) = p \o q \o r \o s
  <2>1. PICK these : these = p \o q \o r \o s
    OBVIOUS
  <2>2. Four(S, p, q, r, s, these)
    BY <1>1, <2>1 DEF Four
  <2> QED
    BY <1>2, <2>1, <2>2, FlattenFour
<1> QED
  BY <1>1, <1>2, <1>4, <1>5, Zenon

\* Whose signature is asked for
Asking(metas) == {meta.pubkey : meta \in {m \in metas : m.is_signer}}
Metas(accounts) == {accounts[i] : i \in DOMAIN accounts}

LEMMA AskingOf ==
    /\ \A A, B : Asking(A \union B) = Asking(A) \union Asking(B)
    /\ \A k : Asking({Signer(k)}) = {k} /\ Asking({WritableSigner(k)}) = {k}
    /\ \A k : Asking({Readonly(k)}) = {} /\ Asking({Writable(k)}) = {}
<1>1. \A A, B : Asking(A \union B) = Asking(A) \union Asking(B)
  BY DEF Asking
<1>2. ASSUME NEW k, NEW m, m.is_signer, m.pubkey = k PROVE Asking({m}) = {k}
  BY <1>2 DEF Asking
<1>3. ASSUME NEW m, ~m.is_signer PROVE Asking({m}) = {}
  BY <1>3 DEF Asking
<1>4. \A k : /\ Signer(k).is_signer /\ WritableSigner(k).is_signer
             /\ Signer(k).pubkey = k /\ WritableSigner(k).pubkey = k
             /\ ~Readonly(k).is_signer /\ ~Writable(k).is_signer
  BY DEF Signer, WritableSigner, Readonly, Writable
<1> QED
  BY <1>1, <1>2, <1>3, <1>4, Zenon

LEMMA MetasOf ==
    /\ Metas(<<>>) = {}
    /\ \A l : Metas(<<l>>) = {l}
    /\ \A l, m : Metas(<<l, m>>) = {l} \union {m}
    /\ \A l, m, n : Metas(<<l, m, n>>) = {l} \union {m} \union {n}
    /\ \A l, m, n, o, p, q : Metas(<<l, m, n, o, p, q>>) =
          {l} \union {m} \union {n} \union {o} \union {p} \union {q}
<1>1. Metas(<<>>) = {}
  BY DEF Metas
<1>2. ASSUME NEW l PROVE Metas(<<l>>) = {l}
  BY DEF Metas
<1>3. ASSUME NEW l, NEW m PROVE Metas(<<l, m>>) = {l} \union {m}
  BY DEF Metas
<1>4. ASSUME NEW l, NEW m, NEW n PROVE Metas(<<l, m, n>>) = {l} \union {m} \union {n}
  BY DEF Metas
<1>5. ASSUME NEW l, NEW m, NEW n, NEW o, NEW p, NEW q
      PROVE  Metas(<<l, m, n, o, p, q>>) =
                {l} \union {m} \union {n} \union {o} \union {p} \union {q}
  BY DEF Metas
<1> QED
  BY <1>1, <1>2, <1>3, <1>4, <1>5, Zenon

=============================================================================
