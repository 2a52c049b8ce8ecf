--------------------------- MODULE Encodings_proofs ---------------------------
(***************************************************************************)
(* Values of JSON and the bytes in them, and bytes as text.                *)
(***************************************************************************)
EXTENDS ByteCodecs, WireFormat_proofs, SequenceTheorems, FiniteSetTheorems

-----------------------------------------------------------------------------

\* JSON values that are nested to some depth: the leaves, and the arrays and
\* objects of values that are nested one level less.  A name is any string; those
\* of the node's answers are listed, for no prover knows that a literal is one.
Name ==
    STRING \union {"f", "owner", "data", "utxo", "transactions", "account_keys", "logs",
                   "inner_instructions_list", "stack_height"}
Character == Nat \union {NonDigit, Space, Pad, X}
Leaf ==
    {Null} \union {Number(n) : n \in Int} \union {String(s) : s \in Seq(Character)}
    \union {Uint8Array(b) : b \in Seq(0..(ByteValues - 1))}
Around(S) ==
    S \union {Array(items) : items \in Seq(S)}
      \union {Object(fields) : fields \in UNION {[names -> S] : names \in SUBSET Name}}

Levels(J, h) == J[0] = Leaf /\ \A n \in 1..h : J[n] = Around(J[n - 1])

LEMMA LevelsExist == \A h \in Nat : \E J : Levels(J, h)
<1> DEFINE S == {h \in Nat : \E J : Levels(J, h)}
<1>1. 0 \in S
  <2>1. [n \in {0} |-> Leaf][0] = Leaf
    OBVIOUS
  <2>2. Levels([n \in {0} |-> Leaf], 0)
    BY <2>1 DEF Levels
  <2> QED
    BY <2>2
<1>2. ASSUME NEW h \in Nat, h \in S PROVE h + 1 \in S
  <2>1. PICK J : Levels(J, h)
    BY <1>2
  <2>2. PICK next : next = [n \in 0..(h + 1) |-> IF n = h + 1 THEN Around(J[h]) ELSE J[n]]
    OBVIOUS
  <2>3. next[0] = Leaf
    BY <2>1, <2>2 DEF Levels
  <2>4. ASSUME NEW n \in 1..(h + 1) PROVE next[n] = Around(next[n - 1])
    <3>1. n - 1 \in 0..h /\ next[n - 1] = J[n - 1]
      BY <2>2
    <3>2. CASE n = h + 1
      BY <2>2, <3>1, <3>2
    <3>3. CASE n # h + 1
      <4>1. n \in 1..h /\ next[n] = J[n]
        BY <2>2, <3>3
      <4> QED
        BY <2>1, <3>1, <4>1 DEF Levels
    <3> QED
      BY <3>2, <3>3
  <2>5. Levels(next, h + 1)
    BY <2>3, <2>4 DEF Levels
  <2> QED
    BY <2>5
<1>3. Nat \subseteq S
  <2> HIDE DEF S
  <2> QED
    BY <1>1, <1>2, Induction
<1> QED
  BY <1>3

\* What a value is, read off its one field
LEMMA KindsAreTold ==
    ASSUME NEW x
    PROVE  /\ Is(Array(x), "array") /\ ~Is(Array(x), "object") /\ ~IsBytes(Array(x))
           /\ ~Is(Array(x), "string") /\ ~Is(Array(x), "number") /\ Array(x).array = x
           /\ Is(Object(x), "object") /\ ~Is(Object(x), "array") /\ ~IsBytes(Object(x))
           /\ ~Is(Object(x), "string") /\ ~Is(Object(x), "number") /\ Object(x).object = x
           /\ IsBytes(Uint8Array(x)) /\ ~Compound(Uint8Array(x))
           /\ ~Is(Uint8Array(x), "string") /\ ~Is(Uint8Array(x), "number")
           /\ Uint8Array(x).bytes = x
           /\ Is(Number(x), "number") /\ ~Compound(Number(x)) /\ ~IsBytes(Number(x))
           /\ ~Is(Number(x), "string") /\ Number(x).number = x
           /\ Is(String(x), "string") /\ ~Compound(String(x)) /\ ~IsBytes(String(x))
           /\ ~Is(String(x), "number") /\ String(x).string = x
BY DEF Is, Compound, IsBytes, Array, Object, Uint8Array, Number, String

LEMMA CompoundsAre == \A x : Compound(Array(x)) /\ Compound(Object(x))
BY DEF Compound, Is, Array, Object

LEMMA NullIsLeaf ==
    ~Compound(Null) /\ ~IsBytes(Null) /\ ~Is(Null, "string") /\ ~Is(Null, "number")
BY DEF Is, Compound, IsBytes, Null

LEMMA LeafIsSimple == ASSUME NEW u \in Leaf PROVE ~Compound(u)
<1>1. u = Null \/ (\E n : u = Number(n)) \/ (\E s : u = String(s)) \/ \E b : u = Uint8Array(b)
  BY DEF Leaf
<1> QED
  BY <1>1, KindsAreTold, NullIsLeaf, Zenon

\* What a level adds, and what is inside
LEMMA WhatIsAround ==
    ASSUME NEW S, NEW u \in Around(S)
    PROVE  \/ u \in S
           \/ \E items \in Seq(S) : u = Array(items)
           \/ \E names : \E fields \in [names -> S] : u = Object(fields)
BY DEF Around

LEMMA LevelsGrow ==
    ASSUME NEW h \in Nat, NEW J, Levels(J, h), NEW n \in 1..h
    PROVE  n - 1 \in 0..h /\ J[n - 1] \subseteq J[n]
<1>1. J[n] = Around(J[n - 1])
  BY DEF Levels
<1>2. J[n - 1] \subseteq Around(J[n - 1])
  BY DEF Around
<1>3. n - 1 \in 0..h
  OBVIOUS
<1> QED
  BY <1>1, <1>2, <1>3, Zenon

LEMMA MembersInside ==
    ASSUME NEW h \in Nat, NEW J, Levels(J, h)
    PROVE  \A n \in 0..h : \A u \in J[n] : Compound(u) =>
               n > 0 /\ \A m \in DOMAIN Members(u) : Members(u)[m] \in J[n - 1]
<1> DEFINE Inside(n) == \A u \in J[n] : Compound(u) =>
                            n > 0 /\ \A m \in DOMAIN Members(u) : Members(u)[m] \in J[n - 1]
           S == {n \in 0..h : Inside(n)}
<1>1. 0 \in S
  <2>1. J[0] = Leaf
    BY DEF Levels
  <2>2. Inside(0)
    BY <2>1, LeafIsSimple, Zenon
  <2> QED
    BY <2>2
<1>2. ASSUME NEW n \in 0..(h - 1), n \in S PROVE n + 1 \in S
  <2>1. n + 1 \in 1..h /\ (n + 1) - 1 = n
    OBVIOUS
  <2>2. J[n + 1] = Around(J[n])
    BY <2>1 DEF Levels
  <2>3. ASSUME NEW u \in J[n + 1], Compound(u), NEW m \in DOMAIN Members(u)
        PROVE  Members(u)[m] \in J[n]
    <3>1. CASE u \in J[n]
      <4>1. n > 0 /\ Members(u)[m] \in J[n - 1]
        BY <1>2, <2>3, <3>1
      <4>2. n \in 1..h
        BY <4>1
      <4> QED
        BY <4>1, <4>2, LevelsGrow
    <3>2. CASE \E items \in Seq(J[n]) : u = Array(items)
      <4>1. PICK items \in Seq(J[n]) : u = Array(items)
        BY <3>2
      <4>2. Members(u) = items
        BY <4>1, KindsAreTold, Zenon DEF Members
      <4>3. \A i \in DOMAIN items : items[i] \in J[n]
        OBVIOUS
      <4> QED
        BY <2>3, <4>2, <4>3, Zenon
    <3>3. CASE \E names : \E fields \in [names -> J[n]] : u = Object(fields)
      <4>1. PICK names : \E fields \in [names -> J[n]] : u = Object(fields)
        BY <3>3
      <4>2. PICK fields \in [names -> J[n]] : u = Object(fields)
        BY <4>1
      <4>3. Members(u) = fields
        BY <4>2, KindsAreTold, Zenon DEF Members
      <4>4. \A i \in DOMAIN fields : fields[i] \in J[n]
        OBVIOUS
      <4> QED
        BY <2>3, <4>3, <4>4, Zenon
    <3> QED
      BY <2>2, <3>1, <3>2, <3>3, WhatIsAround
  <2>4. Inside(n + 1)
    BY <2>1, <2>3
  <2> QED
    BY <2>1, <2>4
<1>3. 0..h \subseteq S
  <2> HIDE DEF S
  <2> QED
    BY <1>1, <1>2, InductionUpTo
<1> QED
  BY <1>3

-----------------------------------------------------------------------------

\* The parts of a value: it, and what is in it, down to the leaves.
InsideOf(u) == IF Compound(u) THEN {Members(u)[m] : m \in DOMAIN Members(u)} ELSE {}
InsideAll(S) == UNION {InsideOf(u) : u \in S}

LEMMA InsideStays ==
    ASSUME NEW h \in Nat, NEW J, Levels(J, h), NEW u \in J[h]
    PROVE  InsideOf(u) \subseteq J[h]
<1>1. ASSUME Compound(u), NEW m \in DOMAIN Members(u) PROVE Members(u)[m] \in J[h]
  <2>1. h \in 0..h /\ h > 0 /\ Members(u)[m] \in J[h - 1]
    BY <1>1, MembersInside
  <2>2. h \in 1..h
    BY <2>1
  <2> QED
    BY <2>1, <2>2, LevelsGrow
<1> QED
  BY <1>1 DEF InsideOf

LEMMA LayerSolves ==
    ASSUME NEW h \in Nat, NEW J, Levels(J, h), NEW v \in J[h]
    PROVE  /\ Layer(v)[0] = {v}
           /\ \A n \in Nat : Layer(v)[n + 1] = InsideAll(Layer(v)[n]) /\ Layer(v)[n] \subseteq J[h]
<1> DEFINE Solves(g) == g = [depth \in Nat |-> IF depth = 0 THEN {v} ELSE InsideAll(g[depth - 1])]
           layer == CHOOSE g : Solves(g)
<1>1. Layer(v) = layer
  BY DEF Layer, InsideAll, InsideOf
<1>2. PICK A : A = SUBSET J[h]
  OBVIOUS
<1>3. PICK step : step = [p \in Nat \X A |-> InsideAll(p[2])]
  OBVIOUS
<1>4. \A n \in Nat, T \in A : step[<<n, T>>] = InsideAll(T)
  BY <1>3
<1>5. StepOn(A, step)
  <2>1. \A p \in Nat \X A : InsideAll(p[2]) \in A
    <3>1. \A T \in SUBSET J[h] : InsideAll(T) \subseteq J[h]
      BY InsideStays, Zenon DEF InsideAll
    <3> QED
      BY <1>2, <3>1
  <2> QED
    BY <1>3, <2>1 DEF StepOn
<1>6. {v} \in A
  BY <1>2
<1>7. PICK f : Recurses(f, A, {v}, step)
  BY <1>5, <1>6, Recursion
<1>8. f \in [Nat -> A] /\ f[0] = {v} /\ \A n \in Nat : f[n + 1] = InsideAll(f[n])
  BY <1>4, <1>7 DEF Recurses
<1>9. \A n \in Nat : n # 0 => n - 1 \in Nat /\ (n - 1) + 1 = n
  OBVIOUS
<1>10. \A n \in Nat : f[n] = IF n = 0 THEN {v} ELSE InsideAll(f[n - 1])
  BY <1>8, <1>9
<1>11. f = [n \in Nat |-> f[n]]
  BY <1>8
<1>12. Solves(f)
  BY <1>10, <1>11
<1>13. Solves(layer)
  BY <1>12
<1> HIDE DEF layer
<1>14. \A n \in Nat : layer[n] = IF n = 0 THEN {v} ELSE InsideAll(layer[n - 1])
  BY <1>13
<1>15. layer[0] = {v} /\ \A n \in Nat : layer[n + 1] = InsideAll(layer[n])
  BY <1>14
<1> DEFINE Within == {n \in Nat : layer[n] \subseteq J[h]}
<1>16. 0 \in Within
  BY <1>15
<1>17. ASSUME NEW n \in Nat, n \in Within PROVE n + 1 \in Within
  <2>1. layer[n] \subseteq J[h] /\ layer[n + 1] = InsideAll(layer[n])
    BY <1>15, <1>17
  <2>2. InsideAll(layer[n]) \subseteq J[h]
    BY <2>1, InsideStays, Zenon DEF InsideAll
  <2> QED
    BY <2>1, <2>2
<1>18. Nat \subseteq Within
  <2> HIDE DEF Within
  <2> QED
    BY <1>16, <1>17, Induction
<1> QED
  BY <1>1, <1>15, <1>18

\* A value that is nested h deep has h layers beside its own at most.
LEMMA LayersEnd ==
    ASSUME NEW h \in Nat, NEW J, Levels(J, h), NEW v \in J[h]
    PROVE  \A n \in Nat : n > h => Layer(v)[n] = {}
<1> DEFINE S == {n \in 0..h : Layer(v)[n] \subseteq J[h - n]}
<1>1. 0 \in S
  <2>1. h - 0 = h /\ 0 \in 0..h
    OBVIOUS
  <2> QED
    BY <2>1, LayerSolves
<1>2. ASSUME NEW n \in 0..(h - 1), n \in S PROVE n + 1 \in S
  <2>1. h - n \in 0..h /\ (h - n) - 1 = h - (n + 1) /\ n + 1 \in 0..h /\ n \in Nat
    OBVIOUS
  <2>2. Layer(v)[n + 1] = InsideAll(Layer(v)[n]) /\ Layer(v)[n] \subseteq J[h - n]
    BY <1>2, <2>1, LayerSolves
  <2>3. ASSUME NEW u \in J[h - n] PROVE InsideOf(u) \subseteq J[h - (n + 1)]
    BY <2>1, MembersInside DEF InsideOf
  <2>4. InsideAll(Layer(v)[n]) \subseteq J[h - (n + 1)]
    BY <2>2, <2>3, Zenon DEF InsideAll
  <2> QED
    BY <2>1, <2>2, <2>4
<1>3. 0..h \subseteq S
  <2> HIDE DEF S
  <2> QED
    BY <1>1, <1>2, InductionUpTo
<1>4. Layer(v)[h] \subseteq Leaf
  <2>1. h \in S /\ h - h = 0
    BY <1>3
  <2> QED
    BY <2>1 DEF Levels
<1> DEFINE T == {n \in Nat : Layer(v)[h + 1 + n] = {}}
<1>5. 0 \in T
  <2>1. Layer(v)[h + 1] = InsideAll(Layer(v)[h]) /\ h + 1 + 0 = h + 1
    BY LayerSolves
  <2>2. InsideAll(Layer(v)[h]) = {}
    BY <1>4, LeafIsSimple, Zenon DEF InsideAll, InsideOf
  <2> QED
    BY <2>1, <2>2
<1>6. ASSUME NEW n \in Nat, n \in T PROVE n + 1 \in T
  <2>1. PICK k \in Nat : k = h + 1 + n /\ h + 1 + (n + 1) = k + 1
    OBVIOUS
  <2>2. Layer(v)[k] = {}
    BY <1>6, <2>1
  <2>3. Layer(v)[k + 1] = InsideAll(Layer(v)[k])
    BY LayerSolves
  <2>4. InsideAll({}) = {}
    BY DEF InsideAll
  <2>5. Layer(v)[k + 1] = {}
    BY <2>2, <2>3, <2>4, Zenon
  <2> QED
    BY <2>1, <2>5
<1>7. Nat \subseteq T
  <2> HIDE DEF T
  <2> QED
    BY <1>5, <1>6, Induction
<1>8. ASSUME NEW n \in Nat, n > h PROVE Layer(v)[n] = {}
  <2>1. n - (h + 1) \in Nat /\ h + 1 + (n - (h + 1)) = n
    BY <1>8
  <2>2. n - (h + 1) \in T
    BY <1>7, <2>1
  <2>3. Layer(v)[h + 1 + (n - (h + 1))] = {}
    BY <2>2
  <2> QED
    BY <2>1, <2>3
<1> QED
  BY <1>8

LEMMA PartsAreLayers ==
    ASSUME NEW h \in Nat, NEW J, Levels(J, h), NEW v \in J[h]
    PROVE  Parts(v) = UNION {Layer(v)[n] : n \in Nat}
<1>0. \A n \in Nat : Layer(v)[n + 1] = InsideAll(Layer(v)[n])
  BY LayerSolves
<1> DEFINE Solves(g) == g = [depth \in Nat |->
                IF Layer(v)[depth] = {} THEN {} ELSE Layer(v)[depth] \union g[depth + 1]]
           from == CHOOSE g : Solves(g)
           rest == [depth \in Nat |-> UNION {Layer(v)[n] : n \in {k \in Nat : k >= depth}}]
<1>1. Parts(v) = from[0]
  BY DEF Parts
<1>2. \A n \in Nat : n > h => Layer(v)[n] = {}
  BY LayersEnd
<1> DEFINE Empty(d) == {k \in Nat : Layer(v)[d + k] = {}}
<1>3. ASSUME NEW d \in Nat, Layer(v)[d] = {} PROVE \A k \in Nat : Layer(v)[d + k] = {}
  <2>1. 0 \in Empty(d)
    BY <1>3
  <2>2. ASSUME NEW k \in Nat, k \in Empty(d) PROVE k + 1 \in Empty(d)
    <3>1. PICK n \in Nat : n = d + k /\ d + (k + 1) = n + 1
      OBVIOUS
    <3>2. Layer(v)[n] = {}
      BY <2>2, <3>1
    <3>3. Layer(v)[n + 1] = InsideAll(Layer(v)[n])
      BY <1>0
    <3>4. InsideAll({}) = {}
      BY DEF InsideAll
    <3>5. Layer(v)[n + 1] = {}
      BY <3>2, <3>3, <3>4, Zenon
    <3> QED
      BY <3>1, <3>5
  <2>3. Nat \subseteq Empty(d)
    <3> HIDE DEF Empty
    <3> QED
      BY <2>1, <2>2, Induction
  <2> QED
    BY <2>3
<1>4. ASSUME NEW d \in Nat
      PROVE  rest[d] = IF Layer(v)[d] = {} THEN {} ELSE Layer(v)[d] \union rest[d + 1]
  <2>1. {k \in Nat : k >= d} = {d} \union {k \in Nat : k >= d + 1}
    OBVIOUS
  <2>2. d + 1 \in Nat
    OBVIOUS
  <2>3. rest[d] = Layer(v)[d] \union rest[d + 1]
    BY <2>1, <2>2
  <2>4. CASE Layer(v)[d] = {}
    <3>1. \A k \in Nat : k >= d => k - d \in Nat /\ d + (k - d) = k
      OBVIOUS
    <3>2. \A k \in Nat : k >= d => Layer(v)[k] = {}
      BY <1>3, <2>4, <3>1
    <3>3. rest[d] = {}
      BY <3>2
    <3> QED
      BY <2>4, <3>3
  <2> QED
    BY <2>3, <2>4
<1>5. Solves(rest)
  BY <1>4
<1>6. Solves(from)
  BY <1>5
<1> HIDE DEF from
<1>7. \A d \in Nat :
         from[d] = IF Layer(v)[d] = {} THEN {} ELSE Layer(v)[d] \union from[d + 1]
  BY <1>6
<1> DEFINE Same == {k \in 0..(h + 1) : from[h + 1 - k] = rest[h + 1 - k]}
<1> HIDE DEF rest
<1>8. 0 \in Same
  <2>1. h + 1 - 0 = h + 1 /\ h + 1 \in Nat /\ h + 1 > h /\ 0 \in 0..(h + 1)
    OBVIOUS
  <2>2. from[h + 1] = {} /\ rest[h + 1] = {}
    BY <1>2, <1>4, <1>7, <2>1
  <2> QED
    BY <2>1, <2>2
<1>9. ASSUME NEW k \in 0..((h + 1) - 1), k \in Same PROVE k + 1 \in Same
  <2>1. PICK d \in Nat : d = h + 1 - (k + 1) /\ d + 1 = h + 1 - k
    <3>1. h + 1 - (k + 1) \in Nat /\ (h + 1 - (k + 1)) + 1 = h + 1 - k
      OBVIOUS
    <3> QED
      BY <3>1
  <2>2. from[d + 1] = rest[d + 1]
    BY <1>9, <2>1
  <2>3. from[d] = rest[d]
    BY <1>4, <1>7, <2>2
  <2>4. k + 1 \in 0..(h + 1)
    OBVIOUS
  <2> QED
    BY <2>1, <2>3, <2>4
<1>10. 0..(h + 1) \subseteq Same
  <2>1. h + 1 \in Nat
    OBVIOUS
  <2> HIDE DEF Same
  <2> QED
    BY <1>8, <1>9, <2>1, InductionUpTo
<1>11. h + 1 \in 0..(h + 1) /\ h + 1 - (h + 1) = 0
  OBVIOUS
<1>12. from[0] = rest[0]
  BY <1>10, <1>11
<1>13. rest[0] = UNION {Layer(v)[n] : n \in {k \in Nat : k >= 0}} /\ {k \in Nat : k >= 0} = Nat
  BY DEF rest
<1> QED
  BY <1>1, <1>12, <1>13

\* What the lemmas below use of it.
LEMMA PartsAreInside ==
    ASSUME NEW h \in Nat, NEW J, Levels(J, h), NEW v \in J[h]
    PROVE  /\ v \in Parts(v) /\ Parts(v) \subseteq J[h]
           /\ \A u \in Parts(v) : InsideOf(u) \subseteq Parts(v)
<1>1. Parts(v) = UNION {Layer(v)[n] : n \in Nat}
  BY PartsAreLayers
<1>2. \A n \in Nat : n + 1 \in Nat
  OBVIOUS
<1>3. ASSUME NEW n \in Nat, NEW u \in Layer(v)[n] PROVE InsideOf(u) \subseteq Layer(v)[n + 1]
  <2>1. Layer(v)[n + 1] = InsideAll(Layer(v)[n])
    BY LayerSolves
  <2> QED
    BY <2>1, Zenon DEF InsideAll
<1>4. v \in Layer(v)[0] /\ \A n \in Nat : Layer(v)[n] \subseteq J[h]
  BY LayerSolves
<1>5. 0 \in Nat
  OBVIOUS
<1> QED
  BY <1>1, <1>2, <1>3, <1>4, <1>5

LEMMA PartsWithin ==
    ASSUME NEW h \in Nat, NEW J, Levels(J, h), NEW v \in J[h],
           NEW S, v \in S, \A u \in S : u \in Parts(v) => InsideOf(u) \subseteq S
    PROVE  Parts(v) \subseteq S
<1>1. Parts(v) = UNION {Layer(v)[n] : n \in Nat}
  BY PartsAreLayers
<1> DEFINE T == {n \in Nat : Layer(v)[n] \subseteq S}
<1>2. 0 \in T
  BY LayerSolves
<1>3. ASSUME NEW n \in Nat, n \in T PROVE n + 1 \in T
  <2>1. Layer(v)[n + 1] = InsideAll(Layer(v)[n])
    BY LayerSolves
  <2>2. Layer(v)[n] \subseteq S /\ Layer(v)[n] \subseteq Parts(v)
    BY <1>1, <1>3
  <2>3. InsideAll(Layer(v)[n]) \subseteq S
    BY <2>2, Zenon DEF InsideAll
  <2> QED
    BY <2>1, <2>3
<1>4. Nat \subseteq T
  <2> HIDE DEF T
  <2> QED
    BY <1>2, <1>3, Induction
<1> QED
  BY <1>1, <1>4

-----------------------------------------------------------------------------

\* Conversions.  The values that a conversion has a form for are the domain of
\* `forms'; Converts(f, P, forms) is the recursion of Converted().
Mapped(f, u, forms) ==
    IF u \in DOMAIN forms THEN forms[u]
    ELSE IF Is(u, "array") THEN Array([m \in DOMAIN Members(u) |-> f[Members(u)[m]]])
    ELSE IF Is(u, "object") THEN Object([m \in DOMAIN Members(u) |-> f[Members(u)[m]]])
    ELSE u
Converts(f, P, forms) == \A u \in P : f[u] = Mapped(f, u, forms)

LEMMA MappedAlike ==
    ASSUME NEW f, NEW g, NEW u, NEW forms, \A w \in InsideOf(u) : f[w] = g[w]
    PROVE  Mapped(f, u, forms) = Mapped(g, u, forms)
<1>1. CASE Compound(u)
  <2>1. \A m \in DOMAIN Members(u) : f[Members(u)[m]] = g[Members(u)[m]]
    BY <1>1 DEF InsideOf
  <2>2. [m \in DOMAIN Members(u) |-> f[Members(u)[m]]] = [m \in DOMAIN Members(u) |-> g[Members(u)[m]]]
    BY <2>1
  <2> QED
    BY <2>2, Zenon DEF Mapped
<1>2. CASE ~Compound(u)
  BY <1>2, Zenon DEF Mapped, Compound
<1> QED
  BY <1>1, <1>2

LEMMA ConversionExists ==
    ASSUME NEW h \in Nat, NEW J, Levels(J, h), NEW forms
    PROVE  \E f : Converts(f, J[h], forms)
<1> DEFINE S == {n \in 0..h : \E f : Converts(f, J[n], forms)}
<1>1. 0 \in S
  <2>1. J[0] = Leaf /\ 0 \in 0..h
    BY DEF Levels
  <2>2. PICK f : f = [u \in Leaf |-> IF u \in DOMAIN forms THEN forms[u] ELSE u]
    OBVIOUS
  <2>3. ASSUME NEW u \in Leaf PROVE f[u] = Mapped(f, u, forms)
    <3>1. ~Is(u, "array") /\ ~Is(u, "object")
      BY LeafIsSimple DEF Compound
    <3>2. f[u] = IF u \in DOMAIN forms THEN forms[u] ELSE u
      BY <2>2
    <3> QED
      BY <3>1, <3>2, Zenon DEF Mapped
  <2>4. Converts(f, J[0], forms)
    BY <2>1, <2>3 DEF Converts
  <2> QED
    BY <2>1, <2>4
<1>2. ASSUME NEW n \in 0..(h - 1), n \in S PROVE n + 1 \in S
  <2>1. n + 1 \in 0..h /\ n + 1 \in 1..h /\ (n + 1) - 1 = n
    OBVIOUS
  <2>2. PICK f : Converts(f, J[n], forms)
    BY <1>2
  <2>3. PICK g : g = [u \in J[n + 1] |-> Mapped(f, u, forms)]
    OBVIOUS
  <2>4. J[n] \subseteq J[n + 1]
    BY <2>1, LevelsGrow
  <2>5. \A w \in J[n] : f[w] = g[w]
    BY <2>2, <2>3, <2>4 DEF Converts
  <2>6. ASSUME NEW u \in J[n + 1] PROVE g[u] = Mapped(g, u, forms)
    <3>1. InsideOf(u) \subseteq J[n]
      BY <2>1, MembersInside DEF InsideOf
    <3>2. \A w \in InsideOf(u) : f[w] = g[w]
      BY <2>5, <3>1
    <3>3. Mapped(f, u, forms) = Mapped(g, u, forms)
      BY <3>2, MappedAlike
    <3> QED
      BY <2>3, <3>3
  <2>7. Converts(g, J[n + 1], forms)
    BY <2>6 DEF Converts
  <2> QED
    BY <2>1, <2>7
<1>3. 0..h \subseteq S
  <2> HIDE DEF S
  <2> QED
    BY <1>1, <1>2, InductionUpTo
<1>4. h \in 0..h
  OBVIOUS
<1> QED
  BY <1>3, <1>4

LEMMA ConversionIsOne ==
    ASSUME NEW h \in Nat, NEW J, Levels(J, h), NEW forms, NEW f, Converts(f, J[h], forms),
           NEW P, P \subseteq J[h], \A u \in P : InsideOf(u) \subseteq P,
           NEW g, Converts(g, P, forms)
    PROVE  \A u \in P : g[u] = f[u]
<1> DEFINE S == {n \in 0..h : \A u \in P : u \in J[n] => g[u] = f[u]}
<1>1. ASSUME NEW u \in P, \A w \in InsideOf(u) : g[w] = f[w] PROVE g[u] = f[u]
  <2>1. g[u] = Mapped(g, u, forms) /\ f[u] = Mapped(f, u, forms)
    BY DEF Converts
  <2>2. Mapped(g, u, forms) = Mapped(f, u, forms)
    BY <1>1, MappedAlike
  <2> QED
    BY <2>1, <2>2
<1>2. 0 \in S
  <2>1. J[0] = Leaf /\ 0 \in 0..h
    BY DEF Levels
  <2>2. \A u \in Leaf : InsideOf(u) = {}
    BY LeafIsSimple DEF InsideOf
  <2> QED
    BY <1>1, <2>1, <2>2
<1>3. ASSUME NEW n \in 0..(h - 1), n \in S PROVE n + 1 \in S
  <2>1. n + 1 \in 0..h /\ (n + 1) - 1 = n
    OBVIOUS
  <2>2. \A u \in P : u \in J[n] => g[u] = f[u]
    BY <1>3
  <2>3. ASSUME NEW u \in P, u \in J[n + 1] PROVE g[u] = f[u]
    <3>1. InsideOf(u) \subseteq J[n]
      BY <2>1, <2>3, MembersInside DEF InsideOf
    <3>2. InsideOf(u) \subseteq P
      OBVIOUS
    <3> QED
      BY <1>1, <2>2, <3>1, <3>2
  <2> QED
    BY <2>1, <2>3
<1>4. 0..h \subseteq S
  <2> HIDE DEF S
  <2> QED
    BY <1>2, <1>3, InductionUpTo
<1>5. h \in S
  BY <1>4
<1> QED
  BY <1>5

\* The parts of a value are all a conversion looks at.
ConvertsIn(g, P, forms) == g = [u \in P |-> Mapped(g, u, forms)]

LEMMA ConversionOfParts ==
    ASSUME NEW h \in Nat, NEW J, Levels(J, h), NEW v \in J[h], NEW forms,
           NEW f, Converts(f, J[h], forms)
    PROVE  /\ \E g : ConvertsIn(g, Parts(v), forms)
           /\ \A g : ConvertsIn(g, Parts(v), forms) => g[v] = f[v]
<1>1. /\ v \in Parts(v) /\ Parts(v) \subseteq J[h]
      /\ \A u \in Parts(v) : InsideOf(u) \subseteq Parts(v)
  BY PartsAreInside
<1>2. PICK P : P = Parts(v)
  OBVIOUS
<1>3. PICK g : g = [u \in P |-> f[u]]
  OBVIOUS
<1>4. ASSUME NEW u \in P PROVE g[u] = Mapped(g, u, forms)
  <2>1. \A w \in InsideOf(u) : g[w] = f[w]
    BY <1>1, <1>2, <1>3
  <2>2. Mapped(g, u, forms) = Mapped(f, u, forms)
    BY <2>1, MappedAlike
  <2>3. f[u] = Mapped(f, u, forms)
    BY <1>1, <1>2 DEF Converts
  <2> QED
    BY <1>3, <2>2, <2>3
<1>5. g = [u \in P |-> Mapped(g, u, forms)]
  BY <1>3, <1>4
<1>6. ASSUME NEW k, k = [u \in P |-> Mapped(k, u, forms)] PROVE k[v] = f[v]
  <2>1. Converts(k, P, forms)
    BY <1>6, Zenon DEF Converts
  <2> QED
    BY <1>1, <1>2, <2>1, ConversionIsOne
<1> QED
  BY <1>2, <1>5, <1>6 DEF ConvertsIn

\* What each conversion has a form for, in a set of values.
NumbersForms(P) == [u \in {w \in P : IsBytes(w)} |-> Array([i \in DOMAIN u.bytes |-> Number(u.bytes[i])])]
BytesForms(P) == [u \in {w \in P : LooksLikeBytes(w)} |-> Uint8Array([i \in DOMAIN u.array |-> u.array[i].number % ByteValues])]
HexForms(P) == [u \in {w \in P : IsBytes(w)} |-> String(Digits(u.bytes))]
ReadForms(P) == [u \in {w \in P : LooksLikeHex(w)} |-> Uint8Array(Pairs(u.string))]

LEMMA NumbersConverted ==
    ASSUME NEW h \in Nat, NEW J, Levels(J, h), NEW v \in J[h],
           NEW f, Converts(f, J[h], NumbersForms(J[h]))
    PROVE  serializeWithUint8Array(v) = f[v]
<1> DEFINE Body(g, part) ==
              IF IsBytes(part) THEN Array([i \in DOMAIN part.bytes |-> Number(part.bytes[i])])
              ELSE IF Is(part, "array") THEN Array([m \in DOMAIN Members(part) |-> g[Members(part)[m]]])
              ELSE IF Is(part, "object") THEN Object([m \in DOMAIN Members(part) |-> g[Members(part)[m]]])
              ELSE part
           converted == CHOOSE g : g = [part \in Parts(v) |-> Body(g, part)]
<1>1. serializeWithUint8Array(v) = converted[v]
  BY DEF serializeWithUint8Array, Converted
<1>2. PICK forms : forms = NumbersForms(J[h])
  OBVIOUS
<1>3. Parts(v) \subseteq J[h]
  BY PartsAreInside
<1>4. ASSUME NEW u \in J[h]
      PROVE  /\ u \in DOMAIN forms <=> IsBytes(u)
             /\ IsBytes(u) => forms[u] = Array([i \in DOMAIN u.bytes |-> Number(u.bytes[i])])
  BY <1>2 DEF NumbersForms
<1>5. ASSUME NEW g, NEW part \in Parts(v) PROVE Body(g, part) = Mapped(g, part, forms)
  BY <1>3, <1>4, Zenon DEF Mapped
<1>6. \A g : [part \in Parts(v) |-> Body(g, part)] = [part \in Parts(v) |-> Mapped(g, part, forms)]
  <2> HIDE DEF Body
  <2> QED
    BY <1>5
<1>7. /\ \E g : ConvertsIn(g, Parts(v), forms)
      /\ \A g : ConvertsIn(g, Parts(v), forms) => g[v] = f[v]
  <2>1. Converts(f, J[h], forms)
    BY <1>2
  <2> QED
    BY <2>1, ConversionOfParts
<1> HIDE DEF Body
<1>8. PICK g : g = [part \in Parts(v) |-> Body(g, part)]
  BY <1>6, <1>7 DEF ConvertsIn
<1>9. converted = [part \in Parts(v) |-> Body(converted, part)]
  BY <1>8
<1> HIDE DEF converted
<1>10. ConvertsIn(converted, Parts(v), forms)
  BY <1>6, <1>9 DEF ConvertsIn
<1> QED
  BY <1>1, <1>7, <1>10

LEMMA BytesConverted ==
    ASSUME NEW h \in Nat, NEW J, Levels(J, h), NEW v \in J[h],
           NEW f, Converts(f, J[h], BytesForms(J[h]))
    PROVE  deserializeWithUint8Array(v) = f[v]
<1> DEFINE Body(g, part) ==
              IF LooksLikeBytes(part) THEN Uint8Array([i \in DOMAIN part.array |-> part.array[i].number % ByteValues])
              ELSE IF Is(part, "array") THEN Array([m \in DOMAIN Members(part) |-> g[Members(part)[m]]])
              ELSE IF Is(part, "object") THEN Object([m \in DOMAIN Members(part) |-> g[Members(part)[m]]])
              ELSE part
           converted == CHOOSE g : g = [part \in Parts(v) |-> Body(g, part)]
<1>1. deserializeWithUint8Array(v) = converted[v]
  BY DEF deserializeWithUint8Array, Converted
<1>2. PICK forms : forms = BytesForms(J[h])
  OBVIOUS
<1>3. Parts(v) \subseteq J[h]
  BY PartsAreInside
<1>4. ASSUME NEW u \in J[h]
      PROVE  /\ u \in DOMAIN forms <=> LooksLikeBytes(u)
             /\ LooksLikeBytes(u) => forms[u] = Uint8Array([i \in DOMAIN u.array |-> u.array[i].number % ByteValues])
  BY <1>2 DEF BytesForms
<1>5. ASSUME NEW g, NEW part \in Parts(v) PROVE Body(g, part) = Mapped(g, part, forms)
  BY <1>3, <1>4, Zenon DEF Mapped
<1>6. \A g : [part \in Parts(v) |-> Body(g, part)] = [part \in Parts(v) |-> Mapped(g, part, forms)]
  <2> HIDE DEF Body
  <2> QED
    BY <1>5
<1>7. /\ \E g : ConvertsIn(g, Parts(v), forms)
      /\ \A g : ConvertsIn(g, Parts(v), forms) => g[v] = f[v]
  <2>1. Converts(f, J[h], forms)
    BY <1>2
  <2> QED
    BY <2>1, ConversionOfParts
<1> HIDE DEF Body
<1>8. PICK g : g = [part \in Parts(v) |-> Body(g, part)]
  BY <1>6, <1>7 DEF ConvertsIn
<1>9. converted = [part \in Parts(v) |-> Body(converted, part)]
  BY <1>8
<1> HIDE DEF converted
<1>10. ConvertsIn(converted, Parts(v), forms)
  BY <1>6, <1>9 DEF ConvertsIn
<1> QED
  BY <1>1, <1>7, <1>10

LEMMA HexConverted ==
    ASSUME NEW h \in Nat, NEW J, Levels(J, h), NEW v \in J[h],
           NEW f, Converts(f, J[h], HexForms(J[h]))
    PROVE  serializeToHexString(v) = f[v]
<1> DEFINE Body(g, part) ==
              IF IsBytes(part) THEN String(Digits(part.bytes))
              ELSE IF Is(part, "array") THEN Array([m \in DOMAIN Members(part) |-> g[Members(part)[m]]])
              ELSE IF Is(part, "object") THEN Object([m \in DOMAIN Members(part) |-> g[Members(part)[m]]])
              ELSE part
           converted == CHOOSE g : g = [part \in Parts(v) |-> Body(g, part)]
<1>1. serializeToHexString(v) = converted[v]
  BY DEF serializeToHexString, Converted
<1>2. PICK forms : forms = HexForms(J[h])
  OBVIOUS
<1>3. Parts(v) \subseteq J[h]
  BY PartsAreInside
<1>4. ASSUME NEW u \in J[h]
      PROVE  /\ u \in DOMAIN forms <=> IsBytes(u)
             /\ IsBytes(u) => forms[u] = String(Digits(u.bytes))
  BY <1>2 DEF HexForms
<1>5. ASSUME NEW g, NEW part \in Parts(v) PROVE Body(g, part) = Mapped(g, part, forms)
  BY <1>3, <1>4, Zenon DEF Mapped
<1>6. \A g : [part \in Parts(v) |-> Body(g, part)] = [part \in Parts(v) |-> Mapped(g, part, forms)]
  <2> HIDE DEF Body
  <2> QED
    BY <1>5
<1>7. /\ \E g : ConvertsIn(g, Parts(v), forms)
      /\ \A g : ConvertsIn(g, Parts(v), forms) => g[v] = f[v]
  <2>1. Converts(f, J[h], forms)
    BY <1>2
  <2> QED
    BY <2>1, ConversionOfParts
<1> HIDE DEF Body
<1>8. PICK g : g = [part \in Parts(v) |-> Body(g, part)]
  BY <1>6, <1>7 DEF ConvertsIn
<1>9. converted = [part \in Parts(v) |-> Body(converted, part)]
  BY <1>8
<1> HIDE DEF converted
<1>10. ConvertsIn(converted, Parts(v), forms)
  BY <1>6, <1>9 DEF ConvertsIn
<1> QED
  BY <1>1, <1>7, <1>10

LEMMA ReadConverted ==
    ASSUME NEW h \in Nat, NEW J, Levels(J, h), NEW v \in J[h],
           NEW f, Converts(f, J[h], ReadForms(J[h]))
    PROVE  deserializeFromHexString(v) = f[v]
<1> DEFINE Body(g, part) ==
              IF LooksLikeHex(part) THEN Uint8Array(Pairs(part.string))
              ELSE IF Is(part, "array") THEN Array([m \in DOMAIN Members(part) |-> g[Members(part)[m]]])
              ELSE IF Is(part, "object") THEN Object([m \in DOMAIN Members(part) |-> g[Members(part)[m]]])
              ELSE part
           converted == CHOOSE g : g = [part \in Parts(v) |-> Body(g, part)]
<1>1. deserializeFromHexString(v) = converted[v]
  BY DEF deserializeFromHexString, Converted
<1>2. PICK forms : forms = ReadForms(J[h])
  OBVIOUS
<1>3. Parts(v) \subseteq J[h]
  BY PartsAreInside
<1>4. ASSUME NEW u \in J[h]
      PROVE  /\ u \in DOMAIN forms <=> LooksLikeHex(u)
             /\ LooksLikeHex(u) => forms[u] = Uint8Array(Pairs(u.string))
  BY <1>2 DEF ReadForms
<1>5. ASSUME NEW g, NEW part \in Parts(v) PROVE Body(g, part) = Mapped(g, part, forms)
  BY <1>3, <1>4, Zenon DEF Mapped
<1>6. \A g : [part \in Parts(v) |-> Body(g, part)] = [part \in Parts(v) |-> Mapped(g, part, forms)]
  <2> HIDE DEF Body
  <2> QED
    BY <1>5
<1>7. /\ \E g : ConvertsIn(g, Parts(v), forms)
      /\ \A g : ConvertsIn(g, Parts(v), forms) => g[v] = f[v]
  <2>1. Converts(f, J[h], forms)
    BY <1>2
  <2> QED
    BY <2>1, ConversionOfParts
<1> HIDE DEF Body
<1>8. PICK g : g = [part \in Parts(v) |-> Body(g, part)]
  BY <1>6, <1>7 DEF ConvertsIn
<1>9. converted = [part \in Parts(v) |-> Body(converted, part)]
  BY <1>8
<1> HIDE DEF converted
<1>10. ConvertsIn(converted, Parts(v), forms)
  BY <1>6, <1>9 DEF ConvertsIn
<1> QED
  BY <1>1, <1>7, <1>10

-----------------------------------------------------------------------------

\* A conversion and the one back.  A value is restored when each of its parts is
\* where the conversions meet it.

LEMMA CompoundsAreMembers ==
    ASSUME NEW h \in Nat, NEW J, Levels(J, h)
    PROVE  \A n \in 0..h : \A u \in J[n] : Compound(u) =>
               /\ Members(u) = [m \in DOMAIN Members(u) |-> Members(u)[m]]
               /\ \/ /\ Is(u, "array") /\ u = Array(Members(u))
                     /\ n > 0 /\ Members(u) \in Seq(J[n - 1])
                  \/ /\ ~Is(u, "array") /\ Is(u, "object") /\ u = Object(Members(u))
                     /\ n > 0 /\ DOMAIN Members(u) \subseteq Name
                     /\ Members(u) \in [DOMAIN Members(u) -> J[n - 1]]
<1> DEFINE Made(n, u) ==
               /\ Members(u) = [m \in DOMAIN Members(u) |-> Members(u)[m]]
               /\ \/ /\ Is(u, "array") /\ u = Array(Members(u))
                     /\ n > 0 /\ Members(u) \in Seq(J[n - 1])
                  \/ /\ ~Is(u, "array") /\ Is(u, "object") /\ u = Object(Members(u))
                     /\ n > 0 /\ DOMAIN Members(u) \subseteq Name
                     /\ Members(u) \in [DOMAIN Members(u) -> J[n - 1]]
           S == {n \in 0..h : \A u \in J[n] : Compound(u) => Made(n, u)}
<1>1. 0 \in S
  <2>1. J[0] = Leaf /\ 0 \in 0..h
    BY DEF Levels
  <2> HIDE DEF Made
  <2> QED
    BY <2>1, LeafIsSimple
<1>2. ASSUME NEW n \in 0..(h - 1), n \in S PROVE n + 1 \in S
  <2>1. n + 1 \in 1..h /\ n + 1 \in 0..h /\ (n + 1) - 1 = n /\ n + 1 > 0
    OBVIOUS
  <2>2. J[n + 1] = Around(J[n])
    BY <2>1 DEF Levels
  <2>3. ASSUME NEW u \in J[n + 1], Compound(u) PROVE Made(n + 1, u)
    <3>1. CASE u \in J[n]
      <4>1. Made(n, u)
        BY <1>2, <2>3, <3>1
      <4>2. n > 0 => J[n - 1] \subseteq J[n]
        BY LevelsGrow
      <4>3. n > 0
        BY <4>1
      <4>4. Seq(J[n - 1]) \subseteq Seq(J[n])
        <5>1. J[n - 1] \subseteq J[n]
          BY <4>2, <4>3
        <5> QED
          BY <5>1
      <4>5. [DOMAIN Members(u) -> J[n - 1]] \subseteq [DOMAIN Members(u) -> J[n]]
        BY <4>2, <4>3
      <4> QED
        BY <2>1, <4>1, <4>4, <4>5
    <3>2. CASE \E items \in Seq(J[n]) : u = Array(items)
      <4>1. PICK items \in Seq(J[n]) : u = Array(items)
        BY <3>2
      <4>2. Members(u) = items /\ Is(u, "array")
        BY <4>1, KindsAreTold, Zenon DEF Members
      <4>3. items = [m \in DOMAIN items |-> items[m]]
        OBVIOUS
      <4> QED
        BY <2>1, <4>1, <4>2, <4>3
    <3>3. CASE \E names : \E fields \in [names -> J[n]] : u = Object(fields)
      <4>1. CASE u \in J[n]
        BY <3>1, <4>1
      <4>2. CASE u \notin J[n]
        <5>1. PICK names \in SUBSET Name : \E fields \in [names -> J[n]] : u = Object(fields)
          <6>1. u \notin {Array(items) : items \in Seq(J[n])}
            <7>1. Is(u, "object") /\ ~Is(u, "array")
              BY <3>3, KindsAreTold, Zenon
            <7> QED
              BY <7>1, KindsAreTold, Zenon
          <6>2. u \in {Object(fields) : fields \in UNION {[names -> J[n]] : names \in SUBSET Name}}
            BY <2>2, <4>2, <6>1 DEF Around
          <6> QED
            BY <6>2
        <5>2. PICK fields \in [names -> J[n]] : u = Object(fields)
          BY <5>1
        <5>3. Members(u) = fields /\ Is(u, "object") /\ ~Is(u, "array")
          BY <5>2, KindsAreTold, Zenon DEF Members
        <5>4. fields = [m \in DOMAIN fields |-> fields[m]] /\ DOMAIN fields = names
          OBVIOUS
        <5> QED
          BY <2>1, <5>2, <5>3, <5>4
      <4> QED
        BY <4>1, <4>2
    <3> QED
      BY <2>2, <3>1, <3>2, <3>3, WhatIsAround
  <2> HIDE DEF Made
  <2> QED
    BY <2>1, <2>3
<1>3. 0..h \subseteq S
  <2> HIDE DEF S
  <2> QED
    BY <1>1, <1>2, InductionUpTo
<1> QED
  BY <1>3

LEMMA LevelsBelow ==
    ASSUME NEW h \in Nat, NEW J, Levels(J, h) PROVE \A n \in 0..h : J[n] \subseteq J[h]
<1> DEFINE S == {k \in 0..h : J[h - k] \subseteq J[h]}
<1>1. 0 \in S
  OBVIOUS
<1>2. ASSUME NEW k \in 0..(h - 1), k \in S PROVE k + 1 \in S
  <2>1. h - k \in 1..h /\ (h - k) - 1 = h - (k + 1) /\ k + 1 \in 0..h
    OBVIOUS
  <2>2. J[(h - k) - 1] \subseteq J[h - k]
    BY <2>1, LevelsGrow
  <2>3. J[h - k] \subseteq J[h]
    BY <1>2
  <2>4. J[h - (k + 1)] \subseteq J[h]
    BY <2>1, <2>2, <2>3, Zenon
  <2> QED
    BY <2>1, <2>4
<1>3. 0..h \subseteq S
  <2> HIDE DEF S
  <2> QED
    BY <1>1, <1>2, InductionUpTo
<1>4. ASSUME NEW n \in 0..h PROVE J[n] \subseteq J[h]
  <2>1. h - n \in 0..h /\ h - (h - n) = n
    OBVIOUS
  <2>2. J[h - (h - n)] \subseteq J[h]
    BY <1>3, <2>1
  <2> QED
    BY <2>1, <2>2
<1> QED
  BY <1>4

\* What is written is nested one level more.
LEMMA ConvertedLevel ==
    ASSUME NEW h \in Nat, NEW J, Levels(J, h + 1), NEW forms, NEW f, Converts(f, J[h], forms),
           \A u \in J[h] : u \in DOMAIN forms => forms[u] \in J[1]
    PROVE  \A u \in J[h] : f[u] \in J[h + 1]
<1> DEFINE S == {n \in 0..h : J[1] \subseteq J[n + 1] /\ \A u \in J[n] : f[u] \in J[n + 1]}
<1>1. \A n \in 0..h : Levels(J, h) /\ J[n] \subseteq J[h]
  <2>1. Levels(J, h)
    BY DEF Levels
  <2> QED
    BY <2>1, LevelsBelow
<1>2. 0 \in S
  <2>1. 0 \in 0..h /\ 0 + 1 = 1 /\ 1 \in 1..(h + 1) /\ 1 - 1 = 0 /\ h + 1 \in Nat
    OBVIOUS
  <2>2. J[0] \subseteq J[1]
    BY <2>1, LevelsGrow
  <2>3. ASSUME NEW u \in J[0] PROVE f[u] \in J[1]
    <3>1. u \in J[h] /\ f[u] = Mapped(f, u, forms)
      BY <1>1, <2>1 DEF Converts
    <3>2. ~Compound(u)
      BY LeafIsSimple DEF Levels
    <3>3. u \in DOMAIN forms => forms[u] \in J[1]
      BY <3>1
    <3>4. u \in J[1]
      BY <2>2
    <3> QED
      BY <3>1, <3>2, <3>3, <3>4, Zenon DEF Mapped, Compound
  <2> QED
    BY <2>1, <2>3
<1>3. ASSUME NEW n \in 0..(h - 1), n \in S PROVE n + 1 \in S
  <2>1. /\ n + 1 \in 0..h /\ n + 1 \in 0..(h + 1) /\ n + 1 > 0 /\ (n + 1) - 1 = n
        /\ (n + 1) + 1 \in 1..(h + 1) /\ ((n + 1) + 1) - 1 = n + 1 /\ h + 1 \in Nat
    OBVIOUS
  <2>2. J[(n + 1) + 1] = Around(J[n + 1]) /\ J[n + 1] \subseteq J[(n + 1) + 1]
    BY <2>1, LevelsGrow DEF Levels
  <2>3. J[1] \subseteq J[n + 1] /\ \A u \in J[n] : f[u] \in J[n + 1]
    BY <1>3
  <2>4. ASSUME NEW u \in J[n + 1] PROVE f[u] \in J[(n + 1) + 1]
    <3>1. f[u] = Mapped(f, u, forms) /\ u \in J[h]
      BY <1>1, <2>1 DEF Converts
    <3>2. u \in DOMAIN forms => forms[u] \in J[(n + 1) + 1]
      BY <2>2, <2>3, <3>1
    <3>3. u \in J[(n + 1) + 1]
      BY <2>2
    <3>4. CASE Compound(u)
      <4>1. PICK told : told = [m \in DOMAIN Members(u) |-> f[Members(u)[m]]]
        OBVIOUS
      <4>2. \/ Is(u, "array") /\ Members(u) \in Seq(J[n])
            \/ /\ ~Is(u, "array") /\ Is(u, "object") /\ DOMAIN Members(u) \subseteq Name
               /\ Members(u) \in [DOMAIN Members(u) -> J[n]]
        BY <2>1, <3>4, CompoundsAreMembers
      <4>3. CASE Is(u, "array") /\ Members(u) \in Seq(J[n])
        <5>1. PICK items \in Seq(J[n]) : items = Members(u)
          BY <4>3
        <5>2. \A m \in DOMAIN items : f[items[m]] \in J[n + 1]
          BY <2>3
        <5>3. told \in Seq(J[n + 1])
          <6>1. told = [m \in 1..Len(items) |-> f[items[m]]] /\ Len(items) \in Nat
            BY <4>1, <5>1
          <6>2. \A m \in 1..Len(items) : f[items[m]] \in J[n + 1]
            BY <5>2
          <6> QED
            BY <6>1, <6>2
        <5>4. Array(told) \in J[(n + 1) + 1]
          BY <2>2, <5>3 DEF Around
        <5> QED
          BY <3>1, <3>2, <4>1, <4>3, <5>4, Zenon DEF Mapped
      <4>4. CASE /\ ~Is(u, "array") /\ Is(u, "object") /\ DOMAIN Members(u) \subseteq Name
                 /\ Members(u) \in [DOMAIN Members(u) -> J[n]]
        <5>1. told \in [DOMAIN Members(u) -> J[n + 1]] /\ DOMAIN Members(u) \in SUBSET Name
          BY <2>3, <4>1, <4>4
        <5>2. told \in UNION {[names -> J[n + 1]] : names \in SUBSET Name}
          BY <5>1, Zenon
        <5>3. Object(told) \in J[(n + 1) + 1]
          BY <2>2, <5>2, Zenon DEF Around
        <5> QED
          BY <3>1, <3>2, <4>1, <4>4, <5>3, Zenon DEF Mapped
      <4> QED
        BY <4>2, <4>3, <4>4
    <3>5. CASE ~Compound(u)
      BY <3>1, <3>2, <3>3, <3>5, Zenon DEF Mapped, Compound
    <3> QED
      BY <3>4, <3>5
  <2>5. J[1] \subseteq J[(n + 1) + 1]
    BY <2>2, <2>3
  <2> QED
    BY <2>1, <2>4, <2>5
<1>4. 0..h \subseteq S
  <2> HIDE DEF S
  <2> QED
    BY <1>2, <1>3, InductionUpTo
<1>5. h \in S
  BY <1>4
<1> QED
  BY <1>5

\* Going there and back is going there and back for the members.
RestoresMembers(s, d, u) == \A w \in InsideOf(u) : d[s[w]] = w

LEMMA CompoundRestored ==
    ASSUME NEW h \in Nat, NEW J, Levels(J, h + 1),
           NEW sf, NEW s, Converts(s, J[h], sf), NEW df, NEW d, Converts(d, J[h + 1], df),
           NEW u \in J[h], Compound(u), u \notin DOMAIN sf, s[u] \in J[h + 1], s[u] \notin DOMAIN df
    PROVE  d[s[u]] = u <=> RestoresMembers(s, d, u)
<1>1. PICK there : there = [m \in DOMAIN Members(u) |-> s[Members(u)[m]]]
  OBVIOUS
<1>2. PICK back : back = [m \in DOMAIN there |-> d[there[m]]]
  OBVIOUS
<1>3. s[u] = Mapped(s, u, sf)
  BY DEF Converts
<1>4. d[s[u]] = Mapped(d, s[u], df)
  BY DEF Converts
<1>5. \/ /\ s[u] = Array(there) /\ u = Array(Members(u)) /\ d[s[u]] = Array(back)
      \/ /\ s[u] = Object(there) /\ u = Object(Members(u)) /\ d[s[u]] = Object(back)
  <2>1. \/ Is(u, "array") /\ u = Array(Members(u))
        \/ ~Is(u, "array") /\ Is(u, "object") /\ u = Object(Members(u))
    <3>1. Levels(J, h) /\ h \in 0..h
      BY DEF Levels
    <3> QED
      BY <3>1, CompoundsAreMembers
  <2>2. CASE Is(u, "array") /\ u = Array(Members(u))
    <3>1. s[u] = Array(there)
      BY <1>1, <1>3, <2>2, Zenon DEF Mapped
    <3>2. Is(s[u], "array") /\ Members(s[u]) = there
      BY <3>1, KindsAreTold, Zenon DEF Members
    <3>3. d[s[u]] = Array([m \in DOMAIN Members(s[u]) |-> d[Members(s[u])[m]]])
      BY <1>4, <3>2, Zenon DEF Mapped
    <3>4. d[s[u]] = Array(back)
      BY <1>2, <3>2, <3>3, Zenon
    <3> QED
      BY <2>2, <3>1, <3>4
  <2>3. CASE ~Is(u, "array") /\ Is(u, "object") /\ u = Object(Members(u))
    <3>1. s[u] = Object(there)
      BY <1>1, <1>3, <2>3, Zenon DEF Mapped
    <3>2. ~Is(s[u], "array") /\ Is(s[u], "object") /\ Members(s[u]) = there
      <4>1. ~Is(Object(there), "array") /\ Is(Object(there), "object")
        BY KindsAreTold
      <4>2. Members(s[u]) = s[u].object
        BY <3>1, <4>1, Zenon DEF Members
      <4>3. Object(there).object = there
        BY KindsAreTold
      <4> QED
        BY <3>1, <4>1, <4>2, <4>3, Zenon
    <3>3. d[s[u]] = Object([m \in DOMAIN Members(s[u]) |-> d[Members(s[u])[m]]])
      BY <1>4, <3>2, Zenon DEF Mapped
    <3>4. d[s[u]] = Object(back)
      BY <1>2, <3>2, <3>3, Zenon
    <3> QED
      BY <2>3, <3>1, <3>4
  <2> QED
    BY <2>1, <2>2, <2>3
<1>6. d[s[u]] = u <=> back = Members(u)
  <2>1. Array(back) = Array(Members(u)) <=> back = Members(u)
    <3>1. Array(back).array = back /\ Array(Members(u)).array = Members(u)
      BY KindsAreTold
    <3> QED
      BY <3>1, Zenon
  <2>2. Object(back) = Object(Members(u)) <=> back = Members(u)
    <3>1. Object(back).object = back /\ Object(Members(u)).object = Members(u)
      BY KindsAreTold
    <3> QED
      BY <3>1, Zenon
  <2>3. CASE s[u] = Array(there) /\ u = Array(Members(u)) /\ d[s[u]] = Array(back)
    BY <2>1, <2>3, Zenon
  <2>4. CASE s[u] = Object(there) /\ u = Object(Members(u)) /\ d[s[u]] = Object(back)
    BY <2>2, <2>4, Zenon
  <2> QED
    BY <1>5, <2>3, <2>4, Zenon
<1>7. Members(u) = [m \in DOMAIN Members(u) |-> Members(u)[m]]
  <2>1. Levels(J, h) /\ h \in 0..h
    BY DEF Levels
  <2> QED
    BY <2>1, CompoundsAreMembers
<1>8. back = [m \in DOMAIN Members(u) |-> d[s[Members(u)[m]]]]
  BY <1>1, <1>2
<1>9. back = Members(u) <=> \A m \in DOMAIN Members(u) : d[s[Members(u)[m]]] = Members(u)[m]
  BY <1>7, <1>8
<1>10. RestoresMembers(s, d, u) <=> \A m \in DOMAIN Members(u) : d[s[Members(u)[m]]] = Members(u)[m]
  BY DEF RestoresMembers, InsideOf
<1> QED
  BY <1>6, <1>9, <1>10, Zenon

\* Where the conversions meet a part
Restored(s, d, df, u) == IF Compound(u) THEN s[u] \notin DOMAIN df ELSE d[s[u]] = u

LEMMA ValueRestored ==
    ASSUME NEW h \in Nat, NEW J, Levels(J, h + 1), NEW v \in J[h],
           NEW sf, NEW s, Converts(s, J[h], sf), NEW df, NEW d, Converts(d, J[h + 1], df),
           \A u \in J[h] : u \in DOMAIN sf => ~Compound(u) /\ sf[u] \in J[1],
           \A u \in J[h] : Compound(u) /\ s[u] \in DOMAIN df => d[s[u]] # u
    PROVE  d[s[v]] = v <=> \A u \in Parts(v) : Restored(s, d, df, u)
<1>1. Levels(J, h) /\ h \in 0..h
  BY DEF Levels
<1>2. \A u \in J[h] : s[u] \in J[h + 1]
  BY ConvertedLevel
<1>3. ASSUME NEW u \in J[h], Compound(u), s[u] \notin DOMAIN df
      PROVE  d[s[u]] = u <=> RestoresMembers(s, d, u)
  BY <1>2, <1>3, CompoundRestored
<1>4. /\ v \in Parts(v) /\ Parts(v) \subseteq J[h]
      /\ \A u \in Parts(v) : InsideOf(u) \subseteq Parts(v)
  BY <1>1, PartsAreInside
<1>5. ASSUME \A u \in Parts(v) : Restored(s, d, df, u) PROVE d[s[v]] = v
  <2> DEFINE S == {n \in 0..h : \A u \in Parts(v) : u \in J[n] => d[s[u]] = u}
  <2>1. 0 \in S
    <3>1. 0 \in 0..h /\ J[0] = Leaf
      BY DEF Levels
    <3>2. \A u \in Leaf : ~Compound(u)
      BY LeafIsSimple
    <3> QED
      BY <1>5, <3>1, <3>2 DEF Restored
  <2>2. ASSUME NEW n \in 0..(h - 1), n \in S PROVE n + 1 \in S
    <3>1. n + 1 \in 0..h /\ (n + 1) - 1 = n
      OBVIOUS
    <3>2. \A u \in Parts(v) : u \in J[n] => d[s[u]] = u
      BY <2>2
    <3>3. ASSUME NEW u \in Parts(v), u \in J[n + 1] PROVE d[s[u]] = u
      <4>1. Restored(s, d, df, u) /\ u \in J[h]
        BY <1>4, <1>5
      <4>2. CASE ~Compound(u)
        BY <4>1, <4>2 DEF Restored
      <4>3. CASE Compound(u)
        <5>1. s[u] \notin DOMAIN df
          BY <4>1, <4>3 DEF Restored
        <5>2. InsideOf(u) \subseteq J[n]
          BY <1>1, <3>1, <3>3, MembersInside DEF InsideOf
        <5>3. RestoresMembers(s, d, u)
          BY <1>4, <3>2, <5>2 DEF RestoresMembers
        <5> QED
          BY <1>3, <4>1, <4>3, <5>1, <5>3
      <4> QED
        BY <4>2, <4>3
    <3> QED
      BY <3>1, <3>3
  <2>3. 0..h \subseteq S
    <3> HIDE DEF S
    <3> QED
      BY <2>1, <2>2, InductionUpTo
  <2>4. h \in S
    BY <1>1, <2>3
  <2> QED
    BY <1>4, <2>4
<1>6. ASSUME d[s[v]] = v PROVE \A u \in Parts(v) : Restored(s, d, df, u)
  <2> DEFINE S == {u \in J[h] : d[s[u]] = u}
  <2>1. \A u \in S : Compound(u) => s[u] \notin DOMAIN df
    OBVIOUS
  <2>2. ASSUME NEW u \in S PROVE InsideOf(u) \subseteq S
    <3>1. CASE Compound(u)
      <4>1. RestoresMembers(s, d, u)
        BY <1>3, <2>1, <3>1
      <4>2. InsideOf(u) \subseteq J[h]
        BY <1>1, InsideStays
      <4> QED
        BY <4>1, <4>2 DEF RestoresMembers
    <3>2. CASE ~Compound(u)
      BY <3>2 DEF InsideOf
    <3> QED
      BY <3>1, <3>2
  <2>3. v \in S
    BY <1>6
  <2>4. Parts(v) \subseteq S
    <3> HIDE DEF S
    <3> QED
      BY <1>1, <2>2, <2>3, PartsWithin
  <2> QED
    BY <2>1, <2>4 DEF Restored
<1> QED
  BY <1>5, <1>6

-----------------------------------------------------------------------------

\* Which values are leaves, and what they can be

LEMMA LeavesBelow ==
    ASSUME NEW h \in Nat, NEW J, Levels(J, h)
    PROVE  \A u \in J[h] : ~Compound(u) => u \in Leaf
<1> DEFINE S == {n \in 0..h : \A u \in J[n] : ~Compound(u) => u \in Leaf}
<1>1. 0 \in S
  <2>1. J[0] = Leaf /\ 0 \in 0..h
    BY DEF Levels
  <2> QED
    BY <2>1
<1>2. ASSUME NEW n \in 0..(h - 1), n \in S PROVE n + 1 \in S
  <2>1. n + 1 \in 1..h /\ n + 1 \in 0..h /\ (n + 1) - 1 = n
    OBVIOUS
  <2>2. J[n + 1] = Around(J[n])
    BY <2>1 DEF Levels
  <2>3. ASSUME NEW u \in J[n + 1], ~Compound(u) PROVE u \in Leaf
    <3>1. CASE u \in J[n]
      BY <1>2, <2>3, <3>1
    <3>2. CASE \E items : u = Array(items)
      BY <2>3, <3>2, CompoundsAre, Zenon
    <3>3. CASE \E fields : u = Object(fields)
      BY <2>3, <3>3, CompoundsAre, Zenon
    <3> QED
      BY <2>2, <3>1, <3>2, <3>3, WhatIsAround
  <2> QED
    BY <2>1, <2>3
<1>3. 0..h \subseteq S
  <2> HIDE DEF S
  <2> QED
    BY <1>1, <1>2, InductionUpTo
<1>4. h \in S
  BY <1>3
<1> QED
  BY <1>4

LEMMA CompoundIsNoLeaf ==
    ASSUME NEW h \in Nat, NEW J, Levels(J, h), NEW u \in J[h], Compound(u)
    PROVE  ~IsBytes(u) /\ ~Is(u, "string") /\ ~Is(u, "number")
<1>1. u = Array(Members(u)) \/ u = Object(Members(u))
  <2>1. h \in 0..h
    OBVIOUS
  <2> QED
    BY <2>1, CompoundsAreMembers
<1>2. CASE u = Array(Members(u))
  BY <1>2, KindsAreTold, Zenon
<1>3. CASE u = Object(Members(u))
  BY <1>3, KindsAreTold, Zenon
<1> QED
  BY <1>1, <1>2, <1>3

LEMMA LeafKinds ==
    ASSUME NEW u \in Leaf
    PROVE  /\ IsBytes(u) => \E b \in Seq(ByteValue) : u = Uint8Array(b)
           /\ Is(u, "string") => \E s \in Seq(Character) : u = String(s)
           /\ Is(u, "number") => \E n \in Int : u = Number(n)
<1>1. \/ u = Null
      \/ \E n \in Int : u = Number(n)
      \/ \E s \in Seq(Character) : u = String(s)
      \/ \E b \in Seq(ByteValue) : u = Uint8Array(b)
  BY DEF Leaf, ByteValue
<1>2. CASE u = Null
  BY <1>2, NullIsLeaf, Zenon
<1>3. CASE \E n \in Int : u = Number(n)
  BY <1>3, KindsAreTold, Zenon
<1>4. CASE \E s \in Seq(Character) : u = String(s)
  BY <1>4, KindsAreTold, Zenon
<1>5. CASE \E b \in Seq(ByteValue) : u = Uint8Array(b)
  BY <1>5, KindsAreTold, Zenon
<1> QED
  BY <1>1, <1>2, <1>3, <1>4, <1>5

LEMMA BytesAreLeaf ==
    ASSUME NEW h \in Nat, NEW J, Levels(J, h), NEW u \in J[h], IsBytes(u)
    PROVE  ~Compound(u) /\ \E b \in Seq(ByteValue) : u = Uint8Array(b)
<1>1. ~Compound(u)
  BY CompoundIsNoLeaf
<1>2. u \in Leaf
  BY <1>1, LeavesBelow
<1> QED
  BY <1>1, <1>2, LeafKinds

\* Bytes as numbers
NumbersOf(b) == [i \in DOMAIN b |-> Number(b[i])]

LEMMA NumbersAreArray ==
    ASSUME NEW J, NEW h \in Nat, Levels(J, h + 1), NEW b \in Seq(ByteValue)
    PROVE  /\ Array(NumbersOf(b)) \in J[1] /\ AllNumbers(Array(NumbersOf(b)))
           /\ Uint8Array([i \in DOMAIN Array(NumbersOf(b)).array |->
                  Array(NumbersOf(b)).array[i].number % ByteValues]) = Uint8Array(b)
<1>1. J[1] = Around(Leaf)
  <2>1. 1 \in 1..(h + 1) /\ 1 - 1 = 0
    OBVIOUS
  <2> QED
    BY <2>1 DEF Levels
<1>2. \A i \in DOMAIN b : b[i] \in Int /\ b[i] \in ByteValue
  <2>1. ByteValue \subseteq Int
    BY HexAssumption DEF ByteValue, ByteValues
  <2>2. \A i \in DOMAIN b : b[i] \in ByteValue
    OBVIOUS
  <2> QED
    BY <2>1, <2>2, Zenon
<1>3. \A n \in Int : Number(n) \in Leaf
  BY DEF Leaf
<1>4. PICK numbers : numbers = NumbersOf(b)
  OBVIOUS
<1>5. /\ numbers \in Seq(Leaf) /\ DOMAIN numbers = DOMAIN b
      /\ \A i \in DOMAIN b : numbers[i] = Number(b[i])
  <2>1. numbers = [i \in 1..Len(b) |-> Number(b[i])] /\ Len(b) \in Nat /\ DOMAIN b = 1..Len(b)
    BY <1>4 DEF NumbersOf
  <2>2. \A i \in 1..Len(b) : Number(b[i]) \in Leaf
    BY <1>2, <1>3, <2>1
  <2> QED
    BY <2>1, <2>2
<1>6. Array(numbers).array = numbers /\ Is(Array(numbers), "array")
  BY KindsAreTold
<1>7. Array(numbers) \in J[1]
  BY <1>1, <1>5 DEF Around
<1>8. AllNumbers(Array(numbers))
  <2>1. ASSUME NEW i \in DOMAIN numbers PROVE Is(numbers[i], "number")
    <3>1. numbers[i] = Number(b[i])
      BY <1>5
    <3>2. Is(Number(b[i]), "number")
      BY KindsAreTold
    <3> QED
      BY <3>1, <3>2, Zenon
  <2> QED
    BY <1>6, <2>1, Zenon DEF AllNumbers
<1>9. [i \in DOMAIN numbers |-> numbers[i].number % ByteValues] = b
  <2>1. ASSUME NEW i \in DOMAIN b PROVE numbers[i].number % ByteValues = b[i]
    <3>1. numbers[i].number = b[i]
      <4>1. numbers[i] = Number(b[i])
        BY <1>5
      <4>2. Number(b[i]).number = b[i]
        BY KindsAreTold
      <4> QED
        BY <4>1, <4>2, Zenon
    <3>2. b[i] \in 0..(ByteValues - 1)
      BY <1>2 DEF ByteValue
    <3>3. PICK k \in Nat \ {0} : k = ByteValues
      BY HexAssumption DEF ByteValues
    <3>4. b[i] % k = b[i]
      BY <3>2, <3>3
    <3> QED
      BY <3>1, <3>3, <3>4
  <2>2. b = [i \in DOMAIN b |-> b[i]]
    OBVIOUS
  <2> QED
    BY <1>5, <2>1, <2>2
<1> QED
  BY <1>4, <1>6, <1>7, <1>8, <1>9, Zenon

-----------------------------------------------------------------------------

\* Bytes as digits

HexDigit == 0..(HexBase - 1)

LEMMA HexOfByte ==
    ASSUME NEW byte \in ByteValue
    PROVE  /\ HexOf(byte) = <<byte \div HexBase, byte % HexBase>> /\ HexOf(byte) \in Seq(HexDigit)
           /\ byte \div HexBase \in HexDigit /\ byte % HexBase \in HexDigit
           /\ (byte \div HexBase) * HexBase + (byte % HexBase) = byte
<1>1. PICK n \in Nat \ {0} : n = HexBase
  BY HexAssumption
<1>2. byte \in 0..(n * n - 1)
  BY <1>1 DEF ByteValue, ByteValues
<1>3. byte \in Int
  BY <1>1, <1>2
<1>4. byte = (byte \div n) * n + (byte % n) /\ byte % n \in 0..(n - 1) /\ byte \div n \in Int
  BY <1>1, <1>3, DivMod
<1>5. byte \div n \in 0..(n - 1)
  <2>1. PICK q \in Int, r \in 0..(n - 1) : q = byte \div n /\ r = byte % n
    BY <1>4
  <2>2. byte = q * n + r
    BY <1>4, <2>1
  <2>3. q >= 0
    <3>1. CASE q <= -1
      <4>1. q * n <= -1 * n
        BY <3>1, <1>1
      <4> QED
        BY <1>1, <1>2, <2>1, <2>2, <4>1
    <3> QED
      BY <3>1
  <2>4. q <= n - 1
    <3>1. CASE q >= n
      <4>1. q * n >= n * n
        BY <3>1, <1>1
      <4> QED
        BY <1>1, <1>2, <2>1, <2>2, <4>1
    <3> QED
      BY <1>1, <3>1
  <2> QED
    BY <1>1, <2>1, <2>3, <2>4
<1>6. HexOf(byte) = <<byte \div n, byte % n>>
  BY <1>1 DEF HexOf
<1>7. <<byte \div n, byte % n>> \in Seq(0..(n - 1))
  BY <1>4, <1>5
<1> QED
  BY <1>1, <1>4, <1>5, <1>6, <1>7, Zenon DEF HexDigit

\* What Digits() has written after every byte
Writes(upTo, b) ==
    upTo = [i \in 0..Len(b) |-> IF i = 0 THEN <<>> ELSE upTo[i - 1] \o HexOf(b[i])]

LEMMA DigitsWritten ==
    ASSUME NEW b \in Seq(ByteValue)
    PROVE  \E upTo : Writes(upTo, b) /\ Digits(b) = upTo[Len(b)]
<1> DEFINE n == Len(b)
           upTo == CHOOSE g : Writes(g, b)
<1>1. Digits(b) = upTo[n]
  BY DEF Digits, Writes
<1>2. PICK parts : parts = [i \in 1..n |-> HexOf(b[i])]
  OBVIOUS
<1>3. n \in Nat /\ \A i \in 1..n : b[i] \in ByteValue
  OBVIOUS
<1>4. parts \in [1..n -> Seq(HexDigit)]
  <2>1. \A i \in 1..n : HexOf(b[i]) \in Seq(HexDigit)
    BY <1>3, HexOfByte
  <2> QED
    BY <1>2, <2>1
<1>5. PICK f : Grows(f, HexDigit, parts, n)
  BY <1>3, <1>4, Growth
<1>6. PICK told : told = [i \in 0..n |-> f[i]]
  OBVIOUS
<1>7. ASSUME NEW i \in 0..n
      PROVE  told[i] = IF i = 0 THEN <<>> ELSE told[i - 1] \o HexOf(b[i])
  <2>1. CASE i = 0
    BY <1>3, <1>5, <1>6, <2>1 DEF Grows
  <2>2. CASE i # 0
    <3>1. i \in 1..n /\ i - 1 \in 0..n
      BY <1>3, <2>2
    <3>2. told[i] = f[i] /\ told[i - 1] = f[i - 1] /\ parts[i] = HexOf(b[i])
      BY <1>2, <1>6, <3>1
    <3>3. f[i] = f[i - 1] \o parts[i]
      BY <1>5, <3>1 DEF Grows
    <3> QED
      BY <2>2, <3>2, <3>3, Zenon
  <2> QED
    BY <2>1, <2>2
<1>8. Writes(told, b)
  <2>1. told = [i \in 0..n |-> told[i]]
    BY <1>6
  <2> QED
    BY <1>7, <2>1 DEF Writes
<1>9. Writes(upTo, b)
  BY <1>8
<1> QED
  BY <1>1, <1>9, Zenon

TwoMore(more, s, m, x, y) ==
    /\ Len(more) = m + 2 /\ \A k \in 1..m : more[k] = s[k]
    /\ more[m + 1] = x /\ more[m + 2] = y

LEMMA TwoAdded ==
    ASSUME NEW S, NEW s \in Seq(S), NEW m \in Nat, m = Len(s), NEW x \in S, NEW y \in S
    PROVE  s \o <<x, y>> \in Seq(S) /\ TwoMore(s \o <<x, y>>, s, m, x, y)
<1>1. PICK t \in Seq(S) : t = <<x, y>> /\ Len(t) = 2 /\ t[1] = x /\ t[2] = y
  <2>1. <<x, y>> \in Seq(S)
    OBVIOUS
  <2> QED
    BY <2>1
<1>2. s \o t \in Seq(S) /\ Len(s \o t) = m + 2
  BY <1>1
<1>3. \A k \in 1..m : (s \o t)[k] = s[k]
  BY <1>1
<1>4. (s \o t)[m + 1] = t[1]
  BY <1>1
<1>5. (s \o t)[m + 2] = t[2]
  BY <1>1
<1>6. TwoMore(s \o t, s, m, x, y)
  BY <1>1, <1>2, <1>3, <1>4, <1>5 DEF TwoMore
<1> QED
  BY <1>1, <1>2, <1>6, Zenon

LEMMA DigitsOf ==
    ASSUME NEW b \in Seq(ByteValue)
    PROVE  /\ Digits(b) \in Seq(HexDigit) /\ Len(Digits(b)) = 2 * Len(b)
           /\ \A i \in 1..Len(b) : /\ Digits(b)[2 * i - 1] = b[i] \div HexBase
                                   /\ Digits(b)[2 * i] = b[i] % HexBase
<1>1. PICK upTo : Writes(upTo, b) /\ Digits(b) = upTo[Len(b)]
  BY DigitsWritten
<1>2. PICK n \in Nat : n = Len(b)
  OBVIOUS
<1>3. /\ upTo[0] = <<>>
      /\ \A i \in 0..(n - 1) : upTo[i + 1] = upTo[i] \o HexOf(b[i + 1])
  <2>1. 0 \in 0..n
    BY <1>2
  <2>2. \A i \in 0..n : upTo[i] = IF i = 0 THEN <<>> ELSE upTo[i - 1] \o HexOf(b[i])
    BY <1>1, <1>2 DEF Writes
  <2>3. ASSUME NEW i \in 0..(n - 1) PROVE i + 1 \in 0..n /\ i + 1 # 0 /\ (i + 1) - 1 = i
    OBVIOUS
  <2>4. ASSUME NEW i \in 0..(n - 1) PROVE upTo[i + 1] = upTo[i] \o HexOf(b[i + 1])
    <3>1. upTo[i + 1] = upTo[(i + 1) - 1] \o HexOf(b[i + 1])
      BY <2>2, <2>3
    <3> QED
      BY <2>3, <3>1
  <2> QED
    BY <2>1, <2>2, <2>4
<1> DEFINE Right(i) ==
              /\ upTo[i] \in Seq(HexDigit) /\ Len(upTo[i]) = 2 * i
              /\ \A k \in 1..i : /\ upTo[i][2 * k - 1] = b[k] \div HexBase
                                 /\ upTo[i][2 * k] = b[k] % HexBase
           S == {i \in 0..n : Right(i)}
<1>4. 0 \in S
  <2>1. upTo[0] \in Seq(HexDigit) /\ Len(upTo[0]) = 2 * 0
    BY <1>3
  <2> QED
    BY <2>1
<1>5. ASSUME NEW i \in 0..(n - 1), i \in S PROVE i + 1 \in S
  <2>1. i + 1 \in 0..n /\ i + 1 \in 1..n /\ i \in Nat
    OBVIOUS
  <2>2. b[i + 1] \in ByteValue
    BY <1>2, <2>1
  <2>3. /\ HexOf(b[i + 1]) = <<b[i + 1] \div HexBase, b[i + 1] % HexBase>>
        /\ HexOf(b[i + 1]) \in Seq(HexDigit)
    BY <2>2, HexOfByte
  <2>4. PICK x \in HexDigit, y \in HexDigit : x = b[i + 1] \div HexBase /\ y = b[i + 1] % HexBase
    BY <2>2, HexOfByte
  <2>6. PICK before \in Seq(HexDigit) : before = upTo[i]
    BY <1>5
  <2>7. Len(before) = 2 * i /\ \A k \in 1..i : /\ before[2 * k - 1] = b[k] \div HexBase
                                               /\ before[2 * k] = b[k] % HexBase
    BY <1>5, <2>6
  <2>8. upTo[i + 1] = before \o <<x, y>>
    BY <1>3, <2>3, <2>4, <2>6, Zenon
  <2>9. PICK m \in Nat : m = 2 * i /\ m = Len(before)
    BY <2>1, <2>7
  <2>10. PICK more : /\ more = before \o <<x, y>> /\ more \in Seq(HexDigit) /\ Len(more) = m + 2
                     /\ \A k \in 1..m : more[k] = before[k]
                     /\ more[m + 1] = x /\ more[m + 2] = y
    <3>1. PICK more : more = before \o <<x, y>>
      OBVIOUS
    <3>2. before \o <<x, y>> \in Seq(HexDigit) /\ TwoMore(before \o <<x, y>>, before, m, x, y)
      BY <2>9, TwoAdded
    <3>3. more \in Seq(HexDigit) /\ TwoMore(more, before, m, x, y)
      BY <3>1, <3>2, Zenon
    <3> QED
      BY <3>1, <3>3, Zenon DEF TwoMore
  <2>11. ASSUME NEW k \in 1..(i + 1)
         PROVE  more[2 * k - 1] = b[k] \div HexBase /\ more[2 * k] = b[k] % HexBase
    <3>1. CASE k = i + 1
      <4>1. 2 * k - 1 = m + 1 /\ 2 * k = m + 2
        BY <2>9, <3>1
      <4> QED
        BY <2>4, <2>10, <3>1, <4>1
    <3>2. CASE k # i + 1
      <4>1. k \in 1..i /\ 2 * k - 1 \in 1..m /\ 2 * k \in 1..m
        BY <2>9, <3>2
      <4> QED
        BY <2>7, <2>10, <4>1
    <3> QED
      BY <3>1, <3>2
  <2>12. Right(i + 1)
    <3>1. m + 2 = 2 * (i + 1)
      BY <2>9
    <3>2. more \in Seq(HexDigit) /\ Len(more) = 2 * (i + 1)
      BY <2>10, <3>1
    <3>3. upTo[i + 1] = more
      BY <2>8, <2>10, Zenon
    <3> QED
      BY <2>11, <3>2, <3>3, Zenon
  <2> QED
    BY <2>1, <2>12
<1>6. 0..n \subseteq S
  <2> HIDE DEF S
  <2> QED
    BY <1>4, <1>5, InductionUpTo
<1>7. Right(n)
  BY <1>6
<1> QED
  BY <1>1, <1>2, <1>7

LEMMA PairsOfDigits == ASSUME NEW b \in Seq(ByteValue) PROVE Pairs(Digits(b)) = b
<1>1. PICK n \in Nat : n = Len(b) /\ b = [i \in 1..n |-> b[i]]
  OBVIOUS
<1>2. PICK s : s = Digits(b)
  OBVIOUS
<1>3. Len(s) = 2 * n /\ \A i \in 1..n : s[2 * i - 1] = b[i] \div HexBase /\ s[2 * i] = b[i] % HexBase
  BY <1>1, <1>2, DigitsOf
<1>4. (Len(s) + 1) \div 2 = n
  <2>1. (2 * n + 1) \div 2 = n
    OBVIOUS
  <2> QED
    BY <1>3, <2>1
<1>5. ASSUME NEW i \in 1..n
      PROVE  (IF 2 * i <= Len(s) THEN s[2 * i - 1] * HexBase + s[2 * i] ELSE s[2 * i - 1]) = b[i]
  <2>1. 2 * i <= Len(s)
    BY <1>3
  <2>2. b[i] \in ByteValue
    BY <1>1
  <2>3. (b[i] \div HexBase) * HexBase + (b[i] % HexBase) = b[i]
    BY <2>2, HexOfByte
  <2>4. s[2 * i - 1] = b[i] \div HexBase /\ s[2 * i] = b[i] % HexBase
    BY <1>3
  <2> QED
    BY <2>1, <2>3, <2>4
<1>6. Pairs(s) = [i \in 1..n |->
          IF 2 * i <= Len(s) THEN s[2 * i - 1] * HexBase + s[2 * i] ELSE s[2 * i - 1]]
  BY <1>4, Zenon DEF Pairs
<1> QED
  BY <1>1, <1>2, <1>5, <1>6

-----------------------------------------------------------------------------

\* There and back: through numbers, and through hex

LEMMA FormsOfBytes ==
    ASSUME NEW h \in Nat, NEW J, Levels(J, h + 1), NEW u \in J[h], IsBytes(u)
    PROVE  \E b \in Seq(ByteValue) :
               /\ u = Uint8Array(b)
               /\ Array([i \in DOMAIN u.bytes |-> Number(u.bytes[i])]) = Array(NumbersOf(b))
               /\ String(Digits(u.bytes)) = String(Digits(b))
<1>1. Levels(J, h)
  BY DEF Levels
<1>2. PICK b \in Seq(ByteValue) : u = Uint8Array(b)
  BY <1>1, BytesAreLeaf
<1>3. u.bytes = b
  BY <1>2, KindsAreTold, Zenon
<1> QED
  BY <1>2, <1>3, Zenon DEF NumbersOf

LEMMA HexIsLeaf ==
    ASSUME NEW h \in Nat, NEW J, Levels(J, h + 1), NEW b \in Seq(ByteValue)
    PROVE  /\ String(Digits(b)) \in J[1]
           /\ LooksLikeHex(String(Digits(b))) <=> b # <<>>
           /\ Uint8Array(Pairs(String(Digits(b)).string)) = Uint8Array(b)
<1>1. PICK s : s = Digits(b)
  OBVIOUS
<1>2. s \in Seq(HexDigit) /\ Len(s) = 2 * Len(b)
  BY <1>1, DigitsOf
<1>3. s \in Seq(Character)
  <2>1. HexDigit \subseteq Character
    BY HexAssumption DEF HexDigit, Character
  <2> QED
    BY <1>2, <2>1
<1>4. String(s) \in J[0]
  BY <1>3 DEF Levels, Leaf
<1>5. J[0] \subseteq J[1]
  <2>1. 1 \in 1..(h + 1) /\ 1 - 1 = 0 /\ h + 1 \in Nat
    OBVIOUS
  <2> QED
    BY <2>1, LevelsGrow
<1>6. String(s).string = s /\ Is(String(s), "string")
  BY KindsAreTold
<1>7. \A i \in DOMAIN s : s[i] \in HexDigit
  BY <1>2
<1>8. LooksLikeHex(String(s)) <=> s # <<>>
  BY <1>6, <1>7, Zenon DEF LooksLikeHex, HexDigit
<1>9. s # <<>> <=> b # <<>>
  <2>1. s = <<>> <=> Len(s) = 0
    BY <1>2
  <2>2. b = <<>> <=> Len(b) = 0
    OBVIOUS
  <2>3. Len(b) \in Nat
    OBVIOUS
  <2> QED
    BY <1>2, <2>1, <2>2, <2>3
<1>10. Pairs(s) = b
  BY <1>1, PairsOfDigits
<1> QED
  BY <1>1, <1>4, <1>5, <1>6, <1>8, <1>9, <1>10, Zenon

\* What is written for a value is of the same kind, but for bytes.
Images(s, u) == [m \in DOMAIN Members(u) |-> s[Members(u)[m]]]

LEMMA KindsKept ==
    ASSUME NEW P, NEW forms, NEW s, Converts(s, P, forms), NEW u \in P, u \notin DOMAIN forms
    PROVE  /\ Is(u, "array") => s[u] = Array(Images(s, u))
           /\ Compound(u) /\ ~Is(u, "array") => s[u] = Object(Images(s, u))
           /\ ~Compound(u) => s[u] = u
<1>1. s[u] = Mapped(s, u, forms)
  BY DEF Converts
<1> QED
  BY <1>1, Zenon DEF Mapped, Compound, Images

LEMMA FormsTaken ==
    ASSUME NEW P, NEW forms, NEW s, Converts(s, P, forms), NEW u \in P, u \in DOMAIN forms
    PROVE  s[u] = forms[u]
<1>1. s[u] = Mapped(s, u, forms)
  BY DEF Converts
<1> QED
  BY <1>1, Zenon DEF Mapped

\* serde/uint8array.ts: whatever the value and however deeply it is nested, what is
\* written as numbers reads back as it was, exactly when no list in it is all
\* numbers, for those are taken for bytes.
THEOREM NumbersRestored ==
    ASSUME NEW h \in Nat, NEW J, Levels(J, h + 1), NEW v \in J[h]
    PROVE  deserializeWithUint8Array(serializeWithUint8Array(v)) = v
               <=> \A part \in Parts(v) : ~AllNumbers(part)
<1>1. Levels(J, h) /\ h + 1 \in Nat
  BY DEF Levels
<1>2. PICK sf : sf = NumbersForms(J[h])
  OBVIOUS
<1>3. PICK df : df = BytesForms(J[h + 1])
  OBVIOUS
<1>4. PICK s : Converts(s, J[h], sf)
  BY <1>1, ConversionExists
<1>5. PICK d : Converts(d, J[h + 1], df)
  BY <1>1, ConversionExists
<1>6. ASSUME NEW u \in J[h] PROVE u \in DOMAIN sf <=> IsBytes(u)
  BY <1>2 DEF NumbersForms
<1>7. ASSUME NEW u \in J[h], IsBytes(u)
      PROVE  ~Compound(u) /\ \E b \in Seq(ByteValue) : u = Uint8Array(b) /\ sf[u] = Array(NumbersOf(b))
  <2>1. sf[u] = Array([i \in DOMAIN u.bytes |-> Number(u.bytes[i])])
    BY <1>2, <1>7 DEF NumbersForms
  <2>2. ~Compound(u)
    BY <1>1, <1>7, BytesAreLeaf
  <2>3. PICK b \in Seq(ByteValue) :
            /\ u = Uint8Array(b)
            /\ Array([i \in DOMAIN u.bytes |-> Number(u.bytes[i])]) = Array(NumbersOf(b))
    BY <1>7, FormsOfBytes
  <2> QED
    BY <2>1, <2>2, <2>3, Zenon
<1>8. ASSUME NEW u \in J[h], u \in DOMAIN sf PROVE ~Compound(u) /\ sf[u] \in J[1]
  <2>1. IsBytes(u)
    BY <1>6, <1>8
  <2>2. PICK b \in Seq(ByteValue) : sf[u] = Array(NumbersOf(b))
    BY <1>7, <2>1
  <2>3. Array(NumbersOf(b)) \in J[1]
    BY NumbersAreArray
  <2> QED
    BY <1>7, <2>1, <2>2, <2>3
<1>9. ASSUME NEW u \in J[h + 1] PROVE u \in DOMAIN df <=> AllNumbers(u)
  BY <1>3 DEF BytesForms, LooksLikeBytes
<1>10. ASSUME NEW u \in J[h + 1], AllNumbers(u)
       PROVE  d[u] = Uint8Array([i \in DOMAIN u.array |-> u.array[i].number % ByteValues])
  <2>1. d[u] = Mapped(d, u, df)
    BY <1>5 DEF Converts
  <2>2. d[u] = df[u]
    BY <1>9, <1>10, <2>1, Zenon DEF Mapped
  <2>3. u \in {w \in J[h + 1] : LooksLikeBytes(w)}
    BY <1>10 DEF LooksLikeBytes
  <2> QED
    BY <1>3, <2>2, <2>3 DEF BytesForms
<1>11. \A u \in J[h] : s[u] \in J[h + 1]
  BY <1>4, <1>8, ConvertedLevel
<1>12. ASSUME NEW u \in J[h], Compound(u), s[u] \in DOMAIN df PROVE d[s[u]] # u
  <2>1. IsBytes(d[s[u]])
    <3>1. \E x : d[s[u]] = Uint8Array(x)
      BY <1>9, <1>10, <1>11, <1>12
    <3> QED
      BY <3>1, KindsAreTold, Zenon
  <2>2. ~IsBytes(u)
    BY <1>1, <1>12, CompoundIsNoLeaf
  <2> QED
    BY <2>1, <2>2
<1>13. d[s[v]] = v <=> \A u \in Parts(v) : Restored(s, d, df, u)
  BY <1>4, <1>5, <1>8, <1>12, ValueRestored
<1>14. ASSUME NEW w \in J[h] PROVE Is(s[w], "number") <=> Is(w, "number")
  <2>1. CASE IsBytes(w)
    <3>1. PICK b : w = Uint8Array(b) /\ sf[w] = Array(NumbersOf(b))
      BY <1>7, <2>1
    <3>2. s[w] = sf[w]
      BY <1>4, <1>6, <2>1, FormsTaken
    <3>3. ~Is(s[w], "number")
      <4>1. ~Is(Array(NumbersOf(b)), "number")
        BY KindsAreTold
      <4> QED
        BY <3>1, <3>2, <4>1, Zenon
    <3>4. ~Is(w, "number")
      BY <3>1, KindsAreTold, Zenon
    <3> QED
      BY <3>3, <3>4
  <2>2. CASE ~IsBytes(w) /\ Compound(w)
    <3>1. w \notin DOMAIN sf
      BY <1>6, <2>2
    <3>2. s[w] = Array(Images(s, w)) \/ s[w] = Object(Images(s, w))
      BY <1>4, <2>2, <3>1, KindsKept DEF Compound
    <3>3. ~Is(w, "number")
      BY <1>1, <2>2, CompoundIsNoLeaf
    <3>4. ~Is(Array(Images(s, w)), "number") /\ ~Is(Object(Images(s, w)), "number")
      BY KindsAreTold
    <3> QED
      BY <3>2, <3>3, <3>4, Zenon
  <2>3. CASE ~IsBytes(w) /\ ~Compound(w)
    <3>1. w \notin DOMAIN sf
      BY <1>6, <2>3
    <3> QED
      BY <1>4, <2>3, <3>1, KindsKept
  <2> QED
    BY <2>1, <2>2, <2>3
<1>15. ASSUME NEW u \in J[h] PROVE Restored(s, d, df, u) <=> ~AllNumbers(u)
  <2>1. CASE Compound(u) /\ Is(u, "array")
    <3>1. ~IsBytes(u)
      BY <1>1, <2>1, CompoundIsNoLeaf
    <3>2. PICK there : there = Images(s, u)
      OBVIOUS
    <3>3. s[u] = Array(there)
      BY <1>4, <1>6, <2>1, <3>1, <3>2, KindsKept
    <3>4. Is(s[u], "array") /\ s[u].array = there
      BY <3>3, KindsAreTold, Zenon
    <3>5. InsideOf(u) \subseteq J[h]
      BY <1>1, InsideStays
    <3>6. \A m \in DOMAIN Members(u) : Is(there[m], "number") <=> Is(Members(u)[m], "number")
      BY <1>14, <2>1, <3>2, <3>5 DEF InsideOf, Images
    <3>7. AllNumbers(s[u]) <=> AllNumbers(u)
      <4>1. AllNumbers(s[u]) <=> \A m \in DOMAIN there : Is(there[m], "number")
        BY <3>4, Zenon DEF AllNumbers
      <4>2. AllNumbers(u) <=> \A m \in DOMAIN Members(u) : Is(Members(u)[m], "number")
        BY <2>1, Zenon DEF AllNumbers, Members
      <4>3. DOMAIN there = DOMAIN Members(u)
        BY <3>2 DEF Images
      <4> QED
        BY <3>6, <4>1, <4>2, <4>3, Zenon
    <3> QED
      BY <1>9, <1>11, <2>1, <3>7, Zenon DEF Restored
  <2>2. CASE Compound(u) /\ ~Is(u, "array")
    <3>1. ~IsBytes(u)
      BY <1>1, <2>2, CompoundIsNoLeaf
    <3>2. s[u] = Object(Images(s, u))
      BY <1>4, <1>6, <2>2, <3>1, KindsKept
    <3>3. ~AllNumbers(s[u]) /\ ~AllNumbers(u)
      <4>1. ~Is(s[u], "array")
        BY <3>2, KindsAreTold, Zenon
      <4> QED
        BY <2>2, <4>1 DEF AllNumbers
    <3> QED
      BY <1>9, <1>11, <2>2, <3>3, Zenon DEF Restored
  <2>3. CASE ~Compound(u) /\ IsBytes(u)
    <3>1. PICK b \in Seq(ByteValue) : u = Uint8Array(b) /\ sf[u] = Array(NumbersOf(b))
      BY <1>7, <2>3
    <3>2. s[u] = Array(NumbersOf(b))
      <4>1. s[u] = sf[u]
        BY <1>4, <1>6, <2>3, FormsTaken
      <4> QED
        BY <3>1, <4>1
    <3>3. AllNumbers(s[u]) /\ s[u] \in J[h + 1]
      BY <1>11, <3>2, NumbersAreArray
    <3>4. d[s[u]] = Uint8Array([i \in DOMAIN s[u].array |-> s[u].array[i].number % ByteValues])
      BY <1>10, <3>3
    <3>5. d[s[u]] = u
      BY <3>1, <3>2, <3>4, NumbersAreArray
    <3>6. ~AllNumbers(u)
      BY <2>3 DEF AllNumbers, Compound
    <3> QED
      BY <2>3, <3>5, <3>6 DEF Restored
  <2>4. CASE ~Compound(u) /\ ~IsBytes(u)
    <3>1. s[u] = u
      BY <1>4, <1>6, <2>4, KindsKept
    <3>2. ~AllNumbers(u)
      BY <2>4 DEF AllNumbers, Compound
    <3>3. u \in J[h + 1] /\ u \notin DOMAIN df
      BY <1>9, <1>11, <3>1, <3>2
    <3>4. d[u] = u
      BY <1>5, <2>4, <3>3, KindsKept
    <3> QED
      BY <2>4, <3>1, <3>2, <3>4 DEF Restored
  <2> QED
    BY <2>1, <2>2, <2>3, <2>4
<1>16. Parts(v) \subseteq J[h]
  BY <1>1, PartsAreInside
<1>17. serializeWithUint8Array(v) = s[v]
  BY <1>1, <1>2, <1>4, NumbersConverted
<1>18. deserializeWithUint8Array(s[v]) = d[s[v]]
  <2>1. s[v] \in J[h + 1] /\ Converts(d, J[h + 1], BytesForms(J[h + 1]))
    BY <1>3, <1>5, <1>11
  <2> QED
    BY <1>1, <2>1, BytesConverted
<1>19. d[s[v]] = v <=> \A u \in Parts(v) : ~AllNumbers(u)
  BY <1>13, <1>15, <1>16
<1> QED
  BY <1>17, <1>18, <1>19, Zenon

\* serde/uint8array.ts: written in hex it reads back, exactly when it has neither
\* empty bytes nor a text that could be hex.
THEOREM HexRestored ==
    ASSUME NEW h \in Nat, NEW J, Levels(J, h + 1), NEW v \in J[h]
    PROVE  deserializeFromHexString(serializeToHexString(v)) = v
               <=> \A part \in Parts(v) : part # Uint8Array(<<>>) /\ ~LooksLikeHex(part)
<1> DEFINE Kept(u) == u # Uint8Array(<<>>) /\ ~LooksLikeHex(u)
<1>1. Levels(J, h) /\ h + 1 \in Nat
  BY DEF Levels
<1>2. PICK sf : sf = HexForms(J[h])
  OBVIOUS
<1>3. PICK df : df = ReadForms(J[h + 1])
  OBVIOUS
<1>4. PICK s : Converts(s, J[h], sf)
  BY <1>1, ConversionExists
<1>5. PICK d : Converts(d, J[h + 1], df)
  BY <1>1, ConversionExists
<1>6. ASSUME NEW u \in J[h] PROVE u \in DOMAIN sf <=> IsBytes(u)
  BY <1>2 DEF HexForms
<1>7. ASSUME NEW u \in J[h], IsBytes(u)
      PROVE  ~Compound(u) /\ \E b \in Seq(ByteValue) : u = Uint8Array(b) /\ sf[u] = String(Digits(b))
  <2>1. sf[u] = String(Digits(u.bytes))
    BY <1>2, <1>7 DEF HexForms
  <2>2. ~Compound(u)
    BY <1>1, <1>7, BytesAreLeaf
  <2>3. PICK b \in Seq(ByteValue) : u = Uint8Array(b) /\ String(Digits(u.bytes)) = String(Digits(b))
    BY <1>7, FormsOfBytes
  <2> QED
    BY <2>1, <2>2, <2>3, Zenon
<1>8. ASSUME NEW u \in J[h], u \in DOMAIN sf PROVE ~Compound(u) /\ sf[u] \in J[1]
  <2>1. IsBytes(u)
    BY <1>6, <1>8
  <2>2. PICK b \in Seq(ByteValue) : sf[u] = String(Digits(b))
    BY <1>7, <2>1
  <2>3. String(Digits(b)) \in J[1]
    BY HexIsLeaf
  <2> QED
    BY <1>7, <2>1, <2>2, <2>3
<1>9. ASSUME NEW u \in J[h + 1] PROVE u \in DOMAIN df <=> LooksLikeHex(u)
  BY <1>3 DEF ReadForms
<1>10. ASSUME NEW u \in J[h + 1], LooksLikeHex(u) PROVE d[u] = Uint8Array(Pairs(u.string))
  <2>1. d[u] = df[u]
    BY <1>5, <1>9, <1>10, FormsTaken
  <2>2. u \in {w \in J[h + 1] : LooksLikeHex(w)}
    BY <1>10
  <2> QED
    BY <1>3, <2>1, <2>2 DEF ReadForms
<1>11. \A u \in J[h] : s[u] \in J[h + 1]
  BY <1>4, <1>8, ConvertedLevel
<1>12. ASSUME NEW u \in J[h], Compound(u)
       PROVE  s[u] \notin DOMAIN df /\ Kept(u)
  <2>1. ~IsBytes(u) /\ ~Is(u, "string")
    BY <1>1, <1>12, CompoundIsNoLeaf
  <2>2. s[u] = Array(Images(s, u)) \/ s[u] = Object(Images(s, u))
    BY <1>4, <1>6, <1>12, <2>1, KindsKept DEF Compound
  <2>3. ~Is(Array(Images(s, u)), "string") /\ ~Is(Object(Images(s, u)), "string")
    BY KindsAreTold
  <2>4. ~Is(s[u], "string")
    BY <2>2, <2>3, Zenon
  <2>5. u # Uint8Array(<<>>)
    BY <2>1, KindsAreTold, Zenon
  <2> QED
    BY <1>9, <1>11, <2>1, <2>4, <2>5 DEF LooksLikeHex
<1>13. d[s[v]] = v <=> \A u \in Parts(v) : Restored(s, d, df, u)
  BY <1>4, <1>5, <1>8, <1>12, ValueRestored
<1>14. ASSUME NEW u \in J[h] PROVE Restored(s, d, df, u) <=> Kept(u)
  <2>1. CASE Compound(u)
    BY <1>12, <2>1 DEF Restored
  <2>2. CASE ~Compound(u) /\ IsBytes(u)
    <3>1. PICK b \in Seq(ByteValue) : u = Uint8Array(b) /\ sf[u] = String(Digits(b))
      BY <1>7, <2>2
    <3>2. s[u] = String(Digits(b))
      <4>1. s[u] = sf[u]
        BY <1>4, <1>6, <2>2, FormsTaken
      <4> QED
        BY <3>1, <4>1
    <3>3. s[u] \in J[h + 1]
      BY <1>11
    <3>4. LooksLikeHex(s[u]) <=> b # <<>>
      <4>1. LooksLikeHex(String(Digits(b))) <=> b # <<>>
        BY HexIsLeaf
      <4> QED
        BY <3>2, <4>1, Zenon
    <3>5. u = Uint8Array(<<>>) <=> b = <<>>
      <4>1. u.bytes = b /\ Uint8Array(<<>>).bytes = <<>>
        BY <3>1, KindsAreTold, Zenon
      <4> QED
        BY <3>1, <4>1, Zenon
    <3>6. ~LooksLikeHex(u)
      <4>1. ~Is(u, "string")
        BY <3>1, KindsAreTold, Zenon
      <4> QED
        BY <4>1 DEF LooksLikeHex
    <3>7. CASE b # <<>>
      <4>1. d[s[u]] = Uint8Array(Pairs(s[u].string))
        BY <1>10, <3>3, <3>4, <3>7
      <4>2. d[s[u]] = u
        BY <3>1, <3>2, <4>1, HexIsLeaf, Zenon
      <4> QED
        BY <2>2, <3>5, <3>6, <3>7, <4>2 DEF Restored
    <3>8. CASE b = <<>>
      <4>1. s[u] \notin DOMAIN df
        BY <1>9, <3>3, <3>4, <3>8
      <4>2. ~Compound(s[u]) /\ ~IsBytes(s[u])
        BY <3>2, KindsAreTold, Zenon
      <4>3. d[s[u]] = s[u]
        BY <1>5, <3>3, <4>1, <4>2, KindsKept
      <4>4. d[s[u]] # u
        BY <2>2, <4>2, <4>3
      <4> QED
        BY <2>2, <3>5, <3>8, <4>4 DEF Restored
    <3> QED
      BY <3>7, <3>8
  <2>3. CASE ~Compound(u) /\ ~IsBytes(u)
    <3>1. s[u] = u
      BY <1>4, <1>6, <2>3, KindsKept
    <3>2. u \in J[h + 1]
      BY <1>11, <3>1
    <3>3. u # Uint8Array(<<>>)
      BY <2>3, KindsAreTold, Zenon
    <3>4. CASE LooksLikeHex(u)
      <4>1. d[u] = Uint8Array(Pairs(u.string))
        BY <1>10, <3>2, <3>4
      <4>2. IsBytes(d[u])
        BY <4>1, KindsAreTold, Zenon
      <4> QED
        BY <2>3, <3>1, <3>4, <4>2 DEF Restored
    <3>5. CASE ~LooksLikeHex(u)
      <4>1. u \notin DOMAIN df
        BY <1>9, <3>2, <3>5
      <4>2. d[u] = u
        BY <1>5, <2>3, <3>2, <4>1, KindsKept
      <4> QED
        BY <2>3, <3>1, <3>3, <3>5, <4>2 DEF Restored
    <3> QED
      BY <3>4, <3>5
  <2> QED
    BY <2>1, <2>2, <2>3
<1>15. Parts(v) \subseteq J[h]
  BY <1>1, PartsAreInside
<1>16. serializeToHexString(v) = s[v]
  BY <1>1, <1>2, <1>4, HexConverted
<1>17. deserializeFromHexString(s[v]) = d[s[v]]
  <2>1. s[v] \in J[h + 1] /\ Converts(d, J[h + 1], ReadForms(J[h + 1]))
    BY <1>3, <1>5, <1>11
  <2> QED
    BY <1>1, <2>1, ReadConverted
<1>18. d[s[v]] = v <=> \A u \in Parts(v) : Kept(u)
  <2> HIDE DEF Kept
  <2> QED
    BY <1>13, <1>14, <1>15
<1> QED
  BY <1>16, <1>17, <1>18, Zenon

-----------------------------------------------------------------------------

\* Values that the conversions leave as they are, told by a set that holds all
\* that is in its members.
Closed(K) == \A u \in K : InsideOf(u) \subseteq K

LEMMA InsideArray == ASSUME NEW items PROVE InsideOf(Array(items)) = {items[i] : i \in DOMAIN items}
<1>1. Compound(Array(items)) /\ Is(Array(items), "array") /\ Array(items).array = items
  BY CompoundsAre, KindsAreTold
<1>2. Members(Array(items)) = items
  BY <1>1, Zenon DEF Members
<1> QED
  BY <1>1, <1>2, Zenon DEF InsideOf

LEMMA InsideObject == ASSUME NEW fields PROVE InsideOf(Object(fields)) = {fields[n] : n \in DOMAIN fields}
<1>1. /\ Compound(Object(fields)) /\ ~Is(Object(fields), "array")
      /\ Object(fields).object = fields
  BY CompoundsAre, KindsAreTold
<1>2. Members(Object(fields)) = fields
  BY <1>1, Zenon DEF Members
<1> QED
  BY <1>1, <1>2, Zenon DEF InsideOf

LEMMA InsideLeaf == ASSUME NEW u, ~Compound(u) PROVE InsideOf(u) = {}
BY DEF InsideOf

\* Only what is empty is taken for bytes.
LEMMA OnlyEmptyTaken ==
    ASSUME NEW h \in Nat, NEW J, Levels(J, h + 1), NEW v \in J[h],
           NEW K, v \in K, Closed(K), \A u \in K : AllNumbers(u) => u = Array(<<>>)
    PROVE  deserializeWithUint8Array(serializeWithUint8Array(v)) = v <=> Array(<<>>) \notin Parts(v)
<1>1. Levels(J, h)
  BY DEF Levels
<1>2. Parts(v) \subseteq K
  BY <1>1, PartsWithin DEF Closed
<1>3. AllNumbers(Array(<<>>))
  <2>1. Is(Array(<<>>), "array") /\ Array(<<>>).array = <<>> /\ DOMAIN <<>> = {}
    BY KindsAreTold
  <2> QED
    BY <2>1, Zenon DEF AllNumbers
<1>4. (\A part \in Parts(v) : ~AllNumbers(part)) <=> Array(<<>>) \notin Parts(v)
  BY <1>2, <1>3
<1> QED
  BY <1>4, NumbersRestored, Zenon

\* Without bytes nothing is written differently.
LEMMA NoBytesWritten ==
    ASSUME NEW h \in Nat, NEW J, Levels(J, h), NEW v \in J[h],
           NEW K, v \in K, Closed(K), \A u \in K : ~IsBytes(u)
    PROVE  serializeWithUint8Array(v) = v
<1>1. PICK sf : sf = NumbersForms(J[h])
  OBVIOUS
<1>2. PICK s : Converts(s, J[h], sf)
  BY ConversionExists
<1>3. serializeWithUint8Array(v) = s[v]
  BY <1>1, <1>2, NumbersConverted
<1>4. \A u \in J[h] : u \in K => u \notin DOMAIN sf
  BY <1>1 DEF NumbersForms
<1>5. \A n \in 0..h : J[n] \subseteq J[h]
  BY LevelsBelow
<1> DEFINE S == {n \in 0..h : \A u \in J[n] : u \in K => s[u] = u}
<1>6. 0 \in S
  <2>1. 0 \in 0..h /\ J[0] = Leaf
    BY DEF Levels
  <2>2. ASSUME NEW u \in J[0], u \in K PROVE s[u] = u
    <3>1. u \in J[h] /\ ~Compound(u)
      BY <1>5, <2>1, LeafIsSimple
    <3> QED
      BY <1>2, <1>4, <2>2, <3>1, KindsKept
  <2> QED
    BY <2>1, <2>2
<1>7. ASSUME NEW n \in 0..(h - 1), n \in S PROVE n + 1 \in S
  <2>1. n + 1 \in 0..h /\ (n + 1) - 1 = n
    OBVIOUS
  <2>2. ASSUME NEW u \in J[n + 1], u \in K PROVE s[u] = u
    <3>1. u \in J[h]
      BY <1>5, <2>1
    <3>2. u \notin DOMAIN sf
      BY <1>4, <2>2, <3>1
    <3>3. CASE ~Compound(u)
      BY <1>2, <3>1, <3>2, <3>3, KindsKept
    <3>4. CASE Compound(u)
      <4>1. /\ Members(u) = [m \in DOMAIN Members(u) |-> Members(u)[m]]
            /\ \/ Is(u, "array") /\ u = Array(Members(u))
               \/ ~Is(u, "array") /\ u = Object(Members(u))
        BY <2>1, <3>4, CompoundsAreMembers
      <4>2. InsideOf(u) \subseteq J[n] /\ InsideOf(u) \subseteq K
        BY <2>1, <2>2, MembersInside DEF InsideOf, Closed
      <4>3. \A w \in InsideOf(u) : s[w] = w
        BY <1>7, <4>2
      <4>4. \A m \in DOMAIN Members(u) : s[Members(u)[m]] = Members(u)[m]
        BY <3>4, <4>3 DEF InsideOf
      <4>5. Images(s, u) = Members(u)
        BY <4>1, <4>4 DEF Images
      <4>6. CASE Is(u, "array") /\ u = Array(Members(u))
        <5>1. s[u] = Array(Images(s, u))
          BY <1>2, <3>1, <3>2, <4>6, KindsKept
        <5> QED
          BY <4>5, <4>6, <5>1, Zenon
      <4>7. CASE ~Is(u, "array") /\ u = Object(Members(u))
        <5>1. s[u] = Object(Images(s, u))
          BY <1>2, <3>1, <3>2, <3>4, <4>7, KindsKept
        <5> QED
          BY <4>5, <4>7, <5>1, Zenon
      <4> QED
        BY <4>1, <4>6, <4>7
    <3> QED
      BY <3>3, <3>4
  <2> QED
    BY <2>1, <2>2
<1>8. 0..h \subseteq S
  <2> HIDE DEF S
  <2> QED
    BY <1>6, <1>7, InductionUpTo
<1>9. h \in S
  BY <1>8
<1>10. s[v] = v
  BY <1>9
<1> QED
  BY <1>3, <1>10

\* What is written for a list is a list of as many.
LEMMA ListWritten ==
    ASSUME NEW h \in Nat, NEW J, Levels(J, h), NEW items, Array(items) \in J[h]
    PROVE  \E x : serializeWithUint8Array(Array(items)) = Array(x) /\ DOMAIN x = DOMAIN items
<1>1. PICK sf : sf = NumbersForms(J[h])
  OBVIOUS
<1>2. PICK s : Converts(s, J[h], sf)
  BY ConversionExists
<1>3. PICK u \in J[h] : u = Array(items)
  OBVIOUS
<1>4. serializeWithUint8Array(u) = s[u]
  BY <1>1, <1>2, NumbersConverted
<1>5. Is(u, "array") /\ ~IsBytes(u) /\ u.array = items
  BY <1>3, KindsAreTold, Zenon
<1>6. u \notin DOMAIN sf
  BY <1>1, <1>5 DEF NumbersForms
<1>7. s[u] = Array(Images(s, u))
  BY <1>2, <1>5, <1>6, KindsKept
<1>8. DOMAIN Images(s, u) = DOMAIN items
  <2>1. Members(u) = items
    BY <1>5, Zenon DEF Members
  <2> QED
    BY <2>1 DEF Images
<1> QED
  BY <1>3, <1>4, <1>7, <1>8, Zenon

LEMMA ArrayDeeper ==
    ASSUME NEW h \in Nat, NEW J, Levels(J, h), NEW n \in 1..h, NEW items \in Seq(J[n - 1])
    PROVE  Array(items) \in J[n]
<1>1. J[n] = Around(J[n - 1])
  BY DEF Levels
<1> QED
  BY <1>1 DEF Around

LEMMA ObjectDeeper ==
    ASSUME NEW h \in Nat, NEW J, Levels(J, h), NEW n \in 1..h,
           NEW names, names \subseteq Name, NEW fields \in [names -> J[n - 1]]
    PROVE  Object(fields) \in J[n]
<1>1. J[n] = Around(J[n - 1])
  BY DEF Levels
<1>2. fields \in UNION {[domain -> J[n - 1]] : domain \in SUBSET Name}
  OBVIOUS
<1> QED
  BY <1>1, <1>2, Zenon DEF Around

-----------------------------------------------------------------------------

\* Numbers of digits

StepTo(n, A, step) == step \in [(1..n) \X A -> A]
RecursesTo(f, n, A, base, step) ==
    f \in [0..n -> A] /\ f[0] = base /\ \A i \in 1..n : f[i] = step[<<i, f[i - 1]>>]

LEMMA RecursionTo ==
    ASSUME NEW n \in Nat, NEW A, NEW base \in A, NEW step, StepTo(n, A, step)
    PROVE  \E f : RecursesTo(f, n, A, base, step)
<1> USE DEF StepTo
<1>1. PICK next : next = [p \in Nat \X A |-> IF p[1] + 1 \in 1..n THEN step[<<p[1] + 1, p[2]>>]
                                             ELSE base]
  OBVIOUS
<1>2. next \in [Nat \X A -> A]
  <2>1. ASSUME NEW p \in Nat \X A
        PROVE  (IF p[1] + 1 \in 1..n THEN step[<<p[1] + 1, p[2]>>] ELSE base) \in A
    <3>1. CASE p[1] + 1 \in 1..n
      <4>1. <<p[1] + 1, p[2]>> \in (1..n) \X A
        BY <3>1
      <4> QED
        BY <3>1, <4>1
    <3> QED
      BY <3>1
  <2> QED
    BY <1>1, <2>1
<1>3. \A k \in Nat, x \in A : next[<<k, x>>] = IF k + 1 \in 1..n THEN step[<<k + 1, x>>] ELSE base
  BY <1>1
<1>4. PICK g : Recurses(g, A, base, next)
  BY <1>2, Recursion DEF StepOn
<1>5. g \in [Nat -> A] /\ g[0] = base /\ \A k \in Nat : g[k + 1] = next[<<k, g[k]>>]
  BY <1>4 DEF Recurses
<1>6. PICK f : f = [i \in 0..n |-> g[i]]
  OBVIOUS
<1>7. f \in [0..n -> A] /\ f[0] = base
  BY <1>5, <1>6
<1>8. ASSUME NEW i \in 1..n PROVE f[i] = step[<<i, f[i - 1]>>]
  <2>1. PICK k \in Nat : k = i - 1 /\ k + 1 = i
    OBVIOUS
  <2>2. f[i] = g[k + 1] /\ f[i - 1] = g[k] /\ g[k] \in A
    BY <1>5, <1>6, <2>1
  <2>3. g[k + 1] = next[<<k, g[k]>>]
    BY <1>5
  <2>4. next[<<k, g[k]>>] = step[<<i, g[k]>>]
    BY <1>3, <2>1, <2>2
  <2> QED
    BY <2>2, <2>3, <2>4
<1> QED
  BY <1>7, <1>8 DEF RecursesTo

LEMMA DigitPushed == ASSUME NEW a \in Nat, NEW r \in Nat, NEW d \in Nat PROVE a * r + d \in Nat
OBVIOUS

LEMMA DigitPopped ==
    ASSUME NEW r \in Nat \ {0}, NEW a \in Nat, NEW d \in 0..(r - 1)
    PROVE  (a * r + d) \div r = a /\ (a * r + d) % r = d
<1>1. PICK x \in Nat : x = a * r + d
  BY DigitPushed
<1> QED
  BY <1>1, DivUnique

LEMMA PushedBelow ==
    ASSUME NEW r \in Nat \ {0}, NEW a \in Nat, NEW d \in 0..(r - 1), NEW p \in Nat, a < p
    PROVE  a * r + d < r * p
<1>1. PICK k \in Nat : p = a + 1 + k
  <2>1. p - a - 1 \in Nat /\ p = a + 1 + (p - a - 1)
    OBVIOUS
  <2> QED
    BY <2>1
<1>2. r * p = a * r + r + r * k
  BY <1>1
<1>3. PICK x \in Nat, y \in Nat : x = a * r /\ y = r * k
  OBVIOUS
<1> QED
  BY <1>2, <1>3

\* The numbers of the first digits, from the most significant on
Values(v, radix, s) == v[0] = 0 /\ \A i \in 1..Len(s) : v[i] = v[i - 1] * radix + s[i]

ValueSolves(v, radix, s) ==
    v = [i \in 0..Len(s) |-> IF i = 0 THEN 0 ELSE v[i - 1] * radix + s[i]]

LEMMA ValueSteps ==
    ASSUME NEW radix \in Nat, NEW s \in Seq(Nat)
    PROVE  \E v \in [0..Len(s) -> Nat] : Values(v, radix, s) /\ ValueIn(radix, s) = v[Len(s)]
<1> DEFINE v == CHOOSE g : ValueSolves(g, radix, s)
<1>1. ValueIn(radix, s) = v[Len(s)]
  BY DEF ValueIn, ValueSolves
<1>2. PICK n \in Nat : n = Len(s) /\ \A i \in 1..n : s[i] \in Nat
  OBVIOUS
<1>3. PICK step : step = [p \in (1..n) \X Nat |-> p[2] * radix + s[p[1]]]
  OBVIOUS
<1>4. StepTo(n, Nat, step)
  <2>1. ASSUME NEW p \in (1..n) \X Nat PROVE p[2] * radix + s[p[1]] \in Nat
    BY <1>2, DigitPushed
  <2> QED
    BY <1>3, <2>1 DEF StepTo
<1>5. PICK f : RecursesTo(f, n, Nat, 0, step)
  <2>1. 0 \in Nat
    OBVIOUS
  <2> QED
    BY <1>4, <2>1, RecursionTo
<1>12. f \in [0..n -> Nat] /\ f[0] = 0 /\ \A i \in 1..n : f[i] = step[<<i, f[i - 1]>>]
  BY <1>5 DEF RecursesTo
<1>6. ASSUME NEW i \in 0..n
      PROVE  f[i] = IF i = 0 THEN 0 ELSE f[i - 1] * radix + s[i]
  <2>1. CASE i = 0
    BY <1>12, <2>1
  <2>2. CASE i # 0
    <3>1. i \in 1..n /\ i - 1 \in 0..n
      BY <2>2
    <3>2. f[i - 1] \in Nat
      BY <1>12, <3>1
    <3>3. step[<<i, f[i - 1]>>] = f[i - 1] * radix + s[i]
      BY <1>3, <3>1, <3>2
    <3> QED
      BY <1>12, <2>2, <3>1, <3>3
  <2> QED
    BY <2>1, <2>2
<1>7. ValueSolves(f, radix, s)
  <2>1. f = [i \in 0..n |-> f[i]]
    BY <1>12
  <2> QED
    BY <1>2, <1>6, <2>1 DEF ValueSolves
<1>8. ValueSolves(v, radix, s)
  BY <1>7
<1> HIDE DEF v
<1>9. v[0] = 0 /\ \A i \in 1..n : v[i] = v[i - 1] * radix + s[i]
  <2>1. \A i \in 0..n : v[i] = IF i = 0 THEN 0 ELSE v[i - 1] * radix + s[i]
    BY <1>2, <1>8, Zenon DEF ValueSolves
  <2>2. 0 \in 0..n /\ \A i \in 1..n : i \in 0..n /\ i # 0
    OBVIOUS
  <2>3. v[0] = 0
    BY <2>1, <2>2, Zenon
  <2>4. ASSUME NEW i \in 1..n PROVE v[i] = v[i - 1] * radix + s[i]
    BY <2>1, <2>2, Zenon
  <2> QED
    BY <2>3, <2>4
<1>10. 0..n \subseteq {i \in 0..n : v[i] \in Nat}
  <2> DEFINE S == {i \in 0..n : v[i] \in Nat}
  <2>1. 0 \in S
    BY <1>9
  <2>2. ASSUME NEW i \in 0..(n - 1), i \in S PROVE i + 1 \in S
    <3>1. i + 1 \in 1..n /\ (i + 1) - 1 = i
      OBVIOUS
    <3>2. v[i + 1] = v[i] * radix + s[i + 1]
      BY <1>9, <3>1
    <3>3. PICK a \in Nat, d \in Nat : a = v[i] /\ d = s[i + 1]
      BY <1>2, <2>2, <3>1
    <3>4. v[i + 1] = a * radix + d /\ a * radix + d \in Nat
      BY <3>2, <3>3, DigitPushed
    <3> QED
      BY <3>1, <3>4
  <2> QED
    <3> HIDE DEF S
    <3>1. 0..n \subseteq S
      BY <2>1, <2>2, InductionUpTo
    <3> QED
      BY <3>1 DEF S
<1>11. v \in [0..n -> Nat]
  BY <1>2, <1>8, <1>10 DEF ValueSolves
<1> QED
  BY <1>1, <1>2, <1>9, <1>11 DEF Values

LEMMA ValueOf ==
    ASSUME NEW radix \in Nat, NEW s \in Seq(Nat), NEW v, Values(v, radix, s)
    PROVE  v[Len(s)] = ValueIn(radix, s) /\ ValueIn(radix, s) \in Nat
<1>1. PICK w \in [0..Len(s) -> Nat] : Values(w, radix, s) /\ ValueIn(radix, s) = w[Len(s)]
  BY ValueSteps
<1>2. PICK n \in Nat : n = Len(s)
  OBVIOUS
<1> DEFINE S == {i \in 0..n : v[i] = w[i]}
<1>3. 0 \in S
  BY <1>1 DEF Values
<1>4. ASSUME NEW i \in 0..(n - 1), i \in S PROVE i + 1 \in S
  <2>1. i + 1 \in 1..n /\ (i + 1) - 1 = i /\ i + 1 \in 0..n
    OBVIOUS
  <2>2. v[i + 1] = v[i] * radix + s[i + 1] /\ w[i + 1] = w[i] * radix + s[i + 1]
    BY <1>1, <1>2, <2>1 DEF Values
  <2> QED
    BY <1>4, <2>1, <2>2
<1>5. 0..n \subseteq S
  <2> HIDE DEF S
  <2> QED
    BY <1>3, <1>4, InductionUpTo
<1> QED
  BY <1>1, <1>2, <1>5

\* Sequences of as many digits are the same if their numbers are.
LEMMA ValuesTell ==
    ASSUME NEW radix \in Nat \ {0}, NEW s \in Seq(0..(radix - 1)), NEW t \in Seq(0..(radix - 1)),
           Len(s) = Len(t), ValueIn(radix, s) = ValueIn(radix, t)
    PROVE  s = t
<1>1. PICK n \in Nat : n = Len(s) /\ n = Len(t)
  OBVIOUS
<1>2. s \in Seq(Nat) /\ t \in Seq(Nat)
  OBVIOUS
<1>3. PICK v \in [0..n -> Nat] : Values(v, radix, s) /\ ValueIn(radix, s) = v[n]
  BY <1>1, <1>2, ValueSteps
<1>4. PICK w \in [0..n -> Nat] : Values(w, radix, t) /\ ValueIn(radix, t) = w[n]
  BY <1>1, <1>2, ValueSteps
<1> DEFINE S == {k \in 0..n : v[n - k] = w[n - k] /\ \A i \in (n - k + 1)..n : s[i] = t[i]}
<1>5. 0 \in S
  <2>1. 0 \in 0..n /\ n - 0 = n /\ \A i \in (n - 0 + 1)..n : FALSE
    OBVIOUS
  <2>2. v[n] = w[n]
    BY <1>1, <1>3, <1>4
  <2> QED
    BY <2>1, <2>2
<1>6. ASSUME NEW k \in 0..(n - 1), k \in S PROVE k + 1 \in S
  <2>1. PICK i \in 1..n : i = n - k /\ i - 1 = n - (k + 1) /\ i - 1 \in 0..n
    OBVIOUS
  <2>2. PICK a \in Nat, b \in Nat : a = v[i - 1] /\ b = w[i - 1]
    BY <2>1
  <2>3. PICK c \in 0..(radix - 1), d \in 0..(radix - 1) : c = s[i] /\ d = t[i]
    BY <1>1
  <2>4. v[i] = a * radix + c /\ w[i] = b * radix + d
    BY <1>1, <1>3, <1>4, <2>2, <2>3 DEF Values
  <2>5. v[i] = w[i]
    BY <1>6, <2>1
  <2>6. v[i] \div radix = a /\ v[i] % radix = c
    BY <2>4, DigitPopped
  <2>7. w[i] \div radix = b /\ w[i] % radix = d
    BY <2>4, DigitPopped
  <2>8. a = b /\ s[i] = t[i]
    BY <2>3, <2>5, <2>6, <2>7
  <2>9. \A j \in (n - (k + 1) + 1)..n : s[j] = t[j]
    <3>1. ASSUME NEW j \in (n - (k + 1) + 1)..n PROVE j = i \/ j \in (n - k + 1)..n
      BY <2>1
    <3> QED
      BY <1>6, <2>8, <3>1
  <2>11. v[i - 1] = w[i - 1]
    BY <2>2, <2>8
  <2>12. k + 1 \in 0..n /\ v[n - (k + 1)] = w[n - (k + 1)]
    BY <2>1, <2>11
  <2> QED
    BY <2>9, <2>12
<1>7. 0..n \subseteq S
  <2> HIDE DEF S
  <2> QED
    BY <1>5, <1>6, InductionUpTo
<1>8. \A i \in 1..n : s[i] = t[i]
  <2>1. n \in 0..n /\ n - n + 1 = 1
    OBVIOUS
  <2>2. n \in S
    <3> HIDE DEF S
    <3> QED
      BY <1>7, <2>1
  <2> QED
    BY <2>1, <2>2
<1> QED
  BY <1>1, <1>8

LEMMA ValueBelow ==
    ASSUME NEW radix \in Nat \ {0}, NEW s \in Seq(0..(radix - 1))
    PROVE  ValueIn(radix, s) < Power(radix, Len(s))
<1>1. PICK n \in Nat : n = Len(s)
  OBVIOUS
<1>2. s \in Seq(Nat)
  OBVIOUS
<1>3. PICK v \in [0..n -> Nat] : Values(v, radix, s) /\ ValueIn(radix, s) = v[n]
  BY <1>1, <1>2, ValueSteps
<1> DEFINE S == {i \in 0..n : v[i] < Power(radix, i)}
<1>4. 0 \in S
  BY <1>3, PowerEquation DEF Values
<1>5. ASSUME NEW i \in 0..(n - 1), i \in S PROVE i + 1 \in S
  <2>1. i + 1 \in 1..n /\ (i + 1) - 1 = i /\ i + 1 \in 0..n
    OBVIOUS
  <2>2. PICK a \in Nat, d \in 0..(radix - 1) : a = v[i] /\ d = s[i + 1]
    BY <1>1, <2>1
  <2>3. v[i + 1] = a * radix + d
    BY <1>1, <1>3, <2>1, <2>2 DEF Values
  <2>4. PICK p \in Nat : p = Power(radix, i) /\ Power(radix, i + 1) = radix * p
    <3>1. i \in Nat /\ radix \in Nat
      OBVIOUS
    <3>2. Power(radix, i) \in Nat /\ Power(radix, i + 1) = radix * Power(radix, i)
      BY <3>1, PowerEquation, PowerPositive
    <3> QED
      BY <3>2
  <2>5. a < p
    BY <1>5, <2>2, <2>4
  <2>8. a * radix + d < radix * p
    BY <2>5, PushedBelow
  <2> QED
    BY <2>1, <2>3, <2>4, <2>8
<1>6. 0..n \subseteq S
  <2> HIDE DEF S
  <2> QED
    BY <1>4, <1>5, InductionUpTo
<1> QED
  BY <1>1, <1>3, <1>6

\* Induction over sequences, and what is defined by recursion along one.

LEMMA LastTaken ==
    ASSUME NEW A, NEW s \in Seq(A), NEW n \in Nat, Len(s) = n + 1
    PROVE  /\ SubSeq(s, 1, n) \in Seq(A) /\ Len(SubSeq(s, 1, n)) = n /\ s[n + 1] \in A
           /\ s = SubSeq(s, 1, n) \o <<s[n + 1]>>
<1>1. PICK t \in Seq(A) : t = SubSeq(s, 1, n)
  <2>1. SubSeq(s, 1, n) \in Seq(A)
    OBVIOUS
  <2> QED
    BY <2>1
<1>2. Len(t) = n /\ \A i \in 1..n : t[i] = s[i]
  BY <1>1
<1>3. s[n + 1] \in A
  OBVIOUS
<1>4. t \o <<s[n + 1]>> \in Seq(A) /\ Len(t \o <<s[n + 1]>>) = n + 1
  BY <1>2, <1>3
<1>5. ASSUME NEW i \in 1..(n + 1) PROVE (t \o <<s[n + 1]>>)[i] = s[i]
  <2>1. CASE i \in 1..n
    BY <1>2, <1>3, <2>1
  <2>2. CASE i = n + 1
    BY <1>2, <1>3, <2>2
  <2>3. i \in 1..n \/ i = n + 1
    OBVIOUS
  <2> QED
    BY <2>1, <2>2, <2>3
<1>6. t \o <<s[n + 1]>> = s
  BY <1>4, <1>5
<1> QED
  BY <1>1, <1>2, <1>3, <1>6

LEMMA SeqInduction ==
    ASSUME NEW A, NEW S, <<>> \in S, \A s \in Seq(A) : \A c \in A : s \in S => s \o <<c>> \in S
    PROVE  Seq(A) \subseteq S
<1> DEFINE T == {n \in Nat : \A s \in Seq(A) : Len(s) = n => s \in S}
<1>1. 0 \in T
  <2>1. ASSUME NEW s \in Seq(A), Len(s) = 0 PROVE s = <<>>
    BY <2>1
  <2> QED
    BY <2>1
<1>2. ASSUME NEW n \in Nat, n \in T PROVE n + 1 \in T
  <2>1. ASSUME NEW s \in Seq(A), Len(s) = n + 1 PROVE s \in S
    <3>1. PICK t \in Seq(A), c \in A : Len(t) = n /\ s = t \o <<c>>
      <4>1. /\ SubSeq(s, 1, n) \in Seq(A) /\ Len(SubSeq(s, 1, n)) = n /\ s[n + 1] \in A
            /\ s = SubSeq(s, 1, n) \o <<s[n + 1]>>
        BY <2>1, LastTaken
      <4> QED
        BY <4>1, Zenon
    <3>2. t \in S
      BY <1>2, <3>1
    <3> QED
      BY <3>1, <3>2, Zenon
  <2> QED
    BY <2>1
<1>3. Nat \subseteq T
  <2> HIDE DEF T
  <2> QED
    BY <1>1, <1>2, Induction
<1>4. ASSUME NEW s \in Seq(A) PROVE s \in S
  <2>1. Len(s) \in T
    <3> HIDE DEF T
    <3> QED
      BY <1>3
  <2> QED
    BY <2>1
<1> QED
  BY <1>4

FoldStep(A, B, step) == step \in [B \X A -> B]
Folds(F, A, B, base, step) ==
    /\ F \in [Seq(A) -> B] /\ F[<<>>] = base
    /\ \A s \in Seq(A) : \A c \in A : F[s \o <<c>>] = step[<<F[s], c>>]

LEMMA Folding ==
    ASSUME NEW A, NEW B, NEW base \in B, NEW step, FoldStep(A, B, step)
    PROVE  \E F : Folds(F, A, B, base, step)
<1>1. PICK D : D = Seq(A)
  OBVIOUS
<1>2. PICK C : C = [D -> B]
  OBVIOUS
<1>3. PICK start : start = [s \in D |-> base]
  OBVIOUS
<1>4. PICK next : next = [p \in Nat \X C |-> [s \in D |->
                      IF p[1] + 1 \in 1..Len(s) THEN step[<<p[2][s], s[p[1] + 1]>>] ELSE p[2][s]]]
  OBVIOUS
<1>5. start \in C
  BY <1>2, <1>3
<1>6. StepOn(C, next)
  <2>1. ASSUME NEW p \in Nat \X C
        PROVE  [s \in D |-> IF p[1] + 1 \in 1..Len(s) THEN step[<<p[2][s], s[p[1] + 1]>>]
                            ELSE p[2][s]] \in C
    <3>1. ASSUME NEW s \in D
          PROVE  (IF p[1] + 1 \in 1..Len(s) THEN step[<<p[2][s], s[p[1] + 1]>>] ELSE p[2][s]) \in B
      <4>1. p[2][s] \in B
        BY <1>2
      <4>2. CASE p[1] + 1 \in 1..Len(s)
        <5>1. s[p[1] + 1] \in A
          BY <1>1, <4>2
        <5>2. <<p[2][s], s[p[1] + 1]>> \in B \X A
          BY <4>1, <5>1
        <5>3. step[<<p[2][s], s[p[1] + 1]>>] \in B
          BY <5>2 DEF FoldStep
        <5> QED
          BY <4>2, <5>3
      <4> QED
        BY <4>1, <4>2
    <3> QED
      BY <1>2, <3>1
  <2> QED
    BY <1>4, <2>1 DEF StepOn
<1>7. PICK G : Recurses(G, C, start, next)
  BY <1>5, <1>6, Recursion
<1>8. G \in [Nat -> C] /\ G[0] = start /\ \A n \in Nat : G[n + 1] = next[<<n, G[n]>>]
  BY <1>7 DEF Recurses
<1>9. \A n \in Nat : G[n] \in C
  BY <1>8
<1>10. ASSUME NEW n \in Nat, NEW s \in D
       PROVE  /\ n + 1 \in 1..Len(s) => G[n + 1][s] = step[<<G[n][s], s[n + 1]>>]
              /\ G[n][s] \in B
  <2>1. PICK g \in C : g = G[n]
    BY <1>9
  <2>2. G[n + 1] = next[<<n, g>>]
    BY <1>8, <2>1
  <2>3. next[<<n, g>>] = [t \in D |-> IF n + 1 \in 1..Len(t) THEN step[<<g[t], t[n + 1]>>] ELSE g[t]]
    BY <1>4
  <2>4. g[s] \in B
    BY <1>2
  <2> QED
    BY <2>1, <2>2, <2>3, <2>4
<1>11. PICK F : F = [s \in D |-> G[Len(s)][s]]
  OBVIOUS
<1>12. F \in [Seq(A) -> B]
  <2>1. ASSUME NEW s \in D PROVE G[Len(s)][s] \in B
    <3>1. Len(s) \in Nat
      BY <1>1
    <3> QED
      BY <1>10, <3>1
  <2> QED
    BY <1>1, <1>11, <2>1
<1>13. F[<<>>] = base
  <2>1. <<>> \in D /\ Len(<<>>) = 0
    BY <1>1
  <2>2. start[<<>>] = base
    BY <1>3, <2>1
  <2> QED
    BY <1>8, <1>11, <2>1, <2>2, Zenon
<1>14. ASSUME NEW s \in Seq(A), NEW c \in A PROVE F[s \o <<c>>] = step[<<F[s], c>>]
  <2>1. PICK t \in D, n \in Nat : t = s \o <<c>> /\ n = Len(s)
    <3>1. s \o <<c>> \in Seq(A) /\ Len(s) \in Nat
      OBVIOUS
    <3> QED
      BY <1>1, <3>1, Zenon
  <2>2. Len(t) = n + 1 /\ t[n + 1] = c /\ \A i \in 1..n : t[i] = s[i]
    BY <2>1
  <2>3. s \in D
    BY <1>1
  <2> DEFINE S == {i \in 0..n : G[i][t] = G[i][s]}
  <2>4. 0 \in S
    BY <1>3, <1>8, <2>3
  <2>5. ASSUME NEW i \in 0..(n - 1), i \in S PROVE i + 1 \in S
    <3>1. i \in Nat /\ i + 1 \in 1..n /\ i + 1 \in 1..Len(t) /\ i + 1 \in 1..Len(s) /\ i + 1 \in 0..n
      BY <2>1, <2>2
    <3>2. G[i + 1][t] = step[<<G[i][t], t[i + 1]>>]
      BY <1>10, <3>1
    <3>3. G[i + 1][s] = step[<<G[i][s], s[i + 1]>>]
      BY <1>10, <2>3, <3>1
    <3>4. t[i + 1] = s[i + 1]
      BY <2>2, <3>1
    <3> QED
      BY <2>5, <3>1, <3>2, <3>3, <3>4
  <2>6. 0..n \subseteq S
    <3> HIDE DEF S
    <3> QED
      BY <2>4, <2>5, InductionUpTo
  <2>7. G[n][t] = G[n][s]
    BY <2>6
  <2>8. G[n + 1][t] = step[<<G[n][t], c>>]
    <3>1. n + 1 \in 1..Len(t)
      BY <2>2
    <3> QED
      BY <1>10, <2>2, <3>1
  <2>9. F[t] = G[n + 1][t] /\ F[s] = G[n][s]
    BY <1>11, <2>1, <2>2, <2>3
  <2> QED
    BY <2>1, <2>7, <2>8, <2>9
<1> QED
  BY <1>12, <1>13, <1>14 DEF Folds

\* A fold, step by step along a sequence
StepAlong(s, n, B, step) == [p \in (1..n) \X B |-> step[<<p[2], s[p[1]]>>]]
Along(h, n, B, base, step, s) == RecursesTo(h, n, B, base, StepAlong(s, n, B, step))

LEMMA FoldAlong ==
    ASSUME NEW A, NEW B, NEW base, NEW step, NEW F, Folds(F, A, B, base, step), NEW s \in Seq(A)
    PROVE  \E h : Along(h, Len(s), B, base, step, s) /\ h[Len(s)] = F[s]
<1>1. PICK n \in Nat : n = Len(s)
  OBVIOUS
<1>2. PICK h : h = [i \in 0..n |-> F[SubSeq(s, 1, i)]]
  OBVIOUS
<1>3. F \in [Seq(A) -> B] /\ F[<<>>] = base
      /\ \A t \in Seq(A) : \A c \in A : F[t \o <<c>>] = step[<<F[t], c>>]
  BY DEF Folds
<1>4. \A i \in 0..n : SubSeq(s, 1, i) \in Seq(A)
  BY <1>1
<1>5. h \in [0..n -> B]
  BY <1>2, <1>3, <1>4
<1>6. h[0] = base
  <2>1. SubSeq(s, 1, 0) = <<>> /\ 0 \in 0..n
    OBVIOUS
  <2> QED
    BY <1>2, <1>3, <2>1
<1>7. ASSUME NEW i \in 1..n PROVE h[i] = step[<<h[i - 1], s[i]>>]
  <2>1. PICK k \in Nat : k = i - 1 /\ k + 1 = i /\ k \in 0..n
    OBVIOUS
  <2>2. PICK t \in Seq(A) : t = SubSeq(s, 1, i) /\ Len(t) = k + 1 /\ \A j \in 1..i : t[j] = s[j]
    <3>1. Len(SubSeq(s, 1, i)) = i /\ \A j \in 1..i : SubSeq(s, 1, i)[j] = s[j]
      BY <1>1
    <3>2. SubSeq(s, 1, i) \in Seq(A) /\ i = k + 1
      BY <1>4, <2>1
    <3> QED
      BY <3>1, <3>2, Zenon
  <2>3. t[i] \in A /\ SubSeq(t, 1, k) \in Seq(A) /\ t = SubSeq(t, 1, k) \o <<t[i]>>
    BY <2>1, <2>2, LastTaken
  <2>4. SubSeq(t, 1, k) = SubSeq(s, 1, k)
    <3>1. \A j \in 1..k : t[j] = s[j]
      BY <2>1, <2>2
    <3>2. SubSeq(t, 1, k) = [j \in 1..k |-> t[j]] /\ SubSeq(s, 1, k) = [j \in 1..k |-> s[j]]
      BY <1>1, <2>1, <2>2
    <3> QED
      BY <3>1, <3>2
  <2>5. t[i] = s[i]
    BY <2>2
  <2>6. F[t] = step[<<F[SubSeq(t, 1, k)], t[i]>>]
    BY <1>3, <2>3, Zenon
  <2>7. h[i] = F[t] /\ h[k] = F[SubSeq(s, 1, k)]
    BY <1>2, <2>1, <2>2
  <2> QED
    BY <2>1, <2>4, <2>5, <2>6, <2>7, Zenon
<1>8. ASSUME NEW i \in 1..n PROVE h[i] = StepAlong(s, n, B, step)[<<i, h[i - 1]>>]
  <2>1. h[i - 1] \in B
    BY <1>5
  <2> QED
    BY <1>7, <2>1 DEF StepAlong
<1>9. Along(h, n, B, base, step, s)
  BY <1>5, <1>6, <1>8 DEF RecursesTo, Along
<1>10. h[n] = F[s]
  <2>1. SubSeq(s, 1, n) = s
    BY <1>1
  <2> QED
    BY <1>2, <2>1
<1> QED
  BY <1>1, <1>9, <1>10

Steps(h, n, A, B, base, step, s) ==
    /\ h \in [0..n -> B] /\ h[0] = base
    /\ \A i \in 1..n : h[i - 1] \in B /\ s[i] \in A /\ h[i] = step[<<h[i - 1], s[i]>>]

LEMMA FoldSteps ==
    ASSUME NEW A, NEW B, NEW base, NEW step, NEW F, Folds(F, A, B, base, step), NEW s \in Seq(A)
    PROVE  \E h : Steps(h, Len(s), A, B, base, step, s) /\ h[Len(s)] = F[s]
<1>1. PICK n \in Nat : n = Len(s)
  OBVIOUS
<1>2. PICK h : Along(h, n, B, base, step, s) /\ h[n] = F[s]
  BY <1>1, FoldAlong
<1>3. /\ h \in [0..n -> B] /\ h[0] = base
      /\ \A i \in 1..n : h[i] = StepAlong(s, n, B, step)[<<i, h[i - 1]>>]
  BY <1>2 DEF Along, RecursesTo
<1>4. ASSUME NEW i \in 1..n PROVE h[i - 1] \in B /\ s[i] \in A /\ h[i] = step[<<h[i - 1], s[i]>>]
  <2>1. h[i - 1] \in B /\ s[i] \in A
    BY <1>1, <1>3
  <2> QED
    BY <1>3, <2>1 DEF StepAlong
<1>5. Steps(h, n, A, B, base, step, s)
  BY <1>3, <1>4 DEF Steps
<1> QED
  BY <1>1, <1>2, <1>5

-----------------------------------------------------------------------------

\* What a text has of some characters

Bit(chars, c) == IF c \in chars THEN <<c>> ELSE <<>>
Picks(upTo, chars, s) ==
    upTo = [i \in 0..Len(s) |-> IF i = 0 THEN <<>> ELSE upTo[i - 1] \o Bit(chars, s[i])]

LEMMA BitIsSeq == ASSUME NEW A, NEW chars, NEW c \in A PROVE Bit(chars, c) \in Seq(A \intersect chars)
<1>1. CASE c \in chars
  <2>1. PICK d \in A \intersect chars : d = c
    BY <1>1
  <2>2. <<d>> \in Seq(A \intersect chars)
    OBVIOUS
  <2> QED
    BY <1>1, <2>1, <2>2 DEF Bit
<1>2. CASE c \notin chars
  <2>1. <<>> \in Seq(A \intersect chars)
    OBVIOUS
  <2> QED
    BY <1>2, <2>1 DEF Bit
<1> QED
  BY <1>1, <1>2

OnlyStep(A, chars) == [p \in Seq(A \intersect chars) \X A |-> p[1] \o Bit(chars, p[2])]

LEMMA OnlyIsFold ==
    ASSUME NEW A, NEW chars, NEW s \in Seq(A),
           NEW F, Folds(F, A, Seq(A \intersect chars), <<>>, OnlyStep(A, chars))
    PROVE  Only(chars, s) = F[s]
<1> DEFINE upTo == CHOOSE g : Picks(g, chars, s)
<1>1. PICK n \in Nat, B \in {Seq(A \intersect chars)}, step \in {OnlyStep(A, chars)} :
          n = Len(s) /\ B = Seq(A \intersect chars) /\ step = OnlyStep(A, chars)
  OBVIOUS
<1>2. Only(chars, s) = upTo[n]
  BY <1>1 DEF Only, Picks, Bit
<1>3. PICK h : Steps(h, n, A, B, <<>>, step, s) /\ h[n] = F[s]
  <2>2. PICK base : base = <<>>
    OBVIOUS
  <2>3. Folds(F, A, B, base, step)
    BY <1>1, <2>2, Zenon
  <2>1. \E h : Steps(h, Len(s), A, B, base, step, s) /\ h[Len(s)] = F[s]
    BY <2>3, FoldSteps
  <2> QED
    BY <1>1, <2>1, <2>2, Zenon
<1>4. /\ h \in [0..n -> B] /\ h[0] = <<>>
      /\ \A i \in 1..n : h[i - 1] \in B /\ s[i] \in A /\ h[i] = step[<<h[i - 1], s[i]>>]
  BY <1>3, Zenon DEF Steps
<1>5. ASSUME NEW i \in 1..n PROVE h[i] = h[i - 1] \o Bit(chars, s[i])
  BY <1>1, <1>4 DEF OnlyStep
<1>6. Picks(h, chars, s)
  <2>1. h = [i \in 0..n |-> h[i]]
    BY <1>4
  <2>2. ASSUME NEW i \in 0..n
        PROVE  h[i] = IF i = 0 THEN <<>> ELSE h[i - 1] \o Bit(chars, s[i])
    <3>1. CASE i = 0
      BY <1>4, <3>1
    <3>2. CASE i # 0
      <4>1. i \in 1..n
        BY <3>2
      <4> QED
        BY <1>5, <3>2, <4>1, Zenon
    <3> QED
      BY <3>1, <3>2
  <2> QED
    BY <1>1, <2>1, <2>2 DEF Picks
<1>7. Picks(upTo, chars, s)
  BY <1>6
<1> HIDE DEF upTo
<1>8. upTo[0] = <<>> /\ \A i \in 1..n : upTo[i] = upTo[i - 1] \o Bit(chars, s[i])
  <2>1. \A i \in 0..n : upTo[i] = IF i = 0 THEN <<>> ELSE upTo[i - 1] \o Bit(chars, s[i])
    BY <1>1, <1>7, Zenon DEF Picks
  <2>2. 0 \in 0..n /\ \A i \in 1..n : i \in 0..n /\ i # 0
    OBVIOUS
  <2>3. upTo[0] = <<>>
    BY <2>1, <2>2, Zenon
  <2>4. ASSUME NEW i \in 1..n PROVE upTo[i] = upTo[i - 1] \o Bit(chars, s[i])
    BY <2>1, <2>2, Zenon
  <2> QED
    BY <2>3, <2>4
<1> DEFINE S == {i \in 0..n : upTo[i] = h[i]}
<1>9. 0 \in S
  BY <1>4, <1>8
<1>10. ASSUME NEW i \in 0..(n - 1), i \in S PROVE i + 1 \in S
  <2>1. i + 1 \in 1..n /\ (i + 1) - 1 = i /\ i + 1 \in 0..n
    OBVIOUS
  <2>2. upTo[i + 1] = upTo[i] \o Bit(chars, s[i + 1]) /\ h[i + 1] = h[i] \o Bit(chars, s[i + 1])
    BY <1>5, <1>8, <2>1
  <2>3. upTo[i] = h[i]
    BY <1>10
  <2>4. upTo[i + 1] = h[i + 1]
    BY <2>2, <2>3, Zenon
  <2> QED
    BY <2>1, <2>4
<1>11. 0..n \subseteq S
  <2> HIDE DEF S
  <2> QED
    BY <1>9, <1>10, InductionUpTo
<1>12. upTo[n] = h[n]
  BY <1>11
<1> QED
  BY <1>2, <1>3, <1>12

LEMMA OnlyEmpty == \A chars : Only(chars, <<>>) = <<>>
<1> SUFFICES ASSUME NEW chars PROVE Only(chars, <<>>) = <<>>
  OBVIOUS
<1> DEFINE upTo == CHOOSE g : Picks(g, chars, <<>>)
<1>1. Len(<<>>) = 0
  OBVIOUS
<1>2. Only(chars, <<>>) = upTo[0]
  BY <1>1 DEF Only, Picks, Bit
<1>3. PICK h : h = [i \in 0..0 |-> <<>>]
  OBVIOUS
<1>4. Picks(h, chars, <<>>)
  <2>1. ASSUME NEW i \in 0..0
        PROVE  <<>> = IF i = 0 THEN <<>> ELSE h[i - 1] \o Bit(chars, <<>>[i])
    OBVIOUS
  <2> QED
    BY <1>1, <1>3, <2>1 DEF Picks
<1>5. Picks(upTo, chars, <<>>)
  BY <1>4
<1> HIDE DEF upTo
<1>6. upTo[0] = <<>>
  BY <1>1, <1>5 DEF Picks
<1> QED
  BY <1>2, <1>6

LEMMA OnlyFolds ==
    ASSUME NEW A, NEW chars
    PROVE  /\ \A s \in Seq(A) : Only(chars, s) \in Seq(A \intersect chars)
           /\ \A s \in Seq(A) : \A c \in A : Only(chars, s \o <<c>>) = Only(chars, s) \o Bit(chars, c)
<1>1. PICK B : B = Seq(A \intersect chars)
  OBVIOUS
<1>2. PICK step : step = OnlyStep(A, chars) /\ step = [p \in B \X A |-> p[1] \o Bit(chars, p[2])]
  BY <1>1 DEF OnlyStep
<1>3. FoldStep(A, B, step)
  <2>1. ASSUME NEW p \in B \X A PROVE p[1] \o Bit(chars, p[2]) \in B
    <3>1. PICK t : t = Bit(chars, p[2])
      OBVIOUS
    <3>2. t \in Seq(A \intersect chars)
      BY <3>1, BitIsSeq
    <3> QED
      BY <1>1, <3>1, <3>2
  <2> QED
    BY <1>2, <2>1 DEF FoldStep
<1>4. <<>> \in B
  BY <1>1
<1>5. PICK F : Folds(F, A, B, <<>>, step)
  BY <1>3, <1>4, Folding
<1>6. \A s \in Seq(A) : Only(chars, s) = F[s]
  <2>1. Folds(F, A, Seq(A \intersect chars), <<>>, OnlyStep(A, chars))
    BY <1>1, <1>2, <1>5, Zenon
  <2> QED
    BY <2>1, OnlyIsFold, Zenon
<1>7. /\ F \in [Seq(A) -> B] /\ F[<<>>] = <<>>
      /\ \A s \in Seq(A) : \A c \in A : F[s \o <<c>>] = step[<<F[s], c>>]
  BY <1>5 DEF Folds
<1>9. ASSUME NEW s \in Seq(A) PROVE Only(chars, s) \in Seq(A \intersect chars)
  BY <1>1, <1>6, <1>7
<1>10. ASSUME NEW s \in Seq(A), NEW c \in A
       PROVE  Only(chars, s \o <<c>>) = Only(chars, s) \o Bit(chars, c)
  <2>1. s \o <<c>> \in Seq(A) /\ F[s] \in B
    BY <1>7
  <2>2. step[<<F[s], c>>] = F[s] \o Bit(chars, c)
    BY <1>2, <2>1
  <2> QED
    BY <1>6, <1>7, <2>1, <2>2
<1> QED
  BY <1>9, <1>10

\* Of a text whose characters are all meant, all; of the others, nothing.
LEMMA OnlyAll ==
    ASSUME NEW A, NEW chars, A \subseteq chars, NEW s \in Seq(A)
    PROVE  Only(chars, s) = s
<1> DEFINE S == {t \in Seq(A) : Only(chars, t) = t}
<1>1. <<>> \in S
  BY OnlyEmpty
<1>2. ASSUME NEW t \in Seq(A), NEW c \in A, t \in S PROVE t \o <<c>> \in S
  <2>1. Only(chars, t \o <<c>>) = Only(chars, t) \o Bit(chars, c)
    BY OnlyFolds, ZenonT(40)
  <2>2. Bit(chars, c) = <<c>>
    BY DEF Bit
  <2>3. Only(chars, t) = t /\ t \o <<c>> \in Seq(A)
    BY <1>2
  <2> QED
    BY <2>1, <2>2, <2>3, Zenon
<1>3. Seq(A) \subseteq S
  <2> HIDE DEF S
  <2> QED
    BY <1>1, <1>2, SeqInduction
<1> QED
  BY <1>3

LEMMA OnlyNone ==
    ASSUME NEW A, NEW chars, A \intersect chars = {}, NEW s \in Seq(A)
    PROVE  Only(chars, s) = <<>>
<1>1. Only(chars, s) \in Seq(A \intersect chars)
  BY OnlyFolds
<1>2. PICK t \in Seq({}) : t = Only(chars, s)
  BY <1>1
<1>3. t = <<>>
  <2>1. Len(t) = 0
    <3>1. CASE Len(t) > 0
      <4>1. t[1] \in {}
        BY <3>1
      <4> QED
        BY <4>1
    <3> QED
      BY <3>1
  <2> QED
    BY <2>1
<1> QED
  BY <1>2, <1>3

LEMMA OnlyJoined ==
    ASSUME NEW A, NEW chars, NEW s \in Seq(A), NEW t \in Seq(A)
    PROVE  Only(chars, s \o t) = Only(chars, s) \o Only(chars, t)
<1>1. PICK O : O = Seq(A \intersect chars)
  OBVIOUS
<1>2. \A u \in Seq(A) : Only(chars, u) \in O
  BY <1>1, OnlyFolds
<1>3. \A a, b, c \in O : (a \o b) \o c = a \o (b \o c)
  BY <1>1
<1> DEFINE S == {u \in Seq(A) : Only(chars, s \o u) = Only(chars, s) \o Only(chars, u)}
<1>4. <<>> \in S
  <2>1. s \o <<>> = s /\ Only(chars, <<>>) = <<>> /\ <<>> \in Seq(A)
    BY OnlyEmpty
  <2>2. PICK a \in O : a = Only(chars, s)
    BY <1>2
  <2>3. a \o <<>> = a
    BY <1>1
  <2> QED
    BY <2>1, <2>2, <2>3, Zenon
<1>5. ASSUME NEW u \in Seq(A), NEW c \in A, u \in S PROVE u \o <<c>> \in S
  <2>1. u \o <<c>> \in Seq(A) /\ s \o u \in Seq(A) /\ s \o (u \o <<c>>) = (s \o u) \o <<c>>
    OBVIOUS
  <2>2. Only(chars, (s \o u) \o <<c>>) = Only(chars, s \o u) \o Bit(chars, c)
    BY <2>1, OnlyFolds, ZenonT(40)
  <2>3. Only(chars, u \o <<c>>) = Only(chars, u) \o Bit(chars, c)
    BY <2>1, OnlyFolds, ZenonT(40)
  <2>4. PICK a \in O, b \in O, d \in O : a = Only(chars, s) /\ b = Only(chars, u) /\ d = Bit(chars, c)
    <3>1. Bit(chars, c) \in O
      BY <1>1, BitIsSeq
    <3> QED
      BY <1>2, <3>1
  <2>5. Only(chars, s \o u) = a \o b
    BY <1>5, <2>4
  <2>6. (a \o b) \o d = a \o (b \o d)
    BY <1>3
  <2>7. Only(chars, s \o (u \o <<c>>)) = (a \o b) \o d
    BY <2>1, <2>2, <2>4, <2>5, Zenon
  <2>8. Only(chars, u \o <<c>>) = b \o d
    BY <2>3, <2>4, Zenon
  <2>9. Only(chars, s \o (u \o <<c>>)) = Only(chars, s) \o Only(chars, u \o <<c>>)
    BY <2>4, <2>6, <2>7, <2>8, Zenon
  <2> QED
    BY <2>1, <2>9, Zenon
<1>6. Seq(A) \subseteq S
  <2> HIDE DEF S
  <2> QED
    BY <1>4, <1>5, SeqInduction
<1> QED
  BY <1>6

\* Who picks twice, picks what he wants both times.
LEMMA OnlyTwice ==
    ASSUME NEW A, NEW chars, NEW wider, A \intersect chars \subseteq wider, NEW s \in Seq(A)
    PROVE  Only(chars, Only(wider, s)) = Only(chars, s)
<1> DEFINE S == {t \in Seq(A) : Only(chars, Only(wider, t)) = Only(chars, t)}
<1>1. <<>> \in S
  BY OnlyEmpty
<1>2. ASSUME NEW t \in Seq(A), NEW c \in A, t \in S PROVE t \o <<c>> \in S
  <2>1. Only(wider, t \o <<c>>) = Only(wider, t) \o Bit(wider, c)
    BY OnlyFolds, ZenonT(40)
  <2>2. Only(chars, t \o <<c>>) = Only(chars, t) \o Bit(chars, c)
    BY OnlyFolds, ZenonT(40)
  <2>3. Only(wider, t) \in Seq(A) /\ Bit(wider, c) \in Seq(A)
    <3>1. Only(wider, t) \in Seq(A \intersect wider) /\ Bit(wider, c) \in Seq(A \intersect wider)
      BY OnlyFolds, BitIsSeq
    <3> QED
      BY <3>1
  <2>4. Only(chars, Only(wider, t) \o Bit(wider, c))
            = Only(chars, Only(wider, t)) \o Only(chars, Bit(wider, c))
    <3>1. PICK a \in Seq(A), b \in Seq(A) : a = Only(wider, t) /\ b = Bit(wider, c)
      BY <2>3
    <3>2. Only(chars, a \o b) = Only(chars, a) \o Only(chars, b)
      BY OnlyJoined, SMTT(30)
    <3> QED
      BY <3>1, <3>2, Zenon
  <2>5. Only(chars, Bit(wider, c)) = Bit(chars, c)
    <3>1. CASE c \in wider
      <4>1. Bit(wider, c) = <<c>> /\ <<>> \in Seq(A) /\ <<>> \o <<c>> = <<c>>
        BY <3>1 DEF Bit
      <4>2. Only(chars, <<>> \o <<c>>) = Only(chars, <<>>) \o Bit(chars, c)
        <5>1. PICK none \in Seq(A) : none = <<>>
          BY <4>1
        <5>2. Only(chars, none \o <<c>>) = Only(chars, none) \o Bit(chars, c)
          BY OnlyFolds, ZenonT(40)
        <5> QED
          BY <5>1, <5>2, Zenon
      <4>3. Only(chars, <<>>) = <<>>
        BY OnlyEmpty
      <4>4. <<>> \o Bit(chars, c) = Bit(chars, c)
        <5>1. PICK d \in Seq(A \intersect chars) : d = Bit(chars, c)
          BY BitIsSeq
        <5>2. <<>> \o d = d
          OBVIOUS
        <5> QED
          BY <5>1, <5>2
      <4> QED
        BY <4>1, <4>2, <4>3, <4>4, Zenon
    <3>2. CASE c \notin wider
      <4>1. c \notin chars
        BY <3>2
      <4>2. Bit(wider, c) = <<>> /\ Bit(chars, c) = <<>>
        BY <3>2, <4>1 DEF Bit
      <4> QED
        BY <4>2, OnlyEmpty, Zenon
    <3> QED
      BY <3>1, <3>2
  <2>6. Only(chars, Only(wider, t)) = Only(chars, t) /\ t \o <<c>> \in Seq(A)
    BY <1>2
  <2> QED
    BY <2>1, <2>2, <2>4, <2>5, <2>6, Zenon
<1>3. Seq(A) \subseteq S
  <2> HIDE DEF S
  <2> QED
    BY <1>1, <1>2, SeqInduction
<1> QED
  BY <1>3

LEMMA OnlyTells ==
    ASSUME NEW A, NEW chars, NEW s \in Seq(A), Only(chars, s) = <<>>
    PROVE  s \in Seq(A \ chars)
<1> DEFINE S == {t \in Seq(A) : Only(chars, t) = <<>> => t \in Seq(A \ chars)}
<1>1. <<>> \in S
  OBVIOUS
<1>2. ASSUME NEW t \in Seq(A), NEW c \in A, t \in S PROVE t \o <<c>> \in S
  <2>1. Only(chars, t \o <<c>>) = Only(chars, t) \o Bit(chars, c)
    BY OnlyFolds
  <2>4. t \o <<c>> \in Seq(A)
    OBVIOUS
  <2>2. PICK a \in Seq(A \intersect chars), b \in Seq(A \intersect chars) :
            a = Only(chars, t) /\ b = Bit(chars, c)
    BY OnlyFolds, BitIsSeq
  <2>3. ASSUME a \o b = <<>> PROVE t \o <<c>> \in Seq(A \ chars)
    <3>1. Len(a) + Len(b) = 0
      <4>1. Len(a \o b) = 0 /\ Len(a \o b) = Len(a) + Len(b)
        BY <2>3
      <4> QED
        BY <4>1
    <3>2. a = <<>> /\ Len(b) = 0
      BY <3>1
    <3>3. c \notin chars
      BY <2>2, <3>2 DEF Bit
    <3>4. t \in Seq(A \ chars) /\ c \in A \ chars
      BY <1>2, <2>2, <3>2, <3>3
    <3> QED
      BY <3>4
  <2> QED
    BY <2>1, <2>2, <2>3, <2>4, Zenon
<1>3. Seq(A) \subseteq S
  <2> HIDE DEF S
  <2> QED
    BY <1>1, <1>2, SeqInduction
<1> QED
  BY <1>3

\* As many characters as there are places they stand at
LEMMA OnlyCounts ==
    ASSUME NEW A, NEW chars, NEW s \in Seq(A)
    PROVE  /\ IsFiniteSet({i \in DOMAIN s : s[i] \in chars})
           /\ Cardinality({i \in DOMAIN s : s[i] \in chars}) = Len(Only(chars, s))
<1> DEFINE At(t) == {i \in DOMAIN t : t[i] \in chars}
           S == {t \in Seq(A) : IsFiniteSet(At(t)) /\ Cardinality(At(t)) = Len(Only(chars, t))}
<1>1. <<>> \in S
  <2>1. At(<<>>) = {} /\ Only(chars, <<>>) = <<>> /\ <<>> \in Seq(A)
    BY OnlyEmpty
  <2>2. IsFiniteSet({}) /\ Cardinality({}) = 0
    BY FS_EmptySet
  <2> QED
    BY <2>1, <2>2
<1>2. ASSUME NEW t \in Seq(A), NEW c \in A, t \in S PROVE t \o <<c>> \in S
  <2>1. Only(chars, t \o <<c>>) = Only(chars, t) \o Bit(chars, c)
    BY OnlyFolds
  <2>2. PICK more \in Seq(A), n \in Nat : more = t \o <<c>> /\ n = Len(t)
    <3>1. t \o <<c>> \in Seq(A) /\ Len(t) \in Nat
      OBVIOUS
    <3> QED
      BY <3>1, Zenon
  <2>3. DOMAIN more = 1..(n + 1) /\ more[n + 1] = c /\ DOMAIN t = 1..n
        /\ \A i \in 1..n : more[i] = t[i]
    BY <2>2
  <2>4. At(more) = At(t) \union IF c \in chars THEN {n + 1} ELSE {}
    BY <2>3
  <2>5. n + 1 \notin At(t)
    BY <2>3
  <2>6. IsFiniteSet(At(t)) /\ Cardinality(At(t)) = Len(Only(chars, t))
    BY <1>2
  <2>7. Only(chars, t) \in Seq(A \intersect chars)
    BY OnlyFolds
  <2>8. CASE c \in chars
    <3>1. IsFiniteSet(At(t) \union {n + 1})
          /\ Cardinality(At(t) \union {n + 1}) = Cardinality(At(t)) + 1
      <4> HIDE DEF At
      <4> QED
        BY <2>5, <2>6, FS_AddElement
    <3>2. Bit(chars, c) = <<c>>
      BY <2>8 DEF Bit
    <3>3. PICK k \in Seq(A \intersect chars), d \in A \intersect chars : k = Only(chars, t) /\ d = c
      BY <2>7, <2>8
    <3>4. Len(k \o <<d>>) = Len(k) + 1
      OBVIOUS
    <3>5. Len(Only(chars, more)) = Len(Only(chars, t)) + 1
      BY <2>1, <2>2, <3>2, <3>3, <3>4
    <3>6. At(more) = At(t) \union {n + 1}
      BY <2>4, <2>8
    <3> QED
      <4> HIDE DEF At
      <4>1. IsFiniteSet(At(more)) /\ Cardinality(At(more)) = Len(Only(chars, more))
        BY <2>6, <3>1, <3>5, <3>6, Zenon
      <4> QED
        BY <2>2, <4>1
  <2>9. CASE c \notin chars
    <3>1. Bit(chars, c) = <<>>
      BY <2>9 DEF Bit
    <3>2. PICK k \in Seq(A \intersect chars) : k = Only(chars, t)
      BY <2>7
    <3>3. k \o <<>> = k
      OBVIOUS
    <3>4. Only(chars, more) = Only(chars, t)
      BY <2>1, <2>2, <3>1, <3>2, <3>3, Zenon
    <3>5. At(more) = At(t)
      BY <2>4, <2>9
    <3> QED
      <4> HIDE DEF At
      <4>1. IsFiniteSet(At(more)) /\ Cardinality(At(more)) = Len(Only(chars, more))
        BY <2>6, <3>4, <3>5, Zenon
      <4> QED
        BY <2>2, <4>1
  <2> QED
    BY <2>8, <2>9
<1>3. Seq(A) \subseteq S
  <2> HIDE DEF S
  <2> QED
    BY <1>1, <1>2, SeqInduction
<1> QED
  BY <1>3

-----------------------------------------------------------------------------

\* Base64

\* A digit more, and none
LEMMA ValuePushed ==
    ASSUME NEW radix \in Nat, NEW s \in Seq(Nat), NEW d \in Nat
    PROVE  ValueIn(radix, s \o <<d>>) = ValueIn(radix, s) * radix + d
<1>1. PICK t \in Seq(Nat), n \in Nat : t = s \o <<d>> /\ n = Len(s)
  <2>1. s \o <<d>> \in Seq(Nat) /\ Len(s) \in Nat
    OBVIOUS
  <2> QED
    BY <2>1, Zenon
<1>2. Len(t) = n + 1 /\ t[n + 1] = d /\ \A i \in 1..n : t[i] = s[i]
  BY <1>1
<1>3. PICK v \in [0..Len(t) -> Nat] : Values(v, radix, t) /\ ValueIn(radix, t) = v[Len(t)]
  BY ValueSteps
<1>4. v[0] = 0 /\ \A i \in 1..(n + 1) : v[i] = v[i - 1] * radix + t[i]
  BY <1>2, <1>3 DEF Values
<1>5. Values(v, radix, s)
  <2>1. ASSUME NEW i \in 1..n PROVE v[i] = v[i - 1] * radix + s[i]
    <3>1. i \in 1..(n + 1) /\ t[i] = s[i]
      BY <1>2
    <3>2. v[i] = v[i - 1] * radix + t[i]
      BY <1>4, <3>1
    <3> QED
      BY <3>1, <3>2, Zenon
  <2> QED
    BY <1>1, <1>4, <2>1 DEF Values
<1>6. v[n] = ValueIn(radix, s)
  BY <1>1, <1>5, ValueOf
<1>7. v[n + 1] = v[n] * radix + d
  <2>1. n + 1 \in 1..(n + 1) /\ (n + 1) - 1 = n
    OBVIOUS
  <2>2. v[n + 1] = v[(n + 1) - 1] * radix + t[n + 1]
    BY <1>4, <2>1
  <2> QED
    BY <1>2, <2>1, <2>2
<1> QED
  BY <1>1, <1>2, <1>3, <1>6, <1>7

LEMMA ValueEmpty == ASSUME NEW radix \in Nat PROVE ValueIn(radix, <<>>) = 0
<1>1. PICK s \in Seq(Nat) : s = <<>> /\ Len(s) = 0
  <2>1. <<>> \in Seq(Nat) /\ Len(<<>>) = 0
    OBVIOUS
  <2> QED
    BY <2>1
<1>2. PICK v \in [0..Len(s) -> Nat] : Values(v, radix, s) /\ ValueIn(radix, s) = v[Len(s)]
  BY ValueSteps
<1> QED
  BY <1>1, <1>2 DEF Values

LEMMA ValueIsNatural == ASSUME NEW radix \in Nat, NEW s \in Seq(Nat) PROVE ValueIn(radix, s) \in Nat
<1>1. PICK v \in [0..Len(s) -> Nat] : Values(v, radix, s) /\ ValueIn(radix, s) = v[Len(s)]
  BY ValueSteps
<1>2. Len(s) \in 0..Len(s)
  OBVIOUS
<1> QED
  BY <1>1, <1>2

-----------------------------------------------------------------------------

\* Base64

Buffers ==
    {x \in [buffer : Nat, bits : 0..(ByteBits - 1), out : Seq(ByteValue)] :
        x.buffer < Power(2, x.bits)}

LEMMA Sizes64 ==
    /\ ByteBits \in Nat /\ DigitBits \in Nat /\ 3 * ByteBits = 4 * DigitBits
    /\ ByteValues \in Nat \ {0} /\ ByteValues >= 6 /\ ByteBits > 0 /\ DigitBits > 0
    /\ DigitValues \in Nat \ {0} /\ DigitValues >= 2 /\ Power(2, ByteBits) = ByteValues
    /\ ByteValue = 0..(ByteValues - 1) /\ ByteValue \subseteq Nat
<1>1. ByteBits \in Nat /\ DigitBits \in Nat /\ 3 * ByteBits = 4 * DigitBits
      /\ Power(2, ByteBits) = ByteValues /\ Radix \in 4..(ByteValues - 1)
  BY CodecsAssumption
<1>2. ByteValues \in Nat
  <2>1. 2 \in Nat \ {0}
    OBVIOUS
  <2> QED
    BY <1>1, <2>1, PowerPositive
<1>3. ByteValues >= 5
  BY <1>1, <1>2
<1>4. ByteBits # 0
  <2>1. Power(2, 0) = 1
    BY PowerEquation
  <2> QED
    BY <1>1, <1>3, <2>1
<1>5. DigitBits # 0
  BY <1>1, <1>4
<1>6. PICK k \in Nat : DigitBits = k + 1
  <2>1. DigitBits - 1 \in Nat /\ DigitBits = (DigitBits - 1) + 1
    BY <1>1, <1>5
  <2> QED
    BY <2>1
<1>7. DigitValues = 2 * Power(2, k) /\ Power(2, k) \in Nat \ {0}
  <2>1. 2 \in Nat \ {0} /\ 2 \in Nat
    OBVIOUS
  <2> QED
    BY <1>6, <2>1, PowerEquation, PowerPositive DEF DigitValues
<1>8. ByteValues # 5
  <2>1. PICK j \in Nat : ByteBits = j + 1
    <3>1. ByteBits - 1 \in Nat /\ ByteBits = (ByteBits - 1) + 1
      BY <1>1, <1>4
    <3> QED
      BY <3>1
  <2>2. 2 \in Nat \ {0} /\ 2 \in Nat
    OBVIOUS
  <2>3. ByteValues = 2 * Power(2, j) /\ Power(2, j) \in Nat
    BY <1>1, <2>1, <2>2, PowerEquation, PowerPositive
  <2> QED
    BY <2>3
<1>9. ByteValue = 0..(ByteValues - 1)
  BY DEF ByteValue
<1>10. ByteValue \subseteq Nat
  BY <1>2, <1>9
<1> QED
  BY <1>1, <1>2, <1>3, <1>4, <1>5, <1>7, <1>8, <1>9, <1>10

LEMMA TwoPowers ==
    /\ \A k \in Nat : Power(2, k) \in Nat \ {0}
    /\ \A j, k \in Nat : Power(2, j + k) = Power(2, j) * Power(2, k)
<1>1. 2 \in Nat \ {0}
  OBVIOUS
<1> QED
  BY <1>1, PowerPositive, PowerSum

\* What the bytes and the buffer hold together
Held(x) == ValueIn(ByteValues, x.out) * Power(2, x.bits) + x.buffer

LEMMA BufferedHolds ==
    ASSUME NEW x \in Buffers, NEW d \in Digit64
    PROVE  /\ Buffered(x, d) \in Buffers
           /\ Held(Buffered(x, d)) = Held(x) * DigitValues + d
           /\ Len(Buffered(x, d).out) * ByteBits + Buffered(x, d).bits
                  = Len(x.out) * ByteBits + x.bits + DigitBits
<1>1. PICK P \in Nat \ {0}, W \in Nat \ {0}, bb \in Nat, db \in Nat :
          P = DigitValues /\ W = ByteValues /\ bb = ByteBits /\ db = DigitBits
  BY Sizes64
<1>2. PICK b \in Nat, k \in 0..(bb - 1), out \in Seq(ByteValue) :
          x = [buffer |-> b, bits |-> k, out |-> out] /\ b < Power(2, k)
  <2>1. /\ x.buffer \in Nat /\ x.bits \in 0..(bb - 1) /\ x.out \in Seq(ByteValue)
        /\ x = [buffer |-> x.buffer, bits |-> x.bits, out |-> x.out]
        /\ x.buffer < Power(2, x.bits)
    BY <1>1 DEF Buffers
  <2> QED
    BY <2>1
<1>3. PICK q \in Nat \ {0} : q = Power(2, k)
  BY <1>2, TwoPowers, SMTT(30)
<1>4. PICK c \in Nat : c = b * P + d
  <2>1. d \in Nat
    BY <1>1 DEF Digit64
  <2> QED
    BY <2>1, DigitPushed
<1>5. c < P * q
  <2>1. d \in 0..(P - 1) /\ b < q
    BY <1>1, <1>2, <1>3 DEF Digit64
  <2> QED
    BY <1>4, <2>1, PushedBelow
<1>6. Power(2, k + db) = q * P
  BY <1>1, <1>2, <1>3, TwoPowers DEF DigitValues
<1>7. PICK V \in Nat : V = ValueIn(ByteValues, out)
  <2>1. out \in Seq(Nat) /\ ByteValues \in Nat
    BY Sizes64
  <2> QED
    BY <2>1, ValueIsNatural
<1>8. Held(x) = V * q + b
  BY <1>2, <1>3, <1>7 DEF Held
<1>9. Held(x) * DigitValues + d = (V * q) * P + c
  <2>1. (V * q + b) * P = (V * q) * P + b * P
    BY <1>2
  <2>2. PICK y \in Nat, z \in Nat : y = (V * q) * P /\ z = b * P
    OBVIOUS
  <2>3. d \in Nat
    BY <1>1 DEF Digit64
  <2> QED
    BY <1>1, <1>4, <1>8, <2>1, <2>2, <2>3
<1>10. Buffered(x, d) = IF k + db - bb < 0 THEN [buffer |-> c, bits |-> k + db, out |-> out]
                        ELSE [buffer |-> c % Power(2, k + db - bb), bits |-> k + db - bb,
                              out |-> out \o <<c \div Power(2, k + db - bb)>>]
  <2>1. x.buffer = b /\ x.bits = k /\ x.out = out
    BY <1>2
  <2>2. x.buffer * Power(2, DigitBits) + d = c /\ x.bits + DigitBits = k + db
    BY <1>1, <1>4, <2>1, Zenon DEF DigitValues
  <2>3. (x.bits + DigitBits) - ByteBits = k + db - bb
    BY <1>1, <2>2
  <2> QED
    BY <2>1, <2>2, <2>3, Zenon DEF Buffered
<1>11. CASE k + db - bb < 0
  <2>1. Buffered(x, d) = [buffer |-> c, bits |-> k + db, out |-> out]
    BY <1>10, <1>11
  <2>2. k + db \in 0..(ByteBits - 1) /\ c < Power(2, k + db)
    <3>1. q * P = P * q
      OBVIOUS
    <3> QED
      BY <1>1, <1>5, <1>6, <1>11, <3>1
  <2>3. Buffered(x, d) \in Buffers
    BY <2>1, <2>2 DEF Buffers
  <2>4. Held(Buffered(x, d)) = V * (q * P) + c
    BY <1>6, <1>7, <2>1 DEF Held
  <2>5. V * (q * P) = (V * q) * P
    OBVIOUS
  <2>6. Len(Buffered(x, d).out) * ByteBits + Buffered(x, d).bits
            = Len(x.out) * ByteBits + x.bits + DigitBits
    <3>1. PICK m \in Nat : m = Len(out) * bb
      <4>1. Len(out) \in Nat
        OBVIOUS
      <4> QED
        BY <4>1
    <3> QED
      BY <1>1, <1>2, <2>1, <3>1
  <2> QED
    BY <1>9, <2>3, <2>4, <2>5, <2>6
<1>12. CASE ~(k + db - bb < 0)
  <2>1. PICK rest \in Nat : rest = k + db - bb /\ bb + rest = k + db
    BY <1>12
  <2>2. Buffered(x, d) = [buffer |-> c % Power(2, rest), bits |-> rest,
                          out |-> out \o <<c \div Power(2, rest)>>]
    BY <1>10, <1>12, <2>1
  <2>3. PICK w \in Nat \ {0} : w = Power(2, rest) /\ Power(2, k + db) = W * w
    <3>1. Power(2, rest) \in Nat \ {0} /\ Power(2, bb + rest) = Power(2, bb) * Power(2, rest)
      BY TwoPowers
    <3>2. Power(2, bb) = W
      BY <1>1, Sizes64
    <3> QED
      BY <2>1, <3>1, <3>2
  <2>4. rest \in 0..(ByteBits - 1)
    <3>1. 3 * bb = 4 * db
      BY <1>1, Sizes64
    <3> QED
      BY <1>1, <2>1, <3>1
  <2>5. PICK byte \in Nat, left \in 0..(w - 1) :
            byte = c \div w /\ left = c % w /\ c = byte * w + left
    <3>1. c = (c \div w) * w + (c % w) /\ c % w \in 0..(w - 1) /\ c \div w \in Int
      BY DivMod
    <3>2. c \div w \in Nat
      OBVIOUS
    <3> QED
      BY <3>1, <3>2
  <2>6. byte \in ByteValue
    <3>1. W * w = q * P
      BY <1>6, <2>3
    <3>2. byte * w < W * w
      <4>1. q * P = P * q
        OBVIOUS
      <4>2. PICK e \in Nat, f \in Nat : e = byte * w /\ f = W * w
        OBVIOUS
      <4> QED
        BY <1>5, <2>5, <3>1, <4>1, <4>2
    <3>3. CASE byte >= W
      <4>1. byte * w >= W * w
        BY <3>3
      <4>2. PICK e \in Nat, f \in Nat : e = byte * w /\ f = W * w
        OBVIOUS
      <4> QED
        BY <3>2, <4>1, <4>2
    <3>4. CASE byte < W
      BY <1>1, <3>4, Sizes64
    <3> QED
      BY <3>3, <3>4
  <2>7. PICK more \in Seq(ByteValue) :
            more = out \o <<byte>> /\ Len(more) = Len(out) + 1
            /\ ValueIn(ByteValues, more) = V * W + byte
    <3>1. out \o <<byte>> \in Seq(ByteValue) /\ Len(out \o <<byte>>) = Len(out) + 1
      BY <2>6
    <3>2. out \in Seq(Nat) /\ ByteValues \in Nat
      BY Sizes64
    <3>3. ValueIn(ByteValues, out \o <<byte>>) = V * W + byte
      BY <1>1, <1>7, <3>2, ValuePushed
    <3> QED
      BY <3>1, <3>3
  <2>8. Buffered(x, d) = [buffer |-> left, bits |-> rest, out |-> more]
    BY <2>2, <2>3, <2>5, <2>7
  <2>9. Buffered(x, d) \in Buffers
    BY <2>3, <2>4, <2>8 DEF Buffers
  <2>10. Held(Buffered(x, d)) = (V * W + byte) * w + left
    BY <2>3, <2>7, <2>8 DEF Held
  <2>11. (V * W + byte) * w + left = (V * q) * P + c
    <3>1. (V * W + byte) * w = V * (W * w) + byte * w
      OBVIOUS
    <3>2. W * w = q * P
      BY <1>6, <2>3
    <3>3. V * (q * P) = (V * q) * P
      OBVIOUS
    <3>4. PICK e \in Nat, f \in Nat : e = (V * q) * P /\ f = byte * w
      OBVIOUS
    <3>5. V * (W * w) = e
      BY <3>2, <3>3, <3>4
    <3>6. (V * W + byte) * w = e + f
      BY <3>1, <3>4, <3>5
    <3>7. e + f + left = e + c
      BY <2>5, <3>4
    <3> QED
      BY <3>4, <3>6, <3>7
  <2>12. Len(Buffered(x, d).out) * ByteBits + Buffered(x, d).bits
            = Len(x.out) * ByteBits + x.bits + DigitBits
    <3>1. PICK n \in Nat : n = Len(out)
      OBVIOUS
    <3>2. (n + 1) * bb = n * bb + bb
      OBVIOUS
    <3>3. PICK m \in Nat : m = n * bb
      OBVIOUS
    <3>4. Buffered(x, d).out = more /\ Buffered(x, d).bits = rest /\ x.out = out /\ x.bits = k
      BY <1>2, <2>8
    <3>5. Len(more) * bb + rest = n * bb + bb + rest
      BY <2>7, <3>1, <3>2, <3>3
    <3>6. n * bb + bb + rest = Len(out) * bb + k + db
      BY <2>1, <3>1, <3>3
    <3> QED
      BY <1>1, <3>4, <3>5, <3>6
  <2> QED
    BY <1>9, <2>9, <2>10, <2>11, <2>12
<1> QED
  BY <1>11, <1>12

\* The buffer along the digits
EmptyBuffer == [buffer |-> 0, bits |-> 0, out |-> <<>>]
BufferStep == [p \in Buffers \X Digit64 |-> Buffered(p[1], p[2])]
Buffering(g, s) ==
    g = [i \in 0..Len(s) |-> IF i = 0 THEN EmptyBuffer ELSE Buffered(g[i - 1], s[i])]

LEMMA UnbufferedIsFold ==
    ASSUME NEW s \in Seq(Digit64), NEW F, Folds(F, Digit64, Buffers, EmptyBuffer, BufferStep)
    PROVE  Unbuffered(s) = F[s].out
<1> DEFINE after == CHOOSE g : Buffering(g, s)
<1>1. PICK n \in Nat : n = Len(s)
  OBVIOUS
<1>2. Unbuffered(s) = after[n].out
  BY <1>1 DEF Unbuffered, Buffering, EmptyBuffer
<1>3. PICK A, B, base, step :
          A = Digit64 /\ B = Buffers /\ base = EmptyBuffer /\ step = BufferStep
  OBVIOUS
<1>4. PICK h : Steps(h, n, A, B, base, step, s) /\ h[n] = F[s]
  <2>1. Folds(F, A, B, base, step) /\ s \in Seq(A)
    BY <1>3, Zenon
  <2> QED
    BY <1>1, <2>1, FoldSteps
<1>5. /\ h \in [0..n -> B] /\ h[0] = base
      /\ \A i \in 1..n : h[i - 1] \in B /\ s[i] \in A /\ h[i] = step[<<h[i - 1], s[i]>>]
  BY <1>4, Zenon DEF Steps
<1>6. ASSUME NEW i \in 1..n PROVE h[i] = Buffered(h[i - 1], s[i])
  BY <1>3, <1>5 DEF BufferStep
<1>7. Buffering(h, s)
  <2>1. h = [i \in 0..n |-> h[i]]
    BY <1>5
  <2>2. ASSUME NEW i \in 0..n
        PROVE  h[i] = IF i = 0 THEN EmptyBuffer ELSE Buffered(h[i - 1], s[i])
    <3>1. CASE i = 0
      BY <1>3, <1>5, <3>1
    <3>2. CASE i # 0
      <4>1. i \in 1..n
        BY <3>2
      <4> QED
        BY <1>6, <3>2, <4>1, Zenon
    <3> QED
      BY <3>1, <3>2
  <2> QED
    BY <1>1, <2>1, <2>2 DEF Buffering
<1>8. Buffering(after, s)
  BY <1>7
<1> HIDE DEF after
<1>9. after[0] = EmptyBuffer /\ \A i \in 1..n : after[i] = Buffered(after[i - 1], s[i])
  <2>1. \A i \in 0..n : after[i] = IF i = 0 THEN EmptyBuffer ELSE Buffered(after[i - 1], s[i])
    BY <1>1, <1>8, Zenon DEF Buffering
  <2>2. 0 \in 0..n /\ \A i \in 1..n : i \in 0..n /\ i # 0
    OBVIOUS
  <2>3. after[0] = EmptyBuffer
    BY <2>1, <2>2, Zenon
  <2>4. ASSUME NEW i \in 1..n PROVE after[i] = Buffered(after[i - 1], s[i])
    BY <2>1, <2>2, Zenon
  <2> QED
    BY <2>3, <2>4
<1> DEFINE S == {i \in 0..n : after[i] = h[i]}
<1>10. 0 \in S
  BY <1>3, <1>5, <1>9
<1>11. ASSUME NEW i \in 0..(n - 1), i \in S PROVE i + 1 \in S
  <2>1. i + 1 \in 1..n /\ (i + 1) - 1 = i /\ i + 1 \in 0..n
    OBVIOUS
  <2>2. after[i + 1] = Buffered(after[i], s[i + 1]) /\ h[i + 1] = Buffered(h[i], s[i + 1])
    BY <1>6, <1>9, <2>1
  <2>3. after[i] = h[i]
    BY <1>11
  <2>4. after[i + 1] = h[i + 1]
    BY <2>2, <2>3, Zenon
  <2> QED
    BY <2>1, <2>4
<1>12. 0..n \subseteq S
  <2> HIDE DEF S
  <2> QED
    BY <1>10, <1>11, InductionUpTo
<1>13. after[n] = h[n]
  BY <1>12
<1> QED
  BY <1>2, <1>4, <1>13

\* Nothing is lost on the way into the bytes but the bits that are left over.
LEMMA Unbuffers ==
    ASSUME NEW s \in Seq(Digit64)
    PROVE  \E x \in Buffers : /\ Unbuffered(s) = x.out /\ Held(x) = ValueIn(DigitValues, s)
                              /\ Len(x.out) * ByteBits + x.bits = Len(s) * DigitBits
<1>1. PICK P \in Nat \ {0}, W \in Nat \ {0}, bb \in Nat \ {0}, db \in Nat :
          P = DigitValues /\ W = ByteValues /\ bb = ByteBits /\ db = DigitBits
  BY Sizes64
<1>2. PICK A, B, base, step :
          A = Digit64 /\ B = Buffers /\ base = EmptyBuffer /\ step = BufferStep
  OBVIOUS
<1>3. FoldStep(A, B, step)
  <2>1. ASSUME NEW p \in B \X A PROVE Buffered(p[1], p[2]) \in B
    BY <1>2, BufferedHolds
  <2>2. step = [p \in B \X A |-> Buffered(p[1], p[2])]
    BY <1>2, Zenon DEF BufferStep
  <2> QED
    BY <2>1, <2>2 DEF FoldStep
<1>4. base \in B /\ base.out = <<>> /\ base.buffer = 0 /\ base.bits = 0
  <2>1. 0 \in 0..(bb - 1) /\ <<>> \in Seq(ByteValue) /\ Power(2, 0) = 1
    BY <1>1, PowerEquation
  <2> QED
    BY <1>1, <1>2, <2>1 DEF Buffers, EmptyBuffer
<1>5. PICK F : Folds(F, A, B, base, step)
  BY <1>3, <1>4, Folding
<1>6. /\ F \in [Seq(A) -> B] /\ F[<<>>] = base
      /\ \A t \in Seq(A) : \A c \in A : F[t \o <<c>>] = step[<<F[t], c>>]
  BY <1>5 DEF Folds
<1>7. A \subseteq Nat
  BY <1>1, <1>2 DEF Digit64
<1> DEFINE Right(t) == /\ Held(F[t]) = ValueIn(DigitValues, t)
                       /\ Len(F[t].out) * ByteBits + F[t].bits = Len(t) * DigitBits
           S == {t \in Seq(A) : Right(t)}
<1>8. <<>> \in S
  <2>1. Held(base) = 0
    <3>1. ValueIn(W, <<>>) = 0 /\ Power(2, 0) = 1
      BY ValueEmpty, PowerEquation
    <3> QED
      BY <1>1, <1>4, <3>1 DEF Held
  <2>2. ValueIn(P, <<>>) = 0
    BY ValueEmpty
  <2>3. Len(base.out) = 0 /\ Len(<<>>) = 0
    BY <1>4
  <2>4. Right(<<>>)
    BY <1>1, <1>4, <1>6, <2>1, <2>2, <2>3
  <2> QED
    BY <2>4
<1>9. ASSUME NEW t \in Seq(A), NEW c \in A, t \in S PROVE t \o <<c>> \in S
  <2>1. PICK x \in Buffers : x = F[t] /\ Held(x) = ValueIn(DigitValues, t)
                             /\ Len(x.out) * ByteBits + x.bits = Len(t) * DigitBits
    <3>1. F[t] \in Buffers
      BY <1>2, <1>6
    <3> QED
      BY <1>9, <3>1
  <2>2. c \in Digit64 /\ c \in Nat /\ t \in Seq(Nat)
    <3>1. c \in Digit64 /\ c \in Nat
      BY <1>2, <1>7
    <3>2. t \in Seq(Nat)
      BY <1>7, SeqWider
    <3> QED
      BY <3>1, <3>2
  <2>3. F[t \o <<c>>] = Buffered(x, c)
    <3>1. F[t \o <<c>>] = step[<<x, c>>]
      BY <1>6, <2>1
    <3> QED
      BY <1>2, <2>2, <3>1 DEF BufferStep
  <2>4. /\ Held(Buffered(x, c)) = Held(x) * DigitValues + c
        /\ Len(Buffered(x, c).out) * ByteBits + Buffered(x, c).bits
               = Len(x.out) * ByteBits + x.bits + DigitBits
    BY <2>2, BufferedHolds
  <2>5. ValueIn(DigitValues, t \o <<c>>) = ValueIn(DigitValues, t) * DigitValues + c
    BY <1>1, <2>2, ValuePushed
  <2>6. Len(t \o <<c>>) * DigitBits = Len(t) * DigitBits + DigitBits /\ t \o <<c>> \in Seq(A)
    <3>1. PICK m \in Nat : m = Len(t) /\ Len(t \o <<c>>) = m + 1
      <4>1. Len(t) \in Nat /\ Len(t \o <<c>>) = Len(t) + 1
        OBVIOUS
      <4> QED
        BY <4>1
    <3>2. (m + 1) * db = m * db + db
      OBVIOUS
    <3> QED
      BY <1>1, <3>1, <3>2
  <2>7. Right(t \o <<c>>)
    <3>1. Held(F[t \o <<c>>]) = ValueIn(DigitValues, t \o <<c>>)
      BY <2>1, <2>3, <2>4, <2>5, Zenon
    <3>2. Len(F[t \o <<c>>].out) * ByteBits + F[t \o <<c>>].bits = Len(t \o <<c>>) * DigitBits
      BY <2>1, <2>3, <2>4, <2>6, Zenon
    <3> QED
      BY <3>1, <3>2
  <2> QED
    BY <2>6, <2>7
<1>10. Seq(A) \subseteq S
  <2> HIDE DEF S
  <2> QED
    BY <1>8, <1>9, SeqInduction
<1>11. s \in Seq(A) /\ F[s] \in Buffers
  BY <1>2, <1>6
<1>12. Right(s)
  BY <1>10, <1>11
<1>13. Unbuffered(s) = F[s].out
  <2>1. Folds(F, Digit64, Buffers, EmptyBuffer, BufferStep)
    BY <1>2, <1>5, Zenon
  <2> QED
    BY <2>1, UnbufferedIsFold
<1> QED
  BY <1>11, <1>12, <1>13

LEMMA UnbufferedValue ==
    ASSUME NEW s \in Seq(Digit64)
    PROVE  LET spare == (Len(s) * DigitBits) % ByteBits
           IN  /\ Unbuffered(s) \in Seq(ByteValue)
               /\ Len(Unbuffered(s)) = (Len(s) * DigitBits) \div ByteBits
               /\ ValueIn(ByteValues, Unbuffered(s)) = ValueIn(DigitValues, s) \div Power(2, spare)
<1>1. PICK x \in Buffers : /\ Unbuffered(s) = x.out /\ Held(x) = ValueIn(DigitValues, s)
                           /\ Len(x.out) * ByteBits + x.bits = Len(s) * DigitBits
  BY Unbuffers
<1>2. PICK bb \in Nat \ {0}, total \in Nat : bb = ByteBits /\ total = Len(s) * DigitBits
  <2>1. Len(s) * DigitBits \in Nat
    <3>1. Len(s) \in Nat /\ DigitBits \in Nat
      BY Sizes64
    <3> QED
      BY <3>1
  <2> QED
    BY <2>1, Sizes64
<1>3. PICK b \in Nat, k \in 0..(bb - 1), out \in Seq(ByteValue) :
          x.buffer = b /\ x.bits = k /\ x.out = out /\ b < Power(2, k)
  BY <1>2 DEF Buffers
<1>4. PICK n \in Nat : n = Len(out)
  BY <1>3
<1>5. total = n * bb + k
  BY <1>1, <1>2, <1>3, <1>4
<1>6. total \div bb = n /\ total % bb = k
  BY <1>5, DivUnique
<1>7. PICK V \in Nat, q \in Nat \ {0}, H \in Nat :
          V = ValueIn(ByteValues, out) /\ q = Power(2, k) /\ H = V * q + b
  <2>1. out \in Seq(Nat) /\ ByteValues \in Nat
    BY <1>3, Sizes64
  <2>2. ValueIn(ByteValues, out) \in Nat
    BY <2>1, ValueIsNatural
  <2>3. Power(2, k) \in Nat \ {0}
    <3>1. k \in Nat
      OBVIOUS
    <3> QED
      BY <3>1, TwoPowers
  <2>4. PICK V \in Nat, q \in Nat \ {0} : V = ValueIn(ByteValues, out) /\ q = Power(2, k)
    BY <2>2, <2>3
  <2>5. V * q + b \in Nat
    BY DigitPushed
  <2> QED
    BY <2>4, <2>5
<1>8. Held(x) = H
  BY <1>3, <1>7 DEF Held
<1>9. H \div q = V
  <2>1. b \in 0..(q - 1)
    BY <1>3, <1>7
  <2> QED
    BY <1>7, <2>1, DigitPopped
<1>10. ValueIn(ByteValues, out) = ValueIn(DigitValues, s) \div Power(2, total % bb)
  BY <1>1, <1>6, <1>7, <1>8, <1>9
<1> QED
  BY <1>1, <1>2, <1>3, <1>4, <1>6, <1>10

LEMMA PrefixTold ==
    ASSUME NEW A, NEW s \in Seq(A), NEW t \in Seq(A)
    PROVE  IsPrefix(s, t) <=> Len(s) <= Len(t) /\ \A i \in 1..Len(s) : s[i] = t[i]
<1>1. PICK n \in Nat, m \in Nat : n = Len(s) /\ m = Len(t)
  OBVIOUS
<1>2. SubSeq(s, 1, n) = s
  BY <1>1
<1>3. ASSUME n <= m
      PROVE  SubSeq(t, 1, n) \in Seq(A) /\ Len(SubSeq(t, 1, n)) = n
             /\ \A i \in 1..n : SubSeq(t, 1, n)[i] = t[i]
  BY <1>1, <1>3
<1>4. ASSUME n <= m
      PROVE  (s = SubSeq(t, 1, n)) <=> \A i \in 1..n : s[i] = t[i]
  <2>1. PICK u \in Seq(A) : u = SubSeq(t, 1, n) /\ Len(u) = n /\ \A i \in 1..n : u[i] = t[i]
    BY <1>3, <1>4
  <2>2. (\A i \in 1..n : s[i] = t[i]) => s = u
    BY <1>1, <2>1, SeqEqual
  <2> QED
    BY <2>1, <2>2
<1> QED
  BY <1>1, <1>2, <1>4 DEF IsPrefix

LEMMA JoinedParts ==
    ASSUME NEW A, NEW s \in Seq(A), NEW t \in Seq(A)
    PROVE  /\ s \o t \in Seq(A) /\ Len(s \o t) = Len(s) + Len(t)
           /\ \A i \in 1..Len(s) : (s \o t)[i] = s[i]
           /\ \A i \in 1..Len(t) : (s \o t)[Len(s) + i] = t[i]
<1>1. PICK n \in Nat, m \in Nat : n = Len(s) /\ m = Len(t)
  OBVIOUS
<1>2. /\ s \o t \in Seq(A) /\ Len(s \o t) = n + m
      /\ \A i \in 1..(n + m) : (s \o t)[i] = IF i <= n THEN s[i] ELSE t[i - n]
  BY <1>1, ConcatProperties
<1>3. ASSUME NEW i \in 1..n PROVE (s \o t)[i] = s[i]
  BY <1>2
<1>4. ASSUME NEW i \in 1..m PROVE (s \o t)[n + i] = t[i]
  <2>1. n + i \in 1..(n + m) /\ ~(n + i <= n) /\ (n + i) - n = i
    OBVIOUS
  <2> QED
    BY <1>2, <2>1
<1> QED
  BY <1>1, <1>2, <1>3, <1>4

LEMMA CutInTwo ==
    ASSUME NEW A, NEW s \in Seq(A), NEW k \in 0..Len(s)
    PROVE  /\ SubSeq(s, 1, k) \in Seq(A) /\ Len(SubSeq(s, 1, k)) = k
           /\ SubSeq(s, k + 1, Len(s)) \in Seq(A) /\ Len(SubSeq(s, k + 1, Len(s))) = Len(s) - k
           /\ \A i \in 1..k : SubSeq(s, 1, k)[i] = s[i]
           /\ \A i \in 1..(Len(s) - k) : SubSeq(s, k + 1, Len(s))[i] = s[k + i]
           /\ s = SubSeq(s, 1, k) \o SubSeq(s, k + 1, Len(s))
<1>1. PICK n \in Nat : n = Len(s)
  OBVIOUS
<1>2. PICK u \in Seq(A) : u = SubSeq(s, 1, k) /\ Len(u) = k /\ \A i \in 1..k : u[i] = s[i]
  <2>1. SubSeq(s, 1, k) \in Seq(A) /\ Len(SubSeq(s, 1, k)) = k
        /\ \A i \in 1..k : SubSeq(s, 1, k)[i] = s[i]
    BY <1>1
  <2> QED
    BY <2>1
<1>3. PICK t \in Seq(A) : t = SubSeq(s, k + 1, n) /\ Len(t) = n - k /\ \A i \in 1..(n - k) : t[i] = s[k + i]
  <2>1. /\ SubSeq(s, k + 1, n) \in Seq(A)
        /\ Len(SubSeq(s, k + 1, n)) = n - k
        /\ \A i \in 1..(n - k) : SubSeq(s, k + 1, n)[i] = s[k + i]
    BY <1>1, SMTT(30)
  <2> QED
    BY <2>1
<1>4. s = u \o t
  <2>1. k \in 0..n
    BY <1>1
  <2>2. /\ u \o t \in Seq(A) /\ Len(u \o t) = k + (n - k)
        /\ \A i \in 1..k : (u \o t)[i] = u[i]
        /\ \A i \in 1..(n - k) : (u \o t)[k + i] = t[i]
    <3>1. /\ u \o t \in Seq(A) /\ Len(u \o t) = Len(u) + Len(t)
          /\ \A i \in 1..Len(u) : (u \o t)[i] = u[i]
          /\ \A i \in 1..Len(t) : (u \o t)[Len(u) + i] = t[i]
      BY JoinedParts
    <3> QED
      BY <1>2, <1>3, <3>1
  <2>3. ASSUME NEW i \in 1..n PROVE (u \o t)[i] = s[i]
    <3>1. CASE i <= k
      BY <1>2, <2>1, <2>2, <3>1
    <3>2. CASE i > k
      <4>1. i - k \in 1..(n - k) /\ k + (i - k) = i
        BY <2>1, <3>2
      <4> QED
        BY <1>3, <2>2, <4>1
    <3>3. i <= k \/ i > k
      BY <2>1
    <3> QED
      BY <3>1, <3>2, <3>3
  <2>4. Len(u \o t) = n
    BY <2>1, <2>2
  <2> QED
    BY <1>1, <2>2, <2>3, <2>4, SeqEqual
<1> QED
  BY <1>1, <1>2, <1>3, <1>4

LEMMA ReverseSeq ==
    ASSUME NEW A, NEW s \in Seq(A)
    PROVE  Reverse(s) \in Seq(A) /\ Len(Reverse(s)) = Len(s)
           /\ \A i \in 1..Len(s) : Reverse(s)[i] = s[Len(s) + 1 - i]
<1>1. PICK n \in Nat : n = Len(s)
  OBVIOUS
<1>2. Reverse(s) = [i \in 1..n |-> s[n + 1 - i]]
  <2>1. \A i \in 1..n : (n - i) + 1 = n + 1 - i
    OBVIOUS
  <2> QED
    BY <1>1, <2>1 DEF Reverse
<1>3. \A i \in 1..n : n + 1 - i \in 1..n /\ s[n + 1 - i] \in A
  BY <1>1
<1> QED
  BY <1>1, <1>2, <1>3

\* A suffix of pads
LEMMA PadsAtEnd ==
    ASSUME NEW A, Pad \in A, NEW s \in Seq(A)
    PROVE  /\ IsSuffix(<<Pad>>, s) <=> Len(s) > 0 /\ s[Len(s)] = Pad
           /\ IsSuffix(<<Pad, Pad>>, s) <=> Len(s) > 1 /\ s[Len(s)] = Pad /\ s[Len(s) - 1] = Pad
<1>1. PICK n \in Nat : n = Len(s)
  OBVIOUS
<1>2. PICK r \in Seq(A) : r = Reverse(s) /\ Len(r) = n /\ \A i \in 1..n : r[i] = s[n + 1 - i]
  BY <1>1, ReverseSeq
<1>3. PICK one \in Seq(A) : one = <<Pad>> /\ Len(one) = 1 /\ one[1] = Pad
  <2>1. <<Pad>> \in Seq(A)
    OBVIOUS
  <2> QED
    BY <2>1
<1>4. PICK two \in Seq(A) : two = <<Pad, Pad>> /\ Len(two) = 2 /\ two[1] = Pad /\ two[2] = Pad
  <2>1. <<Pad, Pad>> \in Seq(A)
    OBVIOUS
  <2> QED
    BY <2>1
<1>5. Reverse(one) = one /\ Reverse(two) = two
  <2>1. Reverse(one) \in Seq(A) /\ Len(Reverse(one)) = Len(one)
        /\ \A i \in 1..Len(one) : Reverse(one)[i] = one[Len(one) + 1 - i]
    BY ReverseSeq
  <2>2. Reverse(one) = one
    BY <1>3, <2>1, SeqEqual
  <2>3. Reverse(two) \in Seq(A) /\ Len(Reverse(two)) = Len(two)
        /\ \A i \in 1..Len(two) : Reverse(two)[i] = two[Len(two) + 1 - i]
    BY ReverseSeq
  <2>4. Reverse(two) = two
    <3>1. Reverse(two)[1] = two[2] /\ Reverse(two)[2] = two[1]
      <4>1. 1 \in 1..2 /\ 2 \in 1..2 /\ 2 + 1 - 1 = 2 /\ 2 + 1 - 2 = 1
        OBVIOUS
      <4> QED
        BY <1>4, <2>3, <4>1
    <3>2. \A i \in 1..2 : Reverse(two)[i] = two[i]
      <4>1. 1..2 = {1, 2}
        OBVIOUS
      <4> QED
        BY <1>4, <3>1, <4>1
    <3> QED
      BY <1>4, <2>3, <3>2, SeqEqual
  <2> QED
    BY <2>2, <2>4
<1>6. IsPrefix(one, r) <=> 1 <= n /\ Pad = r[1]
  <2>1. IsPrefix(one, r) <=> Len(one) <= Len(r) /\ \A i \in 1..Len(one) : one[i] = r[i]
    BY PrefixTold
  <2> QED
    BY <1>2, <1>3, <2>1
<1>7. IsPrefix(two, r) <=> 2 <= n /\ Pad = r[1] /\ Pad = r[2]
  <2>1. IsPrefix(two, r) <=> Len(two) <= Len(r) /\ \A i \in 1..Len(two) : two[i] = r[i]
    BY PrefixTold
  <2>2. 1..2 = {1, 2}
    OBVIOUS
  <2> QED
    BY <1>2, <1>4, <2>1, <2>2
<1>8. IsSuffix(one, s) <=> n > 0 /\ s[n] = Pad
  BY <1>2, <1>5, <1>6 DEF IsSuffix
<1>9. IsSuffix(two, s) <=> n > 1 /\ s[n] = Pad /\ s[n - 1] = Pad
  <2>1. n > 1 => r[1] = s[n] /\ r[2] = s[n - 1]
    BY <1>2
  <2> QED
    BY <1>2, <1>5, <1>7, <2>1 DEF IsSuffix
<1> QED
  BY <1>1, <1>3, <1>4, <1>8, <1>9

\* What is cut off are pads, at most two, and no more could be cut off.
LEMMA UnpaddedIs ==
    ASSUME NEW A, Pad \in A, NEW s \in Seq(A)
    PROVE  \E j \in 0..2 :
              /\ j <= Len(s) /\ unpadded(s) = SubSeq(s, 1, Len(s) - j)
              /\ \A i \in (Len(s) - j + 1)..Len(s) : s[i] = Pad
              /\ j > 0 => Len(s) % 4 = 0
              /\ Len(s) % 4 = 0 /\ j < 2 /\ j < Len(s) => s[Len(s) - j] # Pad
<1>1. PICK n \in Nat : n = Len(s)
  OBVIOUS
<1>2. SubSeq(s, 1, n - 0) = s
  BY <1>1
<1>3. /\ IsSuffix(<<Pad>>, s) <=> n > 0 /\ s[n] = Pad
      /\ IsSuffix(<<Pad, Pad>>, s) <=> n > 1 /\ s[n] = Pad /\ s[n - 1] = Pad
  BY <1>1, PadsAtEnd
<1>4. CASE n % 4 # 0
  <2>1. unpadded(s) = SubSeq(s, 1, n - 0)
    BY <1>1, <1>2, <1>4 DEF unpadded
  <2> QED
    BY <1>1, <1>4, <2>1
<1>5. CASE n % 4 = 0 /\ IsSuffix(<<Pad, Pad>>, s)
  <2>1. unpadded(s) = SubSeq(s, 1, n - 2)
    BY <1>1, <1>5 DEF unpadded
  <2>2. \A i \in (n - 2 + 1)..n : s[i] = Pad
    BY <1>3, <1>5
  <2> QED
    BY <1>1, <1>3, <1>5, <2>1, <2>2
<1>6. CASE n % 4 = 0 /\ ~IsSuffix(<<Pad, Pad>>, s) /\ IsSuffix(<<Pad>>, s)
  <2>1. unpadded(s) = SubSeq(s, 1, n - 1)
    BY <1>1, <1>6 DEF unpadded
  <2>2. \A i \in (n - 1 + 1)..n : s[i] = Pad
    BY <1>3, <1>6
  <2>3. 1 < n => s[n - 1] # Pad
    BY <1>3, <1>6
  <2>4. 1 <= n
    BY <1>3, <1>6
  <2> QED
    BY <1>1, <1>6, <2>1, <2>2, <2>3, <2>4
<1>7. CASE n % 4 = 0 /\ ~IsSuffix(<<Pad, Pad>>, s) /\ ~IsSuffix(<<Pad>>, s)
  <2>1. unpadded(s) = SubSeq(s, 1, n - 0)
    BY <1>1, <1>2, <1>7 DEF unpadded
  <2>2. 0 < n => s[n - 0] # Pad
    BY <1>3, <1>7
  <2> QED
    BY <1>1, <1>7, <2>1, <2>2
<1> QED
  BY <1>4, <1>5, <1>6, <1>7

LEMMA CharactersApart ==
    /\ NonDigit \notin Nat /\ Space \notin Nat /\ Pad \notin Nat /\ X \notin Nat
    /\ NonDigit # Space /\ NonDigit # Pad /\ Space # Pad
    /\ Digit64 \subseteq Nat /\ Digit64 = 0..(Power(2, DigitBits) - 1)
<1>1. Digit64 \subseteq Nat /\ Digit64 = 0..(Power(2, DigitBits) - 1)
  BY Sizes64 DEF Digit64, DigitValues
<1>2. /\ {NonDigit, Space, Pad, X} \intersect Nat = {}
      /\ NonDigit \notin {Space, Pad, X} /\ Space \notin {Pad, X} /\ Pad # X
  BY CodecsAssumption DEF CodecsAssumption
<1> QED
  BY <1>1, <1>2

\* A text of base64 without its white space
Body64 == Digit64 \union {Pad, NonDigit}
Digits64(s) == Only(Digit64, s)
Pads(s) == Only({Pad}, s)
Others(s) == Only({NonDigit}, s)

\* What the decoder asks of it, and what a reader of the alphabet would.
Decodes(u) == Len(u) % 4 # 1 /\ u \in Seq(Digit64)
WellPadded(s) ==
    /\ Others(s) = <<>>
    /\ IsPrefix(Digits64(s), s)
    /\ Len(Digits64(s)) % 4 # 1
    /\ Len(Pads(s)) > 0 => Len(Pads(s)) <= 2 /\ Len(s) % 4 = 0

LEMMA OnlyOf ==
    ASSUME NEW s \in Seq(Body64)
    PROVE  Digits64(s) \in Seq(Digit64) /\ Pads(s) \in Seq({Pad}) /\ Others(s) \in Seq({NonDigit})
<1>1. Body64 \intersect Digit64 = Digit64 /\ Body64 \intersect {Pad} = {Pad}
      /\ Body64 \intersect {NonDigit} = {NonDigit}
  BY DEF Body64
<1>2. \A chars : Only(chars, s) \in Seq(Body64 \intersect chars)
  BY OnlyFolds
<1>3. /\ Only(Digit64, s) \in Seq(Body64 \intersect Digit64)
      /\ Only({Pad}, s) \in Seq(Body64 \intersect {Pad})
      /\ Only({NonDigit}, s) \in Seq(Body64 \intersect {NonDigit})
  BY <1>2
<1> QED
  BY <1>1, <1>3, Zenon DEF Digits64, Pads, Others

LEMMA OnlyOfDigits ==
    ASSUME NEW s \in Seq(Digit64)
    PROVE  Digits64(s) = s /\ Pads(s) = <<>> /\ Others(s) = <<>>
<1>1. Digit64 \intersect {Pad} = {} /\ Digit64 \intersect {NonDigit} = {}
  BY CharactersApart
<1> QED
  BY <1>1, OnlyAll, OnlyNone DEF Digits64, Pads, Others

LEMMA OnlyOfPads ==
    ASSUME NEW s \in Seq({Pad})
    PROVE  Digits64(s) = <<>> /\ Pads(s) = s /\ Others(s) = <<>>
<1>1. {Pad} \intersect Digit64 = {} /\ {Pad} \intersect {NonDigit} = {}
  BY CharactersApart
<1> QED
  BY <1>1, OnlyAll, OnlyNone DEF Digits64, Pads, Others

LEMMA OnlyOfBoth ==
    ASSUME NEW s \in Seq(Body64), NEW t \in Seq(Body64)
    PROVE  /\ Digits64(s \o t) = Digits64(s) \o Digits64(t)
           /\ Pads(s \o t) = Pads(s) \o Pads(t)
           /\ Others(s \o t) = Others(s) \o Others(t)
<1>1. Digits64(s \o t) = Digits64(s) \o Digits64(t)
  BY OnlyJoined DEF Digits64
<1>2. PICK P, N : P = {Pad} /\ N = {NonDigit}
  OBVIOUS
<1>3. Only(P, s \o t) = Only(P, s) \o Only(P, t)
  BY OnlyJoined
<1>4. Only(N, s \o t) = Only(N, s) \o Only(N, t)
  BY OnlyJoined
<1> QED
  BY <1>1, <1>2, <1>3, <1>4 DEF Pads, Others

\* A text that the decoder takes is well padded, and what it reads are the digits.
LEMMA DecodedIsPadded ==
    ASSUME NEW s \in Seq(Body64), Decodes(unpadded(s))
    PROVE  WellPadded(s) /\ unpadded(s) = Digits64(s)
<1>1. PICK n \in Nat : n = Len(s)
  OBVIOUS
<1>2. Pad \in Body64
  BY DEF Body64
<1>3. PICK j \in 0..2 :
          /\ j <= n /\ unpadded(s) = SubSeq(s, 1, n - j)
          /\ \A i \in (n - j + 1)..n : s[i] = Pad
          /\ j > 0 => n % 4 = 0
  BY <1>1, <1>2, UnpaddedIs
<1>4. PICK k \in 0..n : k = n - j
  BY <1>3
<1>5. PICK u, t : u = SubSeq(s, 1, k) /\ t = SubSeq(s, k + 1, n)
  OBVIOUS
<1>6. /\ u \in Seq(Body64) /\ t \in Seq(Body64) /\ Len(t) = n - k /\ s = u \o t
      /\ \A i \in 1..(n - k) : t[i] = s[k + i]
  BY <1>1, <1>5, CutInTwo
<1>7. u \in Seq(Digit64) /\ Len(u) % 4 # 1 /\ unpadded(s) = u
  BY <1>3, <1>4, <1>5 DEF Decodes
<1>8. t \in Seq({Pad}) /\ Len(t) = j
  <2>1. \A i \in 1..j : t[i] = Pad
    <3>1. ASSUME NEW i \in 1..j PROVE t[i] = Pad
      <4>1. k + i \in (n - j + 1)..n /\ i \in 1..(n - k)
        BY <1>4
      <4> QED
        BY <1>3, <1>6, <4>1
    <3> QED
      BY <3>1
  <2>2. Len(t) = j
    BY <1>4, <1>6
  <2> QED
    BY <1>6, <2>1, <2>2
<1>9. Digits64(s) = u /\ Pads(s) = t /\ Others(s) = <<>>
  <2>1. /\ Digits64(s) = Digits64(u) \o Digits64(t) /\ Pads(s) = Pads(u) \o Pads(t)
        /\ Others(s) = Others(u) \o Others(t)
    BY <1>6, OnlyOfBoth
  <2>2. /\ Digits64(u) = u /\ Pads(u) = <<>> /\ Others(u) = <<>>
        /\ Digits64(t) = <<>> /\ Pads(t) = t /\ Others(t) = <<>>
    BY <1>7, <1>8, OnlyOfDigits, OnlyOfPads
  <2>3. u \o <<>> = u /\ <<>> \o t = t /\ <<>> \o <<>> = <<>>
    BY <1>6
  <2> QED
    BY <2>1, <2>2, <2>3
<1>10. IsPrefix(u, s)
  <2>1. Len(u) = k /\ \A i \in 1..k : u[i] = s[i]
    BY <1>1, <1>5, CutInTwo
  <2>2. IsPrefix(u, s) <=> Len(u) <= Len(s) /\ \A i \in 1..Len(u) : u[i] = s[i]
    <3>1. PICK B : B = Body64
      OBVIOUS
    <3>2. u \in Seq(B) /\ s \in Seq(B)
      BY <1>6, <3>1
    <3> QED
      BY <3>2, PrefixTold
  <2> QED
    BY <1>1, <2>1, <2>2
<1> QED
  BY <1>1, <1>3, <1>7, <1>8, <1>9, <1>10 DEF WellPadded

\* And the other way round.
LEMMA PaddedIsDecoded ==
    ASSUME NEW s \in Seq(Body64), WellPadded(s)
    PROVE  unpadded(s) = Digits64(s) /\ Decodes(unpadded(s))
<1>1. PICK n \in Nat : n = Len(s)
  OBVIOUS
<1>2. Pad \in Body64
  BY DEF Body64
<1>3. PICK j \in 0..2 :
          /\ j <= n /\ unpadded(s) = SubSeq(s, 1, n - j)
          /\ \A i \in (n - j + 1)..n : s[i] = Pad
          /\ j > 0 => n % 4 = 0
          /\ n % 4 = 0 /\ j < 2 /\ j < n => s[n - j] # Pad
  BY <1>1, <1>2, UnpaddedIs
<1>4. PICK u \in Seq(Digit64) : u = Digits64(s)
  BY OnlyOf
<1>5. u \in Seq(Body64)
  BY <1>4, SeqWider DEF Body64
<1>6. PICK k \in 0..n : k = Len(u) /\ \A i \in 1..k : u[i] = s[i]
  <2>1. IsPrefix(u, s)
    BY <1>4 DEF WellPadded
  <2>2. Len(u) <= Len(s) /\ \A i \in 1..Len(u) : u[i] = s[i]
    BY <1>5, <2>1, PrefixTold
  <2>3. Len(u) \in 0..n
    BY <1>1, <1>4, <2>2
  <2> QED
    BY <2>2, <2>3
<1>7. PICK t : t = SubSeq(s, k + 1, n)
  OBVIOUS
<1>8. /\ t \in Seq(Body64) /\ Len(t) = n - k /\ s = SubSeq(s, 1, k) \o t
      /\ SubSeq(s, 1, k) \in Seq(Body64) /\ Len(SubSeq(s, 1, k)) = k
      /\ \A i \in 1..k : SubSeq(s, 1, k)[i] = s[i]
      /\ \A i \in 1..(n - k) : t[i] = s[k + i]
  BY <1>1, <1>7, CutInTwo, ZenonT(40)
<1>9. SubSeq(s, 1, k) = u
  BY <1>5, <1>6, <1>8, SeqEqual
<1>10. Digits64(t) = <<>> /\ Others(t) = <<>> /\ Pads(s) = Pads(t)
  <2>1. s = u \o t
    BY <1>8, <1>9
  <2>2. /\ Digits64(s) = Digits64(u) \o Digits64(t) /\ Pads(s) = Pads(u) \o Pads(t)
        /\ Others(s) = Others(u) \o Others(t)
    BY <1>5, <1>8, <2>1, OnlyOfBoth
  <2>3. Digits64(u) = u /\ Pads(u) = <<>> /\ Others(u) = <<>>
    BY <1>4, OnlyOfDigits
  <2>4. /\ Digits64(t) \in Seq(Digit64) /\ Pads(t) \in Seq({Pad}) /\ Others(t) \in Seq({NonDigit})
    BY <1>8, OnlyOf
  <2>5. u = u \o Digits64(t) /\ <<>> = <<>> \o Others(t) /\ Pads(s) = <<>> \o Pads(t)
    BY <1>4, <2>2, <2>3 DEF WellPadded
  <2>6. Digits64(t) = <<>>
    BY <1>4, <2>4, <2>5, ConcatEqualIffEmpty
  <2>7. <<>> \o Others(t) = Others(t) /\ <<>> \o Pads(t) = Pads(t)
    BY <2>4
  <2> QED
    BY <2>5, <2>6, <2>7
<1>11. t \in Seq({Pad})
  <2>1. t \in Seq(Body64 \ Digit64)
    BY <1>8, <1>10, OnlyTells DEF Digits64
  <2>2. t \in Seq((Body64 \ Digit64) \ {NonDigit})
    BY <1>10, <2>1, OnlyTells DEF Others
  <2>3. (Body64 \ Digit64) \ {NonDigit} \subseteq {Pad}
    BY DEF Body64
  <2> QED
    BY <2>2, <2>3, SeqWider
<1>12. Pads(s) = t
  BY <1>10, <1>11, OnlyOfPads
<1>13. n - k > 0 => n - k <= 2 /\ n % 4 = 0
  BY <1>1, <1>8, <1>12 DEF WellPadded
<1>14. \A i \in (k + 1)..n : s[i] = Pad
  <2>1. ASSUME NEW i \in (k + 1)..n PROVE s[i] = Pad
    <3>1. i - k \in 1..(n - k) /\ k + (i - k) = i
      OBVIOUS
    <3>2. t[i - k] = Pad
      BY <1>8, <1>11, <3>1
    <3> QED
      BY <1>8, <3>1, <3>2
  <2> QED
    BY <2>1
<1>15. \A i \in 1..k : s[i] # Pad
  <2>1. \A i \in 1..k : u[i] \in Digit64
    BY <1>4, <1>6
  <2>2. Pad \notin Digit64
    BY CharactersApart
  <2> QED
    BY <1>6, <2>1, <2>2
<1>16. n - j = k
  <2>1. ~(n - j < k)
    <3>1. SUFFICES ASSUME n - j < k PROVE FALSE
      OBVIOUS
    <3>2. k \in (n - j + 1)..n /\ k \in 1..k
      BY <1>3, <3>1
    <3> QED
      BY <1>3, <1>15, <3>2
  <2>2. ~(n - j > k)
    <3>1. SUFFICES ASSUME n - j > k PROVE FALSE
      OBVIOUS
    <3>2. n - k > 0 /\ n - k <= 2 /\ n % 4 = 0 /\ j < 2 /\ j < n
      BY <1>3, <1>13, <3>1
    <3>3. n - j \in (k + 1)..n
      BY <1>3, <3>1
    <3> QED
      BY <1>3, <1>14, <3>2, <3>3
  <2> QED
    BY <1>3, <2>1, <2>2
<1>17. unpadded(s) = u
  BY <1>3, <1>9, <1>16
<1> QED
  BY <1>4, <1>17 DEF Decodes, WellPadded

WithoutSpace(text) == Only(Range(text) \ {Space}, text)

LEMMA CountedIn ==
    ASSUME NEW A, NEW c, NEW s \in Seq(A)
    PROVE  LET At == {i \in DOMAIN s : s[i] = c}
           IN  Cardinality(At) = Len(Only({c}, s)) /\ (At # {} <=> Len(Only({c}, s)) > 0)
<1>1. PICK chars : chars = {c}
  OBVIOUS
<1> DEFINE At == {i \in DOMAIN s : s[i] = c}
<1>2. At = {i \in DOMAIN s : s[i] \in chars}
  BY <1>1
<1>3. IsFiniteSet(At) /\ Cardinality(At) = Len(Only(chars, s))
  BY <1>2, OnlyCounts, SMTT(30)
<1>4. Only(chars, s) \in Seq(A \intersect chars)
  BY OnlyFolds
<1>5. Len(Only(chars, s)) \in Nat
  BY <1>4
<1>6. At = {} <=> Cardinality(At) = 0
  <2> HIDE DEF At
  <2> QED
    BY <1>3, FS_EmptySet
<1> QED
  BY <1>1, <1>3, <1>5, <1>6

LEMMA TextBody ==
    ASSUME NEW text \in Seq(Text64)
    PROVE  /\ WithoutSpace(text) \in Seq(Body64)
           /\ Digits64(WithoutSpace(text)) = Digits64(text)
           /\ Pads(WithoutSpace(text)) = Pads(text)
           /\ Others(WithoutSpace(text)) = Others(text)
<1>1. PICK R, W : R = Range(text) /\ W = R \ {Space}
  OBVIOUS
<1>2. text \in Seq(R) /\ R \subseteq Text64
  BY <1>1, SeqOfRange, RangeOfSeq
<1>3. PICK body : body = Only(W, text)
  OBVIOUS
<1>4. body \in Seq(Body64)
  <2>1. Only(W, text) \in Seq(R \intersect W)
    BY <1>2, OnlyFolds
  <2>2. R \intersect W \subseteq Body64
    BY <1>1, <1>2 DEF Text64, Body64
  <2> QED
    BY <1>3, <2>1, <2>2, SeqWider
<1>5. ASSUME NEW chars, Space \notin chars PROVE Only(chars, body) = Only(chars, text)
  <2>1. R \intersect chars \subseteq W
    BY <1>1, <1>5
  <2> QED
    BY <1>2, <1>3, <2>1, OnlyTwice
<1>6. Space \notin Digit64 /\ Space \notin {Pad} /\ Space \notin {NonDigit}
  BY CharactersApart
<1>7. /\ Only(Digit64, body) = Only(Digit64, text)
      /\ Only({Pad}, body) = Only({Pad}, text)
      /\ Only({NonDigit}, body) = Only({NonDigit}, text)
  BY <1>5, <1>6
<1>8. body = WithoutSpace(text)
  BY <1>1, <1>3, Zenon DEF WithoutSpace
<1> QED
  BY <1>4, <1>7, <1>8, Zenon DEF Digits64, Pads, Others

\* A text is decoded if and only if it is well padded and of the alphabet, and
\* the bytes are then the number that the digits are, but for its spare bits.
Base64Text(text, outcome) ==
    LET body == WithoutSpace(text)
        digits == Digits64(text)
        pads == {i \in DOMAIN text : text[i] = Pad}
        spare == (Len(digits) * DigitBits) % ByteBits
    IN  /\ Returned(outcome) <=>
              /\ NonDigit \notin Range(text)
              /\ IsPrefix(digits, body)
              /\ Len(digits) % 4 # 1
              /\ pads # {} => Cardinality(pads) <= 2 /\ Len(body) % 4 = 0
        /\ Returned(outcome) =>
              /\ Len(outcome.value) = (Len(digits) * DigitBits) \div ByteBits
              /\ ValueIn(ByteValues, outcome.value) =
                    ValueIn(DigitValues, digits) \div Power(2, spare)

LEMMA DecodesAre ==
    ASSUME NEW A, NEW u \in Seq(A)
    PROVE  Decodes(u) <=> ~(Len(u) % 4 = 1 \/ ~(Range(u) \subseteq 0..(Power(2, DigitBits) - 1)))
<1>1. Digit64 = 0..(Power(2, DigitBits) - 1)
  BY CharactersApart
<1>2. PICK D : D = Digit64
  OBVIOUS
<1>3. Range(u) \subseteq D <=> u \in Seq(D)
  <2>1. ASSUME u \in Seq(D) PROVE Range(u) \subseteq D
    BY <2>1, RangeOfSeq
  <2>2. ASSUME Range(u) \subseteq D PROVE u \in Seq(D)
    <3>1. u \in Seq(Range(u))
      BY SeqOfRange
    <3> QED
      BY <2>2, <3>1, SeqWider
  <2> QED
    BY <2>1, <2>2
<1> QED
  BY <1>1, <1>2, <1>3, Zenon DEF Decodes

LEMMA Base64IsRead ==
    ASSUME NEW text \in Seq(Text64) PROVE Base64Text(text, decodeBase64(text))
<1>1. PICK body \in Seq(Body64) : body = WithoutSpace(text)
  BY TextBody
<1>2. PICK u, D, P, Q : u = unpadded(body) /\ D = Digits64(text) /\ P = Pads(text) /\ Q = Others(text)
  OBVIOUS
<1>3. D = Digits64(body) /\ P = Pads(body) /\ Q = Others(body)
  BY <1>1, <1>2, TextBody
<1>4. PICK pads : pads = {i \in DOMAIN text : text[i] = Pad}
  OBVIOUS
<1>5. Cardinality(pads) = Len(P) /\ (pads # {} <=> Len(P) > 0)
  <2>1. Cardinality({i \in DOMAIN text : text[i] = Pad}) = Len(Only({Pad}, text))
        /\ ({i \in DOMAIN text : text[i] = Pad} # {} <=> Len(Only({Pad}, text)) > 0)
    BY CountedIn
  <2> QED
    BY <1>2, <1>4, <2>1, Zenon DEF Pads
<1>6. NonDigit \notin Range(text) <=> Q = <<>>
  <2>1. ASSUME Q = <<>> PROVE NonDigit \notin Range(text)
    <3>1. text \in Seq(Text64 \ {NonDigit})
      BY <1>2, <2>1, OnlyTells DEF Others
    <3>2. Range(text) \subseteq Text64 \ {NonDigit}
      BY <3>1, RangeOfSeq
    <3> QED
      BY <3>2
  <2>2. ASSUME NonDigit \notin Range(text) PROVE Q = <<>>
    <3>1. text \in Seq(Range(text))
      BY SeqOfRange
    <3>2. Range(text) \intersect {NonDigit} = {}
      BY <2>2
    <3>3. Only({NonDigit}, text) = <<>>
      BY <3>1, <3>2, OnlyNone
    <3> QED
      BY <1>2, <3>3 DEF Others
  <2> QED
    BY <2>1, <2>2
<1>7. WellPadded(body) <=>
          /\ NonDigit \notin Range(text) /\ IsPrefix(D, body) /\ Len(D) % 4 # 1
          /\ pads # {} => Cardinality(pads) <= 2 /\ Len(body) % 4 = 0
  BY <1>3, <1>5, <1>6, Zenon DEF WellPadded
<1>8. Decodes(u) <=> WellPadded(body)
  BY <1>2, DecodedIsPadded, PaddedIsDecoded
<1>9. Decodes(u) => u = D /\ u \in Seq(Digit64)
  BY <1>2, <1>3, DecodedIsPadded DEF Decodes
<1>10. decodeBase64(text) = IF Decodes(u) THEN Returns(Unbuffered(u))
                            ELSE Throws("Invalid base64 string.")
  <2>1. u \in Seq(Body64)
    <3>1. Pad \in Body64
      BY DEF Body64
    <3>2. PICK j \in 0..2 : j <= Len(body) /\ u = SubSeq(body, 1, Len(body) - j)
      BY <1>2, <3>1, UnpaddedIs
    <3>3. Len(body) - j \in 0..Len(body)
      BY <3>2
    <3> QED
      BY <3>2, <3>3, CutInTwo
  <2>2. Decodes(u) <=> ~(Len(u) % 4 = 1 \/ ~(Range(u) \subseteq 0..(Power(2, DigitBits) - 1)))
    BY <2>1, DecodesAre
  <2>3. decodeBase64(text) =
            IF Len(u) % 4 = 1 \/ ~(Range(u) \subseteq 0..(Power(2, DigitBits) - 1))
            THEN Throws("Invalid base64 string.") ELSE Returns(Unbuffered(u))
    BY <1>1, <1>2, Zenon DEF decodeBase64, WithoutSpace
  <2> QED
    BY <2>2, <2>3, Zenon
<1>11. Returned(decodeBase64(text)) <=> Decodes(u)
  <2>1. Returned(Returns(Unbuffered(u))) /\ ~Returned(Throws("Invalid base64 string."))
    BY DEF Returned, Returns, Throws
  <2> QED
    BY <1>10, <2>1, Zenon
<1>12. ASSUME Decodes(u)
       PROVE  /\ Len(decodeBase64(text).value) = (Len(D) * DigitBits) \div ByteBits
              /\ ValueIn(ByteValues, decodeBase64(text).value) =
                    ValueIn(DigitValues, D) \div Power(2, (Len(D) * DigitBits) % ByteBits)
  <2>1. decodeBase64(text).value = Unbuffered(u)
    BY <1>10, <1>12 DEF Returns
  <2>2. D \in Seq(Digit64) /\ u = D
    BY <1>9, <1>12
  <2>3. /\ Len(Unbuffered(D)) = (Len(D) * DigitBits) \div ByteBits
        /\ ValueIn(ByteValues, Unbuffered(D)) =
              ValueIn(DigitValues, D) \div Power(2, (Len(D) * DigitBits) % ByteBits)
    BY <2>2, UnbufferedValue
  <2> QED
    BY <2>1, <2>2, <2>3, Zenon
<1> QED
  BY <1>1, <1>2, <1>4, <1>7, <1>8, <1>11, <1>12, Zenon DEF Base64Text

-----------------------------------------------------------------------------

\* Hex

LEMMA FirstOf ==
    ASSUME NEW S, S \subseteq Nat, S # {}
    PROVE  Min(S) \in S /\ \A i \in S : Min(S) <= i
<1>1. PICK least \in S : \A i \in S : ~(i < least)
  BY LeastOf
<1>2. \A i \in S : least <= i
  BY <1>1
<1> QED
  BY <1>2 DEF Min

LEMMA LastOf ==
    ASSUME NEW n \in Nat, NEW S, S \subseteq 0..n, S # {}
    PROVE  Max(S) \in S /\ \A i \in S : Max(S) >= i
<1>1. PICK T : T = {i \in 0..n : n - i \in S}
  OBVIOUS
<1>2. T \subseteq Nat /\ T # {}
  <2>1. PICK i \in S : TRUE
    OBVIOUS
  <2>2. n - i \in 0..n /\ n - (n - i) = i
    OBVIOUS
  <2> QED
    BY <1>1, <2>1, <2>2
<1>3. PICK least \in T : \A i \in T : ~(i < least)
  BY <1>2, LeastOf
<1>4. n - least \in S /\ \A i \in S : n - least >= i
  <2>1. n - least \in S /\ least \in 0..n
    BY <1>1, <1>3
  <2>2. ASSUME NEW i \in S PROVE n - least >= i
    <3>1. n - i \in 0..n /\ n - (n - i) = i
      OBVIOUS
    <3>2. n - i \in T
      BY <1>1, <3>1
    <3> QED
      BY <1>3, <2>1, <3>1, <3>2
  <2> QED
    BY <2>1, <2>2
<1> QED
  BY <1>4 DEF Max

LEMMA HexSizes ==
    /\ HexBase \in Nat \ {0} /\ LowerDigit = HexDigit /\ LowerDigit \subseteq Nat /\ UpperDigit \subseteq Nat
    /\ LowerDigit \intersect UpperDigit = {}
    /\ \A c \in UpperDigit : c - HexBase \in LowerDigit
    /\ Space \notin Nat /\ X \notin Nat /\ NonDigit \notin Nat
<1>1. HexBase \in Nat \ {0}
  BY HexAssumption
<1> QED
  BY <1>1, CharactersApart DEF LowerDigit, UpperDigit, HexDigit

LEMMA LowerCased ==
    ASSUME NEW A, LowerDigit \subseteq A, NEW s \in Seq(A)
    PROVE  /\ toLowerCase(s) \in Seq(A) /\ Len(toLowerCase(s)) = Len(s)
           /\ \A i \in 1..Len(s) :
                toLowerCase(s)[i] = IF s[i] \in UpperDigit THEN s[i] - HexBase ELSE s[i]
<1>1. PICK n \in Nat : n = Len(s) /\ DOMAIN s = 1..n
  OBVIOUS
<1>2. toLowerCase(s) = [i \in 1..n |-> IF s[i] \in UpperDigit THEN s[i] - HexBase ELSE s[i]]
  BY <1>1, Zenon DEF toLowerCase
<1>3. ASSUME NEW i \in 1..n
      PROVE  (IF s[i] \in UpperDigit THEN s[i] - HexBase ELSE s[i]) \in A
  <2>1. s[i] \in A
    BY <1>1
  <2>2. s[i] \in UpperDigit => s[i] - HexBase \in A
    BY HexSizes
  <2> QED
    BY <2>1, <2>2
<1> QED
  BY <1>1, <1>2, <1>3

LEMMA Trimmed ==
    ASSUME NEW A, NEW s \in Seq(A)
    PROVE  trim(s) \in Seq(A) /\ ((\A i \in 1..Len(s) : s[i] # Space) => trim(s) = s)
<1>1. PICK n \in Nat : n = Len(s) /\ DOMAIN s = 1..n /\ \A i \in 1..n : s[i] \in A
  OBVIOUS
<1>2. PICK inside : inside = {i \in DOMAIN s : s[i] # Space}
  OBVIOUS
<1>3. trim(s) = IF inside = {} THEN <<>> ELSE SubSeq(s, Min(inside), Max(inside))
  BY <1>2 DEF trim
<1>4. CASE inside = {}
  <2>1. trim(s) = <<>>
    BY <1>3, <1>4
  <2>2. (\A i \in 1..n : s[i] # Space) => n = 0
    <3>1. n # 0 => 1 \in 1..n
      OBVIOUS
    <3> QED
      BY <1>1, <1>2, <1>4, <3>1
  <2>3. n = 0 => s = <<>>
    BY <1>1
  <2> QED
    BY <1>1, <2>1, <2>2, <2>3
<1>5. CASE inside # {}
  <2>1. inside \subseteq 1..n
    BY <1>1, <1>2
  <2>2. PICK a \in inside, b \in inside :
            a = Min(inside) /\ b = Max(inside) /\ \A i \in inside : a <= i /\ b >= i
    <3>1. inside \subseteq Nat /\ inside \subseteq 0..n
      BY <2>1
    <3>2. Min(inside) \in inside /\ \A i \in inside : Min(inside) <= i
      BY <1>5, <3>1, FirstOf
    <3>3. Max(inside) \in inside /\ \A i \in inside : Max(inside) >= i
      BY <1>5, <3>1, LastOf
    <3> QED
      BY <3>2, <3>3
  <2>3. trim(s) = SubSeq(s, a, b)
    BY <1>3, <1>5, <2>2
  <2>4. a \in 1..n /\ b \in 1..n
    BY <2>1
  <2>5. SubSeq(s, a, b) \in Seq(A)
    BY <1>1, <2>4
  <2>6. ASSUME \A i \in 1..n : s[i] # Space PROVE trim(s) = s
    <3>1. inside = 1..n
      BY <1>1, <1>2, <2>6
    <3>2. 1 \in 1..n /\ n \in 1..n
      BY <2>4
    <3>3. a = 1 /\ b = n
      BY <2>2, <2>4, <3>1, <3>2
    <3>4. SubSeq(s, 1, n) = s
      BY <1>1
    <3> QED
      BY <2>3, <3>3, <3>4
  <2> QED
    BY <1>1, <2>3, <2>5, <2>6
<1> QED
  BY <1>4, <1>5

\* An even number of digits is what the bytes are that they spell.
LEMMA DigitsOfPairs ==
    ASSUME NEW s \in Seq(HexDigit), Len(s) % 2 = 0
    PROVE  Pairs(s) \in Seq(ByteValue) /\ Digits(Pairs(s)) = s
<1>1. PICK m \in Nat : Len(s) = 2 * m
  <2>1. PICK n \in Nat : n = Len(s) /\ n % 2 = 0
    OBVIOUS
  <2>2. n = 2 * (n \div 2) /\ n \div 2 \in Nat
    BY <2>1
  <2> QED
    BY <2>1, <2>2
<1>2. PICK H \in Nat \ {0} : H = HexBase
  BY HexSizes
<1>3. \A i \in 1..(2 * m) : s[i] \in 0..(H - 1)
  BY <1>1, <1>2 DEF HexDigit
<1>4. PICK b : b = [i \in 1..m |-> s[2 * i - 1] * H + s[2 * i]]
  OBVIOUS
<1>5. Pairs(s) = b
  <2>1. (2 * m + 1) \div 2 = m
    OBVIOUS
  <2>2. \A i \in 1..m : 2 * i <= 2 * m
    OBVIOUS
  <2>3. Pairs(s) = [i \in 1..m |-> IF 2 * i <= 2 * m THEN s[2 * i - 1] * H + s[2 * i] ELSE s[2 * i - 1]]
    BY <1>1, <1>2, <2>1, Zenon DEF Pairs
  <2> QED
    BY <1>4, <2>2, <2>3
<1>6. ASSUME NEW i \in 1..m
      PROVE  /\ b[i] \in ByteValue /\ b[i] \div HexBase = s[2 * i - 1] /\ b[i] % HexBase = s[2 * i]
  <2>1. 2 * i - 1 \in 1..(2 * m) /\ 2 * i \in 1..(2 * m)
    OBVIOUS
  <2>2. PICK x \in 0..(H - 1), y \in 0..(H - 1) : x = s[2 * i - 1] /\ y = s[2 * i]
    BY <1>3, <2>1
  <2>3. PICK v \in Nat : v = x * H + y /\ v = b[i]
    <3>1. x * H + y \in Nat
      BY DigitPushed
    <3> QED
      BY <1>4, <2>2, <3>1
  <2>4. v < H * H
    BY <2>3, PushedBelow
  <2>5. v \div H = x /\ v % H = y
    <3>1. (x * H + y) \div H = x /\ (x * H + y) % H = y
      BY DigitPopped
    <3> QED
      BY <2>3, <3>1, Zenon
  <2>6. ByteValue = 0..(H * H - 1)
    BY <1>2, Sizes64 DEF ByteValues
  <2>7. v \in 0..(H * H - 1)
    <3>1. PICK q \in Nat : q = H * H
      OBVIOUS
    <3> QED
      BY <2>4, <3>1
  <2> QED
    BY <1>2, <2>2, <2>3, <2>5, <2>6, <2>7
<1>7. b \in Seq(ByteValue) /\ Len(b) = m
  BY <1>4, <1>6
<1>8. PICK d : d = Digits(b)
  OBVIOUS
<1>9. /\ d \in Seq(HexDigit) /\ Len(d) = 2 * m
      /\ \A i \in 1..m : d[2 * i - 1] = s[2 * i - 1] /\ d[2 * i] = s[2 * i]
  BY <1>6, <1>7, <1>8, DigitsOf
<1>10. ASSUME NEW j \in 1..(2 * m) PROVE d[j] = s[j]
  <2>1. PICK i \in 1..m : j = 2 * i - 1 \/ j = 2 * i
    <3>1. (j + 1) \div 2 \in 1..m
      OBVIOUS
    <3>2. j = 2 * ((j + 1) \div 2) - 1 \/ j = 2 * ((j + 1) \div 2)
      OBVIOUS
    <3> QED
      BY <3>1, <3>2
  <2> QED
    BY <1>9, <2>1
<1>11. d = s
  BY <1>1, <1>9, <1>10, SeqEqual
<1> QED
  BY <1>5, <1>7, <1>8, <1>11

\* What the decoder of hex comes to
Normalized(text) == toLowerCase(trim(text))
NoHex(text) ==
    Normalized(text) = <<>> \/ ~(Range(Normalized(text)) \subseteq LowerDigit)
        \/ Len(Normalized(text)) % 2 # 0

LEMMA HexOutcome ==
    ASSUME NEW text
    PROVE  hexToBytes(text) = IF NoHex(text) THEN Throws("Invalid hex string.")
                              ELSE Returns(Pairs(Normalized(text)))
BY Zenon DEF hexToBytes, NoHex, Normalized

LEMMA HexReturned ==
    ASSUME NEW text
    PROVE  /\ Returned(hexToBytes(text)) <=> ~NoHex(text)
           /\ ~NoHex(text) => hexToBytes(text).value = Pairs(Normalized(text))
<1>1. CASE NoHex(text)
  <2>1. hexToBytes(text) = Throws("Invalid hex string.")
    BY <1>1, HexOutcome
  <2>2. ~Returned(Throws("Invalid hex string."))
    BY DEF Returned, Throws
  <2> QED
    BY <1>1, <2>1, <2>2
<1>2. CASE ~NoHex(text)
  <2>1. hexToBytes(text) = Returns(Pairs(Normalized(text)))
    BY <1>2, HexOutcome
  <2>2. Returned(Returns(Pairs(Normalized(text))))
        /\ Returns(Pairs(Normalized(text))).value = Pairs(Normalized(text))
    BY DEF Returned, Returns
  <2> QED
    BY <1>2, <2>1, <2>2
<1> QED
  BY <1>1, <1>2

\* What is written in hex is read again, but for nothing at all.
LEMMA HexSpelled ==
    ASSUME NEW b \in Seq(ByteValue)
    PROVE  hexToBytes(bytesToHex(b)) = IF b = <<>> THEN Throws("Invalid hex string.") ELSE Returns(b)
<1>1. PICK s \in Seq(HexDigit) : s = bytesToHex(b) /\ Len(s) = 2 * Len(b) /\ Pairs(s) = b
  BY DigitsOf, PairsOfDigits DEF bytesToHex
<1>2. PICK n \in Nat : n = Len(b) /\ Len(s) = 2 * n
  BY <1>1
<1>3. \A i \in 1..Len(s) : s[i] \in Nat /\ s[i] # Space /\ s[i] \notin UpperDigit
  <2>1. \A i \in 1..Len(s) : s[i] \in HexDigit
    OBVIOUS
  <2> QED
    BY <2>1, HexSizes
<1>4. trim(s) = s
  BY <1>3, Trimmed
<1>5. toLowerCase(s) = s
  <2>1. /\ toLowerCase(s) \in Seq(HexDigit) /\ Len(toLowerCase(s)) = Len(s)
        /\ \A i \in 1..Len(s) :
             toLowerCase(s)[i] = IF s[i] \in UpperDigit THEN s[i] - HexBase ELSE s[i]
    BY HexSizes, LowerCased
  <2>2. \A i \in 1..Len(s) : toLowerCase(s)[i] = s[i]
    BY <1>3, <2>1
  <2> QED
    BY <2>1, <2>2, SeqEqual
<1>6. Normalized(s) = s
  BY <1>4, <1>5 DEF Normalized
<1>7. NoHex(s) <=> b = <<>>
  <2>1. Range(s) \subseteq LowerDigit
    BY HexSizes, RangeOfSeq
  <2>2. Len(s) % 2 = 0
    BY <1>2
  <2>3. s = <<>> <=> b = <<>>
    BY <1>2
  <2> QED
    BY <1>6, <2>1, <2>2, <2>3 DEF NoHex
<1> QED
  BY <1>1, <1>6, <1>7, HexOutcome

\* What is read from a text is what its digits spell, and isHex() tells which texts
\* are read, of those without white space and prefix.
LEMMA HexIsRead ==
    ASSUME NEW text \in Seq(HexText)
    PROVE  /\ Returned(hexToBytes(text)) => bytesToHex(hexToBytes(text).value) = toLowerCase(trim(text))
           /\ Space \notin Range(text) /\ X \notin Range(text) =>
                (Returned(hexToBytes(text)) <=> isHex(text))
<1>1. LowerDigit \subseteq HexText
  BY DEF HexText
<1>2. PICK s \in Seq(HexText) : s = Normalized(text)
  <2>1. trim(text) \in Seq(HexText)
    BY Trimmed
  <2> QED
    BY <1>1, <2>1, LowerCased DEF Normalized
<1>3. ASSUME Returned(hexToBytes(text))
      PROVE  bytesToHex(hexToBytes(text).value) = toLowerCase(trim(text))
  <2>1. ~NoHex(text) /\ hexToBytes(text).value = Pairs(s)
    BY <1>2, <1>3, HexReturned
  <2>2. Range(s) \subseteq HexDigit /\ ~(Len(s) % 2 # 0)
    BY <1>2, <2>1, HexSizes DEF NoHex
  <2>3. s \in Seq(HexDigit)
    <3>1. s \in Seq(Range(s))
      BY SeqOfRange
    <3> QED
      BY <2>2, <3>1, SeqWider
  <2>4. Digits(Pairs(s)) = s
    BY <2>2, <2>3, DigitsOfPairs
  <2> QED
    BY <1>2, <2>1, <2>4 DEF bytesToHex, Normalized
<1>4. ASSUME Space \notin Range(text), X \notin Range(text)
      PROVE  Returned(hexToBytes(text)) <=> isHex(text)
  <2>1. PICK n \in Nat : n = Len(text) /\ DOMAIN text = 1..n /\ \A i \in 1..n : text[i] \in HexText
    OBVIOUS
  <2>2. Range(text) = {text[i] : i \in 1..n}
    BY <2>1 DEF Range
  <2>3. \A i \in 1..n : text[i] # Space /\ text[i] # X
    BY <1>4, <2>2
  <2>4. trim(text) = text
    BY <2>1, <2>3, Trimmed
  <2>5. /\ Len(s) = n
        /\ \A i \in 1..n : s[i] = IF text[i] \in UpperDigit THEN text[i] - HexBase ELSE text[i]
    BY <1>1, <1>2, <2>1, <2>4, LowerCased DEF Normalized
  <2>6. Range(s) \subseteq LowerDigit <=> Range(text) \subseteq LowerDigit \union UpperDigit
    <3>1. Range(s) = {s[i] : i \in 1..n}
      BY <2>5 DEF Range
    <3>2. ASSUME NEW i \in 1..n
          PROVE  s[i] \in LowerDigit <=> text[i] \in LowerDigit \union UpperDigit
      <4>1. CASE text[i] \in UpperDigit
        BY <2>5, <4>1, HexSizes
      <4>2. CASE text[i] \notin UpperDigit
        BY <2>5, <4>2
      <4> QED
        BY <4>1, <4>2
    <3> QED
      BY <2>2, <3>1, <3>2
  <2>7. ~IsPrefix(<<0, X>>, text)
    <3>1. PICK p : p = <<0, X>>
      OBVIOUS
    <3>2. PICK A : A = HexText \union {0, X}
      OBVIOUS
    <3>3. p \in Seq(A) /\ Len(p) = 2 /\ p[2] = X
      BY <3>1, <3>2
    <3>4. text \in Seq(A)
      BY <3>2, SeqWider
    <3>5. IsPrefix(p, text) <=> Len(p) <= Len(text) /\ \A i \in 1..Len(p) : p[i] = text[i]
      BY <3>3, <3>4, PrefixTold, SMTT(30)
    <3>6. IsPrefix(p, text) => 2 <= n /\ p[2] = text[2]
      BY <2>1, <3>3, <3>5
    <3> QED
      BY <2>3, <3>1, <3>3, <3>6
  <2>8. isHex(text) <=> /\ text # <<>> /\ Range(text) \subseteq LowerDigit \union UpperDigit
                        /\ Len(text) % 2 = 0
    BY <2>7 DEF isHex
  <2>9. text = <<>> <=> s = <<>>
    BY <2>1, <2>5
  <2>10. isHex(text) <=> ~NoHex(text)
    BY <1>2, <2>1, <2>5, <2>6, <2>8, <2>9 DEF NoHex
  <2> QED
    BY <2>10, HexReturned
<1> QED
  BY <1>3, <1>4

-----------------------------------------------------------------------------

\* Base58: from bytes to digits

LEMMA ValueJoined ==
    ASSUME NEW r \in Nat \ {0}, NEW s \in Seq(Nat), NEW t \in Seq(Nat)
    PROVE  ValueIn(r, s \o t) = ValueIn(r, s) * Power(r, Len(t)) + ValueIn(r, t)
<1> DEFINE S == {u \in Seq(Nat) :
                     ValueIn(r, s \o u) = ValueIn(r, s) * Power(r, Len(u)) + ValueIn(r, u)}
<1>1. PICK V \in Nat : V = ValueIn(r, s)
  BY ValueIsNatural
<1>2. <<>> \in S
  <2>1. s \o <<>> = s /\ Len(<<>>) = 0 /\ <<>> \in Seq(Nat)
    OBVIOUS
  <2>2. Power(r, 0) = 1 /\ ValueIn(r, <<>>) = 0
    BY PowerEquation, ValueEmpty
  <2>3. ValueIn(r, s \o <<>>) = V * Power(r, Len(<<>>)) + ValueIn(r, <<>>)
    BY <1>1, <2>1, <2>2
  <2> QED
    BY <1>1, <2>1, <2>3
<1>3. ASSUME NEW u \in Seq(Nat), NEW c \in Nat, u \in S PROVE u \o <<c>> \in S
  <2>1. u \o <<c>> \in Seq(Nat) /\ s \o u \in Seq(Nat)
    OBVIOUS
  <2>2. PICK n \in Nat : n = Len(u) /\ Len(u \o <<c>>) = n + 1
    <3>1. Len(u) \in Nat /\ Len(u \o <<c>>) = Len(u) + 1
      OBVIOUS
    <3> QED
      BY <3>1
  <2>3. PICK P \in Nat : P = Power(r, n) /\ Power(r, n + 1) = r * P
    BY PowerPositive, PowerEquation
  <2>4. PICK W \in Nat : W = ValueIn(r, u) /\ ValueIn(r, u \o <<c>>) = W * r + c
    <3>1. ValueIn(r, u) \in Nat
      BY ValueIsNatural
    <3>2. ValueIn(r, u \o <<c>>) = ValueIn(r, u) * r + c
      BY ValuePushed
    <3> QED
      BY <3>1, <3>2
  <2>5. ValueIn(r, s \o u) = V * P + W
    BY <1>1, <1>3, <2>2, <2>3, <2>4
  <2>6. s \o (u \o <<c>>) = (s \o u) \o <<c>>
    <3>1. <<c>> \in Seq(Nat)
      OBVIOUS
    <3> QED
      BY <3>1, ConcatAssociative
  <2>7. ValueIn(r, (s \o u) \o <<c>>) = (V * P + W) * r + c
    <3>1. PICK w \in Seq(Nat) : w = s \o u
      BY <2>1
    <3>2. ValueIn(r, w \o <<c>>) = ValueIn(r, w) * r + c
      BY ValuePushed
    <3> QED
      BY <2>5, <3>1, <3>2
  <2>8. (V * P + W) * r + c = V * (r * P) + (W * r + c)
    <3>1. PICK e \in Nat : e = V * P
      OBVIOUS
    <3>2. (e + W) * r = e * r + W * r
      OBVIOUS
    <3>3. V * (r * P) = (V * P) * r
      OBVIOUS
    <3> QED
      BY <3>1, <3>2, <3>3
  <2>9. ValueIn(r, s \o (u \o <<c>>)) =
            ValueIn(r, s) * Power(r, Len(u \o <<c>>)) + ValueIn(r, u \o <<c>>)
    BY <1>1, <2>2, <2>3, <2>4, <2>6, <2>7, <2>8
  <2> QED
    BY <2>1, <2>9
<1>4. Seq(Nat) \subseteq S
  <2> HIDE DEF S
  <2> QED
    BY <1>2, <1>3, SeqInduction
<1> QED
  BY <1>4

\* The number that digits are, the least significant first
LowValue(r, s) == ValueIn(r, Reverse(s))

LEMMA ReverseTwice == ASSUME NEW A, NEW s \in Seq(A) PROVE Reverse(Reverse(s)) = s
<1>1. PICK n \in Nat : n = Len(s)
  OBVIOUS
<1>2. PICK t \in Seq(A) : t = Reverse(s) /\ Len(t) = n /\ \A i \in 1..n : t[i] = s[n + 1 - i]
  BY <1>1, ReverseSeq
<1>3. Reverse(t) \in Seq(A) /\ Len(Reverse(t)) = n /\ \A i \in 1..n : Reverse(t)[i] = t[n + 1 - i]
  BY <1>2, ReverseSeq
<1>4. ASSUME NEW i \in 1..n PROVE Reverse(t)[i] = s[i]
  <2>1. n + 1 - i \in 1..n /\ n + 1 - (n + 1 - i) = i
    OBVIOUS
  <2> QED
    BY <1>2, <1>3, <2>1
<1> QED
  BY <1>1, <1>2, <1>3, <1>4, SeqEqual

LEMMA ReverseJoined ==
    ASSUME NEW A, NEW s \in Seq(A), NEW t \in Seq(A)
    PROVE  Reverse(s \o t) = Reverse(t) \o Reverse(s)
<1>1. PICK n \in Nat, m \in Nat : n = Len(s) /\ m = Len(t)
  OBVIOUS
<1>2. PICK a : a = s \o t
  OBVIOUS
<1>3. /\ a \in Seq(A) /\ Len(a) = n + m
      /\ \A i \in 1..n : a[i] = s[i]
      /\ \A i \in 1..m : a[n + i] = t[i]
  BY <1>1, <1>2, JoinedParts
<1>4. Reverse(a) \in Seq(A) /\ Len(Reverse(a)) = n + m
      /\ \A i \in 1..(n + m) : Reverse(a)[i] = a[n + m + 1 - i]
  <2>1. PICK q \in Nat : q = n + m /\ Len(a) = q
    BY <1>3
  <2>2. Reverse(a) \in Seq(A) /\ Len(Reverse(a)) = Len(a)
        /\ \A i \in 1..Len(a) : Reverse(a)[i] = a[Len(a) + 1 - i]
    BY <1>3, ReverseSeq
  <2> QED
    BY <2>1, <2>2
<1>5. PICK u \in Seq(A) : u = Reverse(s) /\ Len(u) = n /\ \A i \in 1..n : u[i] = s[n + 1 - i]
  BY <1>1, ReverseSeq
<1>6. PICK v \in Seq(A) : v = Reverse(t) /\ Len(v) = m /\ \A i \in 1..m : v[i] = t[m + 1 - i]
  BY <1>1, ReverseSeq
<1>7. /\ v \o u \in Seq(A) /\ Len(v \o u) = m + n
      /\ \A i \in 1..m : (v \o u)[i] = v[i]
      /\ \A i \in 1..n : (v \o u)[m + i] = u[i]
  <2>1. /\ v \o u \in Seq(A) /\ Len(v \o u) = Len(v) + Len(u)
        /\ \A i \in 1..Len(v) : (v \o u)[i] = v[i]
        /\ \A i \in 1..Len(u) : (v \o u)[Len(v) + i] = u[i]
    BY JoinedParts
  <2> QED
    BY <1>5, <1>6, <2>1
<1>8. ASSUME NEW i \in 1..(n + m) PROVE Reverse(a)[i] = (v \o u)[i]
  <2>1. CASE i <= m
    <3>1. i \in 1..m /\ m + 1 - i \in 1..m /\ n + m + 1 - i = n + (m + 1 - i)
      BY <2>1
    <3>2. a[n + (m + 1 - i)] = t[m + 1 - i]
      BY <1>3, <3>1
    <3> QED
      BY <1>4, <1>6, <1>7, <3>1, <3>2
  <2>2. CASE i > m
    <3>1. PICK j \in 1..n : i = m + j
      <4>1. i - m \in 1..n /\ i = m + (i - m)
        BY <2>2
      <4> QED
        BY <4>1
    <3>2. n + m + 1 - i = n + 1 - j /\ n + 1 - j \in 1..n
      BY <3>1
    <3>3. (v \o u)[i] = s[n + 1 - j]
      BY <1>5, <1>7, <3>1
    <3>4. Reverse(a)[i] = s[n + 1 - j]
      BY <1>3, <1>4, <3>2
    <3> QED
      BY <3>3, <3>4
  <2>3. i <= m \/ i > m
    OBVIOUS
  <2> QED
    BY <2>1, <2>2, <2>3
<1>9. Reverse(a) = v \o u
  <2>1. n + m = m + n
    OBVIOUS
  <2> QED
    BY <1>4, <1>7, <1>8, <2>1, SeqEqual
<1> QED
  BY <1>2, <1>5, <1>6, <1>9

LEMMA LowJoined ==
    ASSUME NEW r \in Nat \ {0}, NEW s \in Seq(Nat), NEW t \in Seq(Nat)
    PROVE  LowValue(r, s \o t) = LowValue(r, t) * Power(r, Len(s)) + LowValue(r, s)
<1>1. PICK u \in Seq(Nat) : u = Reverse(s) /\ Len(u) = Len(s)
  BY ReverseSeq
<1>2. PICK v \in Seq(Nat) : v = Reverse(t)
  BY ReverseSeq
<1>3. Reverse(s \o t) = v \o u
  BY <1>1, <1>2, ReverseJoined
<1>4. ValueIn(r, v \o u) = ValueIn(r, v) * Power(r, Len(u)) + ValueIn(r, u)
  BY ValueJoined
<1> QED
  BY <1>1, <1>2, <1>3, <1>4, Zenon DEF LowValue

LEMMA LowOfOne ==
    ASSUME NEW r \in Nat \ {0}, NEW c \in Nat
    PROVE  LowValue(r, <<c>>) = c /\ LowValue(r, <<>>) = 0
<1>1. PICK o \in Seq(Nat) : o = <<c>> /\ Len(o) = 1 /\ o[1] = c
  <2>1. <<c>> \in Seq(Nat)
    OBVIOUS
  <2> QED
    BY <2>1
<1>2. Reverse(o) = o
  <2>1. Reverse(o) \in Seq(Nat) /\ Len(Reverse(o)) = Len(o)
        /\ \A i \in 1..Len(o) : Reverse(o)[i] = o[Len(o) + 1 - i]
    BY ReverseSeq
  <2> QED
    BY <1>1, <2>1, SeqEqual
<1>3. ValueIn(r, <<>> \o <<c>>) = ValueIn(r, <<>>) * r + c
  <2>1. <<>> \in Seq(Nat)
    OBVIOUS
  <2> QED
    BY <2>1, ValuePushed
<1>4. <<>> \o <<c>> = <<c>> /\ ValueIn(r, <<>>) = 0
  BY ValueEmpty
<1>5. ValueIn(r, <<c>>) = c
  BY <1>3, <1>4
<1>6. Reverse(<<>>) = <<>>
  <2>1. PICK e \in Seq(Nat) : e = <<>> /\ Len(e) = 0
    <3>1. <<>> \in Seq(Nat) /\ Len(<<>>) = 0
      OBVIOUS
    <3> QED
      BY <3>1
  <2>2. Reverse(e) \in Seq(Nat) /\ Len(Reverse(e)) = Len(e)
    BY ReverseSeq
  <2> QED
    BY <2>1, <2>2
<1> QED
  BY <1>1, <1>2, <1>4, <1>5, <1>6 DEF LowValue

\* The sums of what the digits stand for
Sums58(l, r, n, s) == l[0] = 0 /\ \A i \in 1..n : l[i] = s[i] * Power(r, i - 1) + l[i - 1]

LEMMA LowSums ==
    ASSUME NEW r \in Nat \ {0}, NEW s \in Seq(Nat)
    PROVE  \E l \in [0..Len(s) -> Nat] : Sums58(l, r, Len(s), s) /\ l[Len(s)] = LowValue(r, s)
<1>1. PICK n \in Nat : n = Len(s) /\ \A i \in 1..n : s[i] \in Nat
  OBVIOUS
<1>2. PICK l : l = [i \in 0..n |-> LowValue(r, SubSeq(s, 1, i))]
  OBVIOUS
<1>3. ASSUME NEW i \in 0..n
      PROVE  SubSeq(s, 1, i) \in Seq(Nat) /\ Len(SubSeq(s, 1, i)) = i
             /\ \A k \in 1..i : SubSeq(s, 1, i)[k] = s[k]
  BY <1>1, CutInTwo
<1>4. ASSUME NEW i \in 0..n PROVE l[i] \in Nat
  <2>1. Reverse(SubSeq(s, 1, i)) \in Seq(Nat)
    BY <1>3, ReverseSeq
  <2>2. LowValue(r, SubSeq(s, 1, i)) \in Nat
    BY <2>1, ValueIsNatural DEF LowValue
  <2> QED
    BY <1>2, <2>2
<1>5. l[0] = 0
  <2>1. SubSeq(s, 1, 0) = <<>>
    OBVIOUS
  <2>2. LowValue(r, <<>>) = 0
    BY LowOfOne, 0 \in Nat
  <2> QED
    BY <1>2, <2>1, <2>2
<1>6. ASSUME NEW i \in 1..n PROVE l[i] = s[i] * Power(r, i - 1) + l[i - 1]
  <2>1. PICK j \in 0..n : j = i - 1 /\ j + 1 = i
    OBVIOUS
  <2>2. PICK a \in Seq(Nat) : a = SubSeq(s, 1, j) /\ Len(a) = j
    BY <1>3
  <2>3. PICK b \in Seq(Nat) : b = SubSeq(s, 1, i) /\ Len(b) = j + 1
    <3>1. SubSeq(s, 1, i) \in Seq(Nat) /\ Len(SubSeq(s, 1, i)) = i
      BY <1>3
    <3> QED
      BY <2>1, <3>1
  <2>4. SubSeq(b, 1, j) = a /\ b[j + 1] = s[i]
    <3>1. b[j + 1] = s[i]
      BY <1>3, <2>1, <2>3
    <3>2. SubSeq(b, 1, j) \in Seq(Nat) /\ Len(SubSeq(b, 1, j)) = j
          /\ \A k \in 1..j : SubSeq(b, 1, j)[k] = b[k]
      <4>1. j \in 0..Len(b)
        BY <2>3
      <4> QED
        BY <4>1, CutInTwo
    <3>3. \A k \in 1..j : b[k] = s[k] /\ a[k] = s[k]
      <4>1. \A k \in 1..j : k \in 1..i
        BY <2>1
      <4> QED
        BY <1>3, <2>2, <2>3, <4>1
    <3> QED
      BY <2>2, <3>1, <3>2, <3>3, SeqEqual
  <2>5. b = a \o <<s[i]>>
    BY <2>3, <2>4, LastTaken
  <2>6. PICK o \in Seq(Nat) : o = <<s[i]>> /\ LowValue(r, o) = s[i]
    <3>1. <<s[i]>> \in Seq(Nat) /\ s[i] \in Nat
      BY <1>1
    <3> QED
      BY <3>1, LowOfOne
  <2>7. LowValue(r, a \o o) = LowValue(r, o) * Power(r, Len(a)) + LowValue(r, a)
    BY LowJoined
  <2>8. l[i] = LowValue(r, b) /\ l[j] = LowValue(r, a)
    BY <1>2, <2>2, <2>3
  <2> QED
    BY <2>1, <2>2, <2>5, <2>6, <2>7, <2>8, Zenon
<1>7. l[n] = LowValue(r, s)
  <2>1. SubSeq(s, 1, n) = s
    BY <1>1
  <2> QED
    BY <1>2, <2>1
<1>8. l \in [0..n -> Nat]
  BY <1>2, <1>4
<1> QED
  BY <1>1, <1>5, <1>6, <1>7, <1>8 DEF Sums58

\* Digits times a factor, the carry of each going to the next
Carries(c, first, n, s, f, r) ==
    c[0] = first /\ \A i \in 1..n : c[i] = (c[i - 1] + s[i] * f) \div r
Carry(g, first, n, s, f, r) ==
    g = [i \in 0..n |-> IF i = 0 THEN first ELSE (g[i - 1] + s[i] * f) \div r]

LEMMA CarryStep ==
    ASSUME NEW r \in Nat \ {0}, NEW f \in Nat, NEW a \in Nat, NEW d \in Nat
    PROVE  (a + d * f) \in Nat /\ (a + d * f) \div r \in Nat /\ (a + d * f) % r \in 0..(r - 1)
<1>1. PICK e \in Nat : e = d * f
  OBVIOUS
<1>2. PICK x \in Nat : x = a + e
  OBVIOUS
<1>3. x = (x \div r) * r + (x % r) /\ x % r \in 0..(r - 1) /\ x \div r \in Int
  BY DivMod
<1>4. x \div r \in Nat
  BY <1>3
<1>5. a + d * f = x
  BY <1>1, <1>2
<1>6. a + d * f \in Nat
  BY <1>5
<1>7. (a + d * f) \div r = x \div r /\ (a + d * f) % r = x % r
  BY <1>5, Zenon
<1>8. (a + d * f) \div r \in Nat /\ (a + d * f) % r \in 0..(r - 1)
  BY <1>3, <1>4, <1>7, Zenon
<1> QED
  BY <1>6, <1>8, Zenon

LEMMA CarrySolved ==
    ASSUME NEW r \in Nat \ {0}, NEW f \in Nat, NEW n \in Nat, NEW first \in Nat,
           NEW s, \A i \in 1..n : s[i] \in Nat, NEW c, Carry(c, first, n, s, f, r)
    PROVE  c \in [0..n -> Nat] /\ Carries(c, first, n, s, f, r)
<1>1. Carries(c, first, n, s, f, r) /\ DOMAIN c = 0..n /\ c = [i \in 0..n |-> c[i]]
  <2>1. \A i \in 0..n : c[i] = IF i = 0 THEN first ELSE (c[i - 1] + s[i] * f) \div r
    BY Zenon DEF Carry
  <2>2. c[0] = first
    <3>1. 0 \in 0..n
      OBVIOUS
    <3> QED
      BY <2>1, <3>1
  <2>3. ASSUME NEW i \in 1..n PROVE c[i] = (c[i - 1] + s[i] * f) \div r
    <3>1. i \in 0..n /\ i # 0
      OBVIOUS
    <3> QED
      BY <2>1, <3>1, Zenon
  <2>4. DOMAIN c = 0..n
    BY Zenon DEF Carry
  <2>5. c = [i \in 0..n |-> c[i]]
    <3>1. PICK k : k = [i \in 0..n |-> IF i = 0 THEN first ELSE (c[i - 1] + s[i] * f) \div r]
      OBVIOUS
    <3>2. c = k
      BY <3>1, Zenon DEF Carry
    <3> QED
      BY <3>1, <3>2
  <2> QED
    BY <2>2, <2>3, <2>4, <2>5 DEF Carries
<1> DEFINE S == {i \in 0..n : c[i] \in Nat}
<1>2. 0 \in S
  BY <1>1 DEF Carries
<1>3. ASSUME NEW i \in 0..(n - 1), i \in S PROVE i + 1 \in S
  <2>1. i + 1 \in 1..n /\ (i + 1) - 1 = i /\ i + 1 \in 0..n
    OBVIOUS
  <2>2. c[i + 1] = (c[i] + s[i + 1] * f) \div r
    BY <1>1, <2>1 DEF Carries
  <2>3. PICK a \in Nat, d \in Nat : a = c[i] /\ d = s[i + 1]
    BY <1>3, <2>1
  <2>4. (a + d * f) \div r \in Nat
    BY CarryStep
  <2> QED
    BY <2>1, <2>2, <2>3, <2>4
<1>4. 0..n \subseteq S
  <2> HIDE DEF S
  <2> QED
    BY <1>2, <1>3, InductionUpTo
<1>5. c \in [0..n -> Nat]
  BY <1>1, <1>4
<1> QED
  BY <1>1, <1>5

LEMMA CarryExists ==
    ASSUME NEW r \in Nat \ {0}, NEW f \in Nat, NEW n \in Nat, NEW first \in Nat,
           NEW s, \A i \in 1..n : s[i] \in Nat
    PROVE  \E c : Carry(c, first, n, s, f, r)
<1>1. PICK step : step = [p \in (1..n) \X Nat |-> (p[2] + s[p[1]] * f) \div r]
  OBVIOUS
<1>2. StepTo(n, Nat, step)
  <2>1. ASSUME NEW p \in (1..n) \X Nat PROVE (p[2] + s[p[1]] * f) \div r \in Nat
    <3>1. PICK a \in Nat, d \in Nat : a = p[2] /\ d = s[p[1]]
      OBVIOUS
    <3> QED
      BY <3>1, CarryStep
  <2> QED
    BY <1>1, <2>1 DEF StepTo
<1>3. PICK h : RecursesTo(h, n, Nat, first, step)
  BY <1>2, RecursionTo
<1>4. Carry(h, first, n, s, f, r)
  <2>1. h = [i \in 0..n |-> h[i]] /\ h[0] = first
    BY <1>3 DEF RecursesTo
  <2>2. ASSUME NEW i \in 1..n PROVE h[i] = (h[i - 1] + s[i] * f) \div r
    <3>1. h[i - 1] \in Nat
      BY <1>3 DEF RecursesTo
    <3>2. <<i, h[i - 1]>> \in (1..n) \X Nat
      BY <3>1
    <3>3. step[<<i, h[i - 1]>>] = (h[i - 1] + s[i] * f) \div r
      BY <1>1, <3>2
    <3> QED
      BY <1>3, <3>3 DEF RecursesTo
  <2>3. ASSUME NEW i \in 0..n
        PROVE  h[i] = IF i = 0 THEN first ELSE (h[i - 1] + s[i] * f) \div r
    <3>1. i # 0 => i \in 1..n
      OBVIOUS
    <3> QED
      BY <2>1, <2>2, <3>1
  <2> QED
    BY <2>1, <2>3 DEF Carry
<1> QED
  BY <1>4

LEMMA CarriesSolved ==
    ASSUME NEW r \in Nat \ {0}, NEW f \in Nat, NEW n \in Nat, NEW first \in Nat,
           NEW s, \A i \in 1..n : s[i] \in Nat
    PROVE  LET c == CHOOSE g : Carry(g, first, n, s, f, r)
           IN  c \in [0..n -> Nat] /\ Carries(c, first, n, s, f, r)
<1> DEFINE c == CHOOSE g : Carry(g, first, n, s, f, r)
<1>1. Carry(c, first, n, s, f, r)
  BY CarryExists
<1> HIDE DEF c
<1>2. c \in [0..n -> Nat] /\ Carries(c, first, n, s, f, r)
  BY <1>1, CarrySolved
<1> QED
  BY <1>2 DEF c

LEMMA Balanced ==
    ASSUME NEW m \in Nat, NEW g \in Nat, NEW k \in Nat, NEW first \in Nat, m + g = k + first,
           NEW a \in Nat, NEW b \in Nat, NEW h \in Nat, a + b = g + h
    PROVE  (a + m) + b = (h + k) + first
OBVIOUS

LEMMA DivRemains ==
    ASSUME NEW y \in Nat, NEW r \in Nat \ {0}
    PROVE  \E q \in Nat, e \in Nat : q = y \div r /\ e = y % r /\ y = q * r + e
<1>1. y = (y \div r) * r + (y % r) /\ y % r \in 0..(r - 1) /\ y \div r \in Int
  BY DivMod
<1>2. y \div r \in Nat /\ y % r \in Nat
  BY <1>1
<1> QED
  BY <1>1, <1>2

\* The step of the sum of what the digits have become and of the carry
Balance(r, f, P, li, mi, ci, d, q, e, first) ==
    mi + ci * P = li * f + first /\ ci + d * f = q * r + e
NextBalance(r, f, P, li, mi, d, q, e, first) ==
    (e * P + mi) + q * (r * P) = (d * P + li) * f + first

LEMMA CarryBalances ==
    ASSUME NEW r \in Nat, NEW f \in Nat, NEW P \in Nat, NEW li \in Nat, NEW mi \in Nat,
           NEW ci \in Nat, NEW d \in Nat, NEW q \in Nat, NEW e \in Nat, NEW first \in Nat,
           Balance(r, f, P, li, mi, ci, d, q, e, first)
    PROVE  NextBalance(r, f, P, li, mi, d, q, e, first)
<1>0. mi + ci * P = li * f + first /\ ci + d * f = q * r + e
  BY DEF Balance
<1>1. e * P + q * (r * P) = ci * P + (d * P) * f
  <2>1. PICK x \in Nat : x = d * f
    OBVIOUS
  <2>2. PICK y \in Nat : y = q * r
    OBVIOUS
  <2>3. ci + x = y + e
    BY <1>0, <2>1, <2>2
  <2>4. (ci + x) * P = ci * P + x * P /\ (y + e) * P = y * P + e * P
    OBVIOUS
  <2>5. (d * P) * f = (d * f) * P /\ q * (r * P) = (q * r) * P
    OBVIOUS
  <2> QED
    BY <2>1, <2>2, <2>3, <2>4, <2>5
<1>2. (d * P + li) * f = (d * P) * f + li * f
  <2>1. PICK x \in Nat : x = d * P
    OBVIOUS
  <2>2. (x + li) * f = x * f + li * f
    OBVIOUS
  <2> QED
    BY <2>1, <2>2
<1>3. PICK a \in Nat, b \in Nat, g \in Nat, h \in Nat, k \in Nat :
          a = e * P /\ b = q * (r * P) /\ g = ci * P /\ h = (d * P) * f /\ k = li * f
  OBVIOUS
<1>4. mi + g = k + first
  BY <1>0, <1>3, Zenon
<1>5. a + b = g + h
  BY <1>1, <1>3, Zenon
<1>6. (a + mi) + b = (h + k) + first
  BY <1>4, <1>5, Balanced
<1>7. (d * P + li) * f = h + k
  BY <1>2, <1>3, Zenon
<1> QED
  BY <1>3, <1>6, <1>7, Zenon DEF NextBalance

\* What remains with the digits and what they hand on make the product.
CarriesTo(t, c, first, n, s, f, r) ==
    /\ c \in [0..n -> Nat] /\ Carries(c, first, n, s, f, r)
    /\ \A i \in 1..n : t[i] = (c[i - 1] + s[i] * f) % r
CarryIsKept(t, c, first, n, s, f, r) ==
    LowValue(r, t) + c[n] * Power(r, n) = LowValue(r, s) * f + first

LEMMA CarryKeepsValue ==
    ASSUME NEW r \in Nat \ {0}, NEW f \in Nat, NEW n \in Nat, NEW first \in Nat,
           NEW s \in Seq(Nat), Len(s) = n, NEW t \in Seq(Nat), Len(t) = n,
           NEW c, CarriesTo(t, c, first, n, s, f, r)
    PROVE  CarryIsKept(t, c, first, n, s, f, r)
<1>0. /\ c \in [0..n -> Nat] /\ Carries(c, first, n, s, f, r)
      /\ \A i \in 1..n : t[i] = (c[i - 1] + s[i] * f) % r
  BY DEF CarriesTo
<1> USE <1>0
<1>1. PICK l \in [0..n -> Nat] : Sums58(l, r, n, s) /\ l[n] = LowValue(r, s)
  BY LowSums
<1>2. PICK m \in [0..n -> Nat] : Sums58(m, r, n, t) /\ m[n] = LowValue(r, t)
  <2>1. \E l2 \in [0..Len(t) -> Nat] : Sums58(l2, r, Len(t), t) /\ l2[Len(t)] = LowValue(r, t)
    BY LowSums
  <2> QED
    BY <2>1
<1> DEFINE S == {i \in 0..n : m[i] + c[i] * Power(r, i) = l[i] * f + first}
<1>3. 0 \in S
  <2>1. m[0] = 0 /\ l[0] = 0 /\ c[0] = first /\ Power(r, 0) = 1
    BY <1>1, <1>2, PowerEquation DEF Sums58, Carries
  <2> QED
    BY <2>1
<1>4. ASSUME NEW i \in 0..(n - 1), i \in S PROVE i + 1 \in S
  <2>1. i + 1 \in 1..n /\ (i + 1) - 1 = i /\ i + 1 \in 0..n /\ i \in 0..n /\ i \in Nat
    OBVIOUS
  <2>2. PICK P \in Nat : P = Power(r, i) /\ Power(r, i + 1) = r * P
    <3>1. Power(r, i) \in Nat /\ Power(r, i + 1) = r * Power(r, i)
      BY <2>1, PowerPositive, PowerEquation
    <3> QED
      BY <3>1
  <2>3. PICK li \in Nat, mi \in Nat, ci \in Nat, d \in Nat :
            li = l[i] /\ mi = m[i] /\ ci = c[i] /\ d = s[i + 1]
    <3>1. l[i] \in Nat /\ m[i] \in Nat /\ c[i] \in Nat
      BY <1>1, <1>2, <2>1
    <3>2. s[i + 1] \in Nat
      BY <2>1, ElementOfSeq
    <3> QED
      BY <3>1, <3>2
  <2>4. PICK q \in Nat, e \in Nat :
            q = (ci + d * f) \div r /\ e = (ci + d * f) % r /\ ci + d * f = q * r + e
    <3>1. PICK y \in Nat : y = ci + d * f
      BY CarryStep
    <3>2. \E q \in Nat, e \in Nat : q = y \div r /\ e = y % r /\ y = q * r + e
      BY DivRemains
    <3> QED
      BY <3>1, <3>2, Zenon
  <2>5. c[i + 1] = q /\ t[i + 1] = e
    <3>1. c[i + 1] = (c[i] + s[i + 1] * f) \div r /\ t[i + 1] = (c[i] + s[i + 1] * f) % r
      BY <2>1 DEF Carries
    <3> QED
      BY <2>3, <2>4, <3>1, Zenon
  <2>6. l[i + 1] = d * P + li /\ m[i + 1] = e * P + mi
    <3>1. l[i + 1] = s[i + 1] * Power(r, i) + l[i] /\ m[i + 1] = t[i + 1] * Power(r, i) + m[i]
      BY <1>1, <1>2, <2>1 DEF Sums58
    <3> QED
      BY <2>2, <2>3, <2>5, <3>1, Zenon
  <2>7. mi + ci * P = li * f + first
    BY <1>4, <2>2, <2>3
  <2>8. (e * P + mi) + q * (r * P) = (d * P + li) * f + first
    <3>1. Balance(r, f, P, li, mi, ci, d, q, e, first)
      BY <2>4, <2>7, Zenon DEF Balance
    <3>2. NextBalance(r, f, P, li, mi, d, q, e, first)
      BY <3>1, CarryBalances
    <3> QED
      BY <3>2, Zenon DEF NextBalance
  <2>9. m[i + 1] + c[i + 1] * Power(r, i + 1) = l[i + 1] * f + first
    BY <2>2, <2>5, <2>6, <2>8, Zenon
  <2> QED
    BY <2>1, <2>9
<1>5. 0..n \subseteq S
  <2> HIDE DEF S
  <2> QED
    BY <1>3, <1>4, InductionUpTo
<1>6. n \in 0..n
  OBVIOUS
<1> QED
  BY <1>1, <1>2, <1>5, <1>6 DEF CarryIsKept

LEMMA Sizes58 ==
    /\ Radix \in Nat \ {0} /\ Radix >= 4 /\ Radix < ByteValues
    /\ Digit58 \subseteq Nat /\ 0 \in Digit58
    /\ KeyLength \in Nat \ {0}
<1>1. Radix \in 4..(ByteValues - 1) /\ KeyLength \in Nat \ {0}
  BY CodecsAssumption
<1>2. ByteValues \in Nat
  BY Sizes64
<1> QED
  BY <1>1, <1>2 DEF Digit58

\* What is left of a carry
Left(g, carry) == g = [i \in 0..carry |-> IF i = 0 THEN carry ELSE g[i - 1] \div Radix]
Lefts(g, n) == g[0] = n /\ \A i \in 1..n : g[i] = g[i - 1] \div Radix

LEMMA LeftExists ==
    ASSUME NEW n \in Nat
    PROVE  LET left == CHOOSE g : Left(g, n) IN left \in [0..n -> Nat] /\ Lefts(left, n)
<1>1. PICK R \in Nat \ {0} : R = Radix
  BY Sizes58
<1>2. PICK step : step = [p \in (1..n) \X Nat |-> p[2] \div R]
  OBVIOUS
<1>3. StepTo(n, Nat, step)
  BY <1>2 DEF StepTo
<1>4. PICK h : RecursesTo(h, n, Nat, n, step)
  BY <1>3, RecursionTo
<1>5. Left(h, n)
  <2>1. h = [i \in 0..n |-> h[i]] /\ h[0] = n
    BY <1>4 DEF RecursesTo
  <2>2. ASSUME NEW i \in 1..n PROVE h[i] = h[i - 1] \div R
    <3>1. h[i - 1] \in Nat
      BY <1>4 DEF RecursesTo
    <3>2. step[<<i, h[i - 1]>>] = h[i - 1] \div R
      BY <1>2, <3>1
    <3> QED
      BY <1>4, <3>2 DEF RecursesTo
  <2>3. ASSUME NEW i \in 0..n PROVE h[i] = IF i = 0 THEN n ELSE h[i - 1] \div R
    <3>1. i # 0 => i \in 1..n
      OBVIOUS
    <3> QED
      BY <2>1, <2>2, <3>1
  <2> QED
    BY <1>1, <2>1, <2>3 DEF Left
<1> DEFINE left == CHOOSE g : Left(g, n)
<1>6. Left(left, n)
  BY <1>5
<1> HIDE DEF left
<1>7. Lefts(left, n) /\ left = [i \in 0..n |-> left[i]]
  <2>1. PICK k : k = [i \in 0..n |-> IF i = 0 THEN n ELSE left[i - 1] \div R]
    OBVIOUS
  <2>2. left = k
    BY <1>1, <1>6, <2>1, Zenon DEF Left
  <2>3. left[0] = n
    BY <2>1, <2>2
  <2>4. \A i \in 1..n : left[i] = left[i - 1] \div R
    <3>1. ASSUME NEW i \in 1..n PROVE k[i] = left[i - 1] \div R
      BY <2>1
    <3> QED
      BY <2>2, <3>1
  <2>5. left = [i \in 0..n |-> left[i]]
    BY <2>1, <2>2
  <2> QED
    BY <1>1, <2>3, <2>4, <2>5 DEF Lefts
<1> DEFINE S == {i \in 0..n : left[i] \in Nat}
<1>8. 0 \in S
  BY <1>7 DEF Lefts
<1>9. ASSUME NEW i \in 0..(n - 1), i \in S PROVE i + 1 \in S
  <2>1. i + 1 \in 1..n /\ (i + 1) - 1 = i /\ i + 1 \in 0..n
    OBVIOUS
  <2>2. left[i + 1] = left[i] \div R
    BY <1>1, <1>7, <2>1 DEF Lefts
  <2> QED
    BY <1>9, <2>1, <2>2
<1>10. 0..n \subseteq S
  <2> HIDE DEF S
  <2> QED
    BY <1>8, <1>9, InductionUpTo
<1>11. left \in [0..n -> Nat]
  BY <1>7, <1>10
<1> QED
  BY <1>7, <1>11 DEF left

\* A carry is at most as often divided as it is large.
LEMMA LeftEnds ==
    ASSUME NEW n \in Nat, NEW left \in [0..n -> Nat], Lefts(left, n)
    PROVE  left[n] = 0
<1>1. PICK R \in Nat \ {0} : R = Radix /\ R >= 4
  BY Sizes58
<1> DEFINE S == {i \in 0..n : left[i] <= n - i}
<1>2. 0 \in S
  BY DEF Lefts
<1>3. ASSUME NEW i \in 0..(n - 1), i \in S PROVE i + 1 \in S
  <2>1. i + 1 \in 1..n /\ (i + 1) - 1 = i /\ i + 1 \in 0..n
    OBVIOUS
  <2>2. PICK a \in Nat : a = left[i] /\ a <= n - i
    BY <1>3
  <2>3. left[i + 1] = a \div R
    BY <1>1, <2>1, <2>2 DEF Lefts
  <2>4. PICK q \in Nat, e \in Nat : q = a \div R /\ a = q * R + e
    BY DivRemains
  <2>5. q <= n - (i + 1)
    <3>1. PICK k \in Nat : R = k + 4
      <4>1. R - 4 \in Nat /\ R = (R - 4) + 4
        BY <1>1
      <4> QED
        BY <4>1
    <3>2. q * (k + 4) = q * k + q * 4
      OBVIOUS
    <3>3. PICK w \in Nat : w = q * k
      OBVIOUS
    <3>4. a = w + q * 4 + e
      BY <2>4, <3>1, <3>2, <3>3
    <3> QED
      BY <2>1, <2>2, <3>4
  <2> QED
    BY <2>1, <2>3, <2>4, <2>5
<1>4. 0..n \subseteq S
  <2> HIDE DEF S
  <2> QED
    BY <1>2, <1>3, InductionUpTo
<1>5. n \in S /\ left[n] \in Nat
  BY <1>4
<1> QED
  BY <1>5

LEMMA SmallRemains ==
    ASSUME NEW a \in Nat, NEW r \in Nat \ {0}, a \div r = 0
    PROVE  a % r = a
<1>1. a < r
  OBVIOUS
<1>2. a = 0 * r + a /\ a \in 0..(r - 1)
  BY <1>1
<1> QED
  BY <1>2, DivUnique

\* The digits of a carry: it is their number, and there is no zero to begin with.
LEMMA SpilledHolds ==
    ASSUME NEW n \in Nat
    PROVE  /\ Spilled(n) \in Seq(Digit58) /\ LowValue(Radix, Spilled(n)) = n
           /\ n = 0 => Spilled(n) = <<>>
           /\ n > 0 => Len(Spilled(n)) > 0 /\ Spilled(n)[Len(Spilled(n))] # 0
<1>1. PICK R \in Nat \ {0} : R = Radix /\ R >= 4
  BY Sizes58
<1>2. PICK left \in [0..n -> Nat] : left = (CHOOSE g : Left(g, n)) /\ Lefts(left, n)
  BY LeftExists
<1>3. PICK ends : ends = {j \in 0..n : left[j] = 0}
  OBVIOUS
<1>4. PICK k \in 0..n : k = Min(ends) /\ left[k] = 0 /\ \A j \in 0..n : left[j] = 0 => k <= j
  <2>1. n \in ends /\ ends \subseteq Nat
    BY <1>2, <1>3, LeftEnds
  <2>2. Min(ends) \in ends /\ \A j \in ends : Min(ends) <= j
    BY <2>1, FirstOf
  <2> QED
    BY <1>3, <2>2
<1>5. PICK s : s = [i \in 1..k |-> left[i - 1] % R]
  OBVIOUS
<1>6. Spilled(n) = s
  <2>1. Spilled(n) = [i \in 1..Min(ends) |-> left[i - 1] % Radix]
    <3> DEFINE g == CHOOSE f : Left(f, n)
    <3>1. Spilled(n) = [i \in 1..Min({j \in 0..n : g[j] = 0}) |-> g[i - 1] % Radix]
      BY DEF Spilled, Left
    <3>2. left = g
      BY <1>2
    <3> HIDE DEF g
    <3> QED
      BY <1>3, <3>1, <3>2
  <2> QED
    BY <1>1, <1>4, <1>5, <2>1, Zenon
<1>7. s \in Seq(Digit58) /\ Len(s) = k /\ s \in Seq(Nat)
  <2>1. ASSUME NEW i \in 1..k PROVE left[i - 1] % R \in 0..(R - 1)
    <3>1. left[i - 1] \in Nat
      OBVIOUS
    <3> QED
      BY <3>1
  <2>2. s \in Seq(0..(R - 1)) /\ Len(s) = k
    BY <1>5, <2>1
  <2>3. s \in Seq(Digit58)
    BY <1>1, <2>2 DEF Digit58
  <2> QED
    BY <2>2, <2>3, Sizes58, SeqWider
<1>8. PICK l \in [0..k -> Nat] : Sums58(l, R, k, s) /\ l[k] = LowValue(R, s)
  <2>1. \E l \in [0..Len(s) -> Nat] : Sums58(l, R, Len(s), s) /\ l[Len(s)] = LowValue(R, s)
    BY <1>7, LowSums
  <2> QED
    BY <1>7, <2>1
<1> DEFINE S == {i \in 0..k : l[i] + left[i] * Power(R, i) = n}
<1>9. 0 \in S
  <2>1. l[0] = 0 /\ left[0] = n /\ Power(R, 0) = 1
    BY <1>2, <1>8, PowerEquation DEF Sums58, Lefts
  <2> QED
    BY <2>1
<1>10. ASSUME NEW i \in 0..(k - 1), i \in S PROVE i + 1 \in S
  <2>1. i + 1 \in 1..k /\ (i + 1) - 1 = i /\ i + 1 \in 0..k /\ i \in Nat /\ i + 1 \in 1..n /\ i \in 0..n
    OBVIOUS
  <2>2. PICK P \in Nat : P = Power(R, i) /\ Power(R, i + 1) = R * P
    <3>1. Power(R, i) \in Nat /\ Power(R, i + 1) = R * Power(R, i)
      BY <2>1, PowerPositive, PowerEquation
    <3> QED
      BY <3>1
  <2>3. PICK a \in Nat, li \in Nat : a = left[i] /\ li = l[i]
    <3>1. left[i] \in Nat /\ l[i] \in Nat
      BY <1>2, <1>8, <2>1
    <3> QED
      BY <3>1
  <2>4. PICK q \in Nat, e \in Nat : q = a \div R /\ e = a % R /\ a = q * R + e
    BY DivRemains
  <2>5. left[i + 1] = q /\ s[i + 1] = e
    <3>1. left[i + 1] = left[i] \div R
      BY <1>1, <1>2, <2>1 DEF Lefts
    <3>2. s[i + 1] = left[i] % R
      BY <1>5, <2>1
    <3> QED
      BY <2>3, <2>4, <3>1, <3>2
  <2>6. l[i + 1] = e * P + li
    <3>1. l[i + 1] = s[i + 1] * Power(R, i) + l[i]
      BY <1>8, <2>1 DEF Sums58
    <3> QED
      BY <2>2, <2>3, <2>5, <3>1, Zenon
  <2>7. li + a * P = n
    BY <1>10, <2>2, <2>3
  <2>8. (e * P + li) + q * (R * P) = n
    <3>1. PICK y \in Nat : y = q * R
      OBVIOUS
    <3>2. a * P = y * P + e * P
      <4>1. (y + e) * P = y * P + e * P
        OBVIOUS
      <4> QED
        BY <2>4, <3>1, <4>1
    <3>3. q * (R * P) = y * P
      <4>1. q * (R * P) = (q * R) * P
        OBVIOUS
      <4> QED
        BY <3>1, <4>1
    <3>4. PICK u \in Nat, v \in Nat, w \in Nat : u = y * P /\ v = e * P /\ w = a * P
      OBVIOUS
    <3> QED
      BY <2>7, <3>2, <3>3, <3>4
  <2>9. l[i + 1] + left[i + 1] * Power(R, i + 1) = n
    BY <2>2, <2>5, <2>6, <2>8, Zenon
  <2> QED
    BY <2>1, <2>9
<1>11. 0..k \subseteq S
  <2>1. k \in Nat
    OBVIOUS
  <2> HIDE DEF S
  <2> QED
    BY <1>9, <1>10, <2>1, InductionUpTo
<1>12. LowValue(R, s) = n
  <2>1. l[k] + left[k] * Power(R, k) = n /\ left[k] = 0
    <3>1. k \in S
      BY <1>11
    <3> QED
      BY <1>4, <3>1
  <2>2. Power(R, k) \in Nat
    BY PowerPositive
  <2>3. l[k] = n
    BY <2>1, <2>2
  <2> QED
    BY <1>8, <2>3
<1>13. n = 0 => s = <<>>
  <2>1. ASSUME n = 0 PROVE k = 0
    BY <2>1
  <2> QED
    BY <1>7, <2>1
<1>14. ASSUME n > 0 PROVE k > 0 /\ s[k] # 0
  <2>1. left[0] = n
    BY <1>2 DEF Lefts
  <2>2. k > 0
    BY <1>4, <1>14, <2>1
  <2>3. k - 1 \in 0..n /\ k \in 1..k /\ k \in 1..n
    BY <2>2
  <2>4. left[k - 1] # 0 /\ left[k - 1] \in Nat
    BY <1>4, <2>3
  <2>5. left[k - 1] \div R = 0
    BY <1>1, <1>2, <1>4, <2>3 DEF Lefts
  <2>6. PICK a \in Nat : a = left[k - 1] /\ a # 0 /\ a \div R = 0
    BY <2>4, <2>5
  <2>7. a % R = a
    BY <2>6, SmallRemains
  <2> QED
    BY <1>5, <2>2, <2>3, <2>6, <2>7
<1> QED
  BY <1>1, <1>6, <1>7, <1>12, <1>13, <1>14

\* Digits, the least significant first, that begin with no zero but that of zero
Numeral(s) == s \in Seq(Digit58) /\ Len(s) > 0 /\ (s = <<0>> \/ s[Len(s)] # 0)
Numerals == {s \in Seq(Digit58) : Numeral(s)}

LEMMA CarriedInHolds ==
    ASSUME NEW s \in Numerals, NEW b \in ByteValue
    PROVE  CarriedIn(s, b) \in Numerals /\ LowValue(Radix, CarriedIn(s, b)) = LowValue(Radix, s) * ByteValues + b
<1>1. PICK R \in Nat \ {0}, W \in Nat \ {0} : R = Radix /\ W = ByteValues /\ R >= 4 /\ R < W
  BY Sizes58, Sizes64
<1>2. PICK n \in Nat : n = Len(s) /\ n > 0 /\ s \in Seq(Digit58)
  BY DEF Numerals, Numeral
<1>3. s \in Seq(Nat) /\ b \in Nat /\ \A i \in 1..n : s[i] \in Nat
  <2>1. s \in Seq(Nat)
    BY <1>2, Sizes58, SeqWider
  <2>2. b \in Nat
    BY Sizes64
  <2> QED
    BY <1>2, <2>1, <2>2
<1>4. PICK c \in [0..n -> Nat] :
          c = (CHOOSE g : Carry(g, b, n, s, W, R)) /\ Carries(c, b, n, s, W, R)
  BY <1>3, CarriesSolved
<1>5. PICK t : t = [i \in 1..n |-> (c[i - 1] + s[i] * W) % R]
  OBVIOUS
<1>6. CarriedIn(s, b) = t \o Spilled(c[n])
  <2> DEFINE g == CHOOSE f : Carry(f, b, Len(s), s, ByteValues, Radix)
  <2>1. CarriedIn(s, b) = [i \in 1..Len(s) |-> (g[i - 1] + s[i] * ByteValues) % Radix] \o Spilled(g[Len(s)])
    BY DEF CarriedIn, Carry
  <2>2. g = c
    BY <1>1, <1>2, <1>4
  <2> HIDE DEF g
  <2> QED
    BY <1>1, <1>2, <1>5, <2>1, <2>2
<1>7. t \in Seq(Digit58) /\ Len(t) = n /\ \A i \in 1..n : t[i] = (c[i - 1] + s[i] * W) % R
  <2>1. ASSUME NEW i \in 1..n PROVE (c[i - 1] + s[i] * W) % R \in 0..(R - 1)
    <3>1. PICK a \in Nat, d \in Nat : a = c[i - 1] /\ d = s[i]
      BY <1>3, SMTT(30)
    <3> QED
      BY <3>1, CarryStep
  <2>2. t \in Seq(0..(R - 1)) /\ Len(t) = n
    BY <1>5, <2>1
  <2> QED
    BY <1>1, <1>5, <2>2 DEF Digit58
<1>8. t \in Seq(Nat)
  BY <1>7, Sizes58, SeqWider
<1>9. LowValue(R, t) + c[n] * Power(R, n) = LowValue(R, s) * W + b
  <2>1. CarriesTo(t, c, b, n, s, W, R)
    BY <1>4, <1>7 DEF CarriesTo
  <2>2. CarryIsKept(t, c, b, n, s, W, R)
    BY <1>2, <1>3, <1>7, <1>8, <2>1, CarryKeepsValue
  <2> QED
    BY <2>2, Zenon DEF CarryIsKept
<1>10. PICK k \in Nat, P \in Nat : k = c[n] /\ P = Power(R, n)
  <2>1. c[n] \in Nat /\ Power(R, n) \in Nat
    <3>1. n \in 0..n
      OBVIOUS
    <3> QED
      BY <1>4, <3>1, PowerPositive
  <2> QED
    BY <2>1
<1>11. PICK u \in Seq(Digit58) :
          /\ u = Spilled(k) /\ LowValue(R, u) = k /\ (k = 0 => u = <<>>)
          /\ k > 0 => Len(u) > 0 /\ u[Len(u)] # 0
  BY <1>1, SpilledHolds
<1>12. u \in Seq(Nat)
  BY <1>11, Sizes58, SeqWider
<1>13. LowValue(R, t \o u) = LowValue(R, s) * W + b
  <2>1. LowValue(R, t \o u) = LowValue(R, u) * Power(R, Len(t)) + LowValue(R, t)
    BY <1>8, <1>12, LowJoined
  <2>2. PICK x \in Nat, y \in Nat : x = LowValue(R, t) /\ y = k * P
    <3>1. Reverse(t) \in Seq(Nat)
      BY <1>8, ReverseSeq
    <3>2. LowValue(R, t) \in Nat
      BY <3>1, ValueIsNatural DEF LowValue
    <3> QED
      BY <3>2
  <2>3. LowValue(R, t \o u) = y + x
    BY <1>7, <1>10, <1>11, <2>1, <2>2, Zenon
  <2>4. x + y = LowValue(R, s) * W + b
    BY <1>9, <1>10, <2>2, Zenon
  <2>5. x + y = y + x
    OBVIOUS
  <2> QED
    BY <2>3, <2>4, <2>5
<1>14. t \o u \in Seq(Digit58) /\ Len(t \o u) = n + Len(u)
  <2>1. t \o u \in Seq(Digit58) /\ Len(t \o u) = Len(t) + Len(u)
    BY <1>7, JoinedParts
  <2> QED
    BY <1>7, <2>1
<1>15. CASE k > 0
  <2>1. PICK m \in Nat \ {0} : m = Len(u) /\ u[m] # 0
    BY <1>11, <1>15
  <2>2. (t \o u)[n + m] = u[m]
    <3>1. \A i \in 1..Len(u) : (t \o u)[Len(t) + i] = u[i]
      BY <1>7, <1>11, JoinedParts
    <3>2. m \in 1..m
      OBVIOUS
    <3> QED
      BY <1>7, <2>1, <3>1, <3>2
  <2>3. t \o u \in Numerals
    BY <1>2, <1>14, <2>1, <2>2, SMTT(30) DEF Numerals, Numeral
  <2> QED
    BY <1>1, <1>6, <1>10, <1>11, <1>13, <2>3
<1>16. CASE k = 0
  <2>1. t \o u = t
    BY <1>7, <1>11, <1>16
  <2>2. PICK a \in Nat, d \in Digit58 : a = c[n - 1] /\ d = s[n] /\ d \in Nat
    <3>1. n \in 1..n /\ n - 1 \in 0..n
      BY <1>2
    <3>2. c[n - 1] \in Nat
      BY <3>1
    <3>3. s[n] \in Digit58
      BY <1>2, <3>1, ElementOfSeq
    <3> QED
      BY <3>2, <3>3, Sizes58
  <2>3. (a + d * W) \div R = 0
    <3>1. n \in 1..n
      BY <1>2
    <3>2. c[n] = (c[n - 1] + s[n] * W) \div R
      BY <1>4, <3>1 DEF Carries
    <3> QED
      BY <1>10, <1>16, <2>2, <3>2
  <2>4. d = 0
    <3>1. SUFFICES ASSUME d # 0 PROVE FALSE
      OBVIOUS
    <3>2. PICK j \in Nat : d = j + 1
      <4>1. d - 1 \in Nat /\ d = (d - 1) + 1
        BY <2>2, <3>1
      <4> QED
        BY <4>1
    <3>3. (j + 1) * W = j * W + W
      OBVIOUS
    <3>4. PICK w \in Nat : w = j * W
      OBVIOUS
    <3>5. PICK x \in Nat : x = a + d * W
      BY <2>2, CarryStep
    <3>6. x = a + w + W
      BY <3>2, <3>3, <3>4, <3>5
    <3>7. x >= R /\ x \div R = 0
      BY <1>1, <2>3, <3>5, <3>6
    <3> QED
      BY <3>7
  <2>5. s = <<0>> /\ n = 1
    BY <1>2, <2>2, <2>4 DEF Numerals, Numeral
  <2>6. a = b
    BY <1>4, <2>2, <2>5 DEF Carries
  <2>7. t[1] = b
    <3>1. t[1] = (a + d * W) % R
      BY <1>7, <2>2, <2>5
    <3>2. a + d * W = a
      <4>1. 0 * W = 0
        OBVIOUS
      <4> QED
        BY <2>4, <4>1
    <3>3. a % R = a
      BY <2>3, <3>2, SmallRemains
    <3> QED
      BY <2>6, <3>1, <3>2, <3>3
  <2>8. t = <<b>>
    BY <1>7, <2>5, <2>7
  <2>9. t \in Numerals
    BY <1>7, <2>5, <2>7, <2>8 DEF Numerals, Numeral
  <2> QED
    BY <1>1, <1>6, <1>10, <1>11, <1>13, <2>1, <2>9
<1>17. k > 0 \/ k = 0
  OBVIOUS
<1> QED
  BY <1>15, <1>16, <1>17

\* The digits along the bytes
InRadixAlong(g, bytes) ==
    g = [i \in 0..Len(bytes) |-> IF i = 0 THEN <<0>> ELSE CarriedIn(g[i - 1], bytes[i])]

LEMMA InRadixHolds ==
    ASSUME NEW bytes \in Seq(ByteValue)
    PROVE  InRadix(bytes) \in Numerals /\ LowValue(Radix, InRadix(bytes)) = ValueIn(ByteValues, bytes)
<1>1. PICK n \in Nat : n = Len(bytes) /\ \A i \in 1..n : bytes[i] \in ByteValue
  OBVIOUS
<1>2. PICK A, base : A = Numerals /\ base = <<0>>
  OBVIOUS
<1>3. base \in A /\ LowValue(Radix, base) = 0
  <2>1. <<0>> \in Seq(Digit58) /\ Len(<<0>>) = 1
    BY Sizes58
  <2>2. LowValue(Radix, <<0>>) = 0
    BY LowOfOne, Sizes58, 0 \in Nat
  <2> QED
    BY <1>2, <2>1, <2>2 DEF Numerals, Numeral
<1>4. PICK step : step = [p \in (1..n) \X A |-> CarriedIn(p[2], bytes[p[1]])]
  OBVIOUS
<1>5. StepTo(n, A, step)
  <2>1. ASSUME NEW p \in (1..n) \X A PROVE CarriedIn(p[2], bytes[p[1]]) \in A
    <3>1. p[2] \in Numerals /\ bytes[p[1]] \in ByteValue
      BY <1>1, <1>2
    <3> QED
      BY <1>2, <3>1, CarriedInHolds
  <2> QED
    BY <1>4, <2>1 DEF StepTo
<1>6. PICK h : RecursesTo(h, n, A, base, step)
  BY <1>3, <1>5, RecursionTo
<1>7. InRadixAlong(h, bytes)
  <2>1. h = [i \in 0..n |-> h[i]] /\ h[0] = base
    BY <1>6 DEF RecursesTo
  <2>2. ASSUME NEW i \in 1..n PROVE h[i] = CarriedIn(h[i - 1], bytes[i])
    <3>1. h[i - 1] \in A
      BY <1>6 DEF RecursesTo
    <3>2. step[<<i, h[i - 1]>>] = CarriedIn(h[i - 1], bytes[i])
      BY <1>4, <3>1
    <3> QED
      BY <1>6, <3>2 DEF RecursesTo
  <2>3. ASSUME NEW i \in 0..n PROVE h[i] = IF i = 0 THEN <<0>> ELSE CarriedIn(h[i - 1], bytes[i])
    <3>1. CASE i = 0
      BY <1>2, <2>1, <3>1
    <3>2. CASE i # 0
      <4>1. i \in 1..n
        BY <3>2
      <4> QED
        BY <2>2, <3>2, <4>1, Zenon
    <3> QED
      BY <3>1, <3>2
  <2> QED
    BY <1>1, <2>1, <2>3 DEF InRadixAlong
<1> DEFINE after == CHOOSE g : InRadixAlong(g, bytes)
<1>8. InRadixAlong(after, bytes)
  BY <1>7
<1>9. InRadix(bytes) = after[n]
  BY <1>1 DEF InRadix, InRadixAlong
<1> HIDE DEF after
<1>10. after[0] = base /\ \A i \in 1..n : after[i] = CarriedIn(after[i - 1], bytes[i])
  <2>1. \A i \in 0..n : after[i] = IF i = 0 THEN <<0>> ELSE CarriedIn(after[i - 1], bytes[i])
    BY <1>1, <1>8, Zenon DEF InRadixAlong
  <2>2. 0 \in 0..n /\ \A i \in 1..n : i \in 0..n /\ i # 0
    OBVIOUS
  <2>3. after[0] = base
    BY <1>2, <2>1, <2>2, Zenon
  <2>4. ASSUME NEW i \in 1..n PROVE after[i] = CarriedIn(after[i - 1], bytes[i])
    BY <2>1, <2>2, Zenon
  <2> QED
    BY <2>3, <2>4
<1>11. bytes \in Seq(Nat)
  BY Sizes64, SeqWider
<1>12. PICK v \in [0..n -> Nat] : Values(v, ByteValues, bytes) /\ ValueIn(ByteValues, bytes) = v[n]
  BY <1>1, <1>11, Sizes64, ValueSteps
<1> DEFINE Right(i) == after[i] \in Numerals /\ LowValue(Radix, after[i]) = v[i]
           S == {i \in 0..n : Right(i)}
<1>13. 0 \in S
  <2>1. v[0] = 0
    BY <1>12 DEF Values
  <2> QED
    BY <1>2, <1>3, <1>10, <2>1, SMTT(30)
<1>14. ASSUME NEW i \in 0..(n - 1), i \in S PROVE i + 1 \in S
  <2>1. i + 1 \in 1..n /\ (i + 1) - 1 = i /\ i + 1 \in 0..n
    OBVIOUS
  <2>2. after[i + 1] = CarriedIn(after[i], bytes[i + 1])
    BY <1>10, <2>1
  <2>3. PICK s \in Numerals, b \in ByteValue : s = after[i] /\ b = bytes[i + 1] /\ LowValue(Radix, s) = v[i]
    BY <1>1, <1>14, <2>1
  <2>4. CarriedIn(s, b) \in Numerals /\ LowValue(Radix, CarriedIn(s, b)) = LowValue(Radix, s) * ByteValues + b
    BY CarriedInHolds
  <2>5. v[i + 1] = v[i] * ByteValues + bytes[i + 1]
    BY <1>1, <1>12, <2>1 DEF Values
  <2>6. Right(i + 1)
    BY <2>2, <2>3, <2>4, <2>5, Zenon
  <2> QED
    BY <2>1, <2>6
<1>15. 0..n \subseteq S
  <2> HIDE DEF S
  <2> QED
    BY <1>13, <1>14, InductionUpTo
<1>16. Right(n)
  BY <1>15
<1> QED
  BY <1>9, <1>12, <1>16

LeadingZeros(s) == {i \in DOMAIN s : \A j \in 1..i : s[j] = 0}

LEMMA ZerosCounted ==
    ASSUME NEW A, NEW s \in Seq(A), NEW k \in 0..Len(s),
           \A i \in 1..k : s[i] = 0, k < Len(s) => s[k + 1] # 0
    PROVE  LeadingZeros(s) = 1..k
<1>1. PICK n \in Nat : n = Len(s) /\ DOMAIN s = 1..n
  OBVIOUS
<1>2. ASSUME NEW i \in 1..k PROVE i \in LeadingZeros(s)
  <2>1. i \in 1..n /\ \A j \in 1..i : j \in 1..k
    BY <1>1
  <2> QED
    BY <1>1, <2>1 DEF LeadingZeros
<1>3. ASSUME NEW i \in LeadingZeros(s) PROVE i \in 1..k
  <2>1. i \in 1..n /\ \A j \in 1..i : s[j] = 0
    BY <1>1 DEF LeadingZeros
  <2>2. ~(i > k)
    <3>1. SUFFICES ASSUME i > k PROVE FALSE
      OBVIOUS
    <3>2. k + 1 \in 1..i /\ k < Len(s)
      BY <1>1, <2>1, <3>1
    <3> QED
      BY <2>1, <3>2
  <2> QED
    BY <2>1, <2>2
<1> QED
  BY <1>2, <1>3

LEMMA LeadingZerosAre ==
    ASSUME NEW s \in Seq(ByteValue)
    PROVE  /\ leadingZeros(s) \in 0..Len(s) /\ \A i \in 1..leadingZeros(s) : s[i] = 0
           /\ leadingZeros(s) < Len(s) => s[leadingZeros(s) + 1] # 0
<1>1. PICK n \in Nat : n = Len(s) /\ DOMAIN s = 1..n
  OBVIOUS
<1>2. PICK S : S = {i \in DOMAIN s : s[i] # 0} \union {n + 1}
  OBVIOUS
<1>3. S \subseteq 1..(n + 1) /\ n + 1 \in S
  BY <1>1, <1>2
<1>4. PICK m \in S : m = Min(S) /\ \A i \in S : m <= i
  <2>1. S \subseteq Nat /\ S # {}
    BY <1>3
  <2> QED
    BY <2>1, FirstOf
<1>5. leadingZeros(s) = m - 1
  BY <1>1, <1>2, <1>4, Zenon DEF leadingZeros
<1>6. m - 1 \in 0..n
  BY <1>3
<1>7. \A i \in 1..(m - 1) : s[i] = 0
  <2>1. ASSUME NEW i \in 1..(m - 1), s[i] # 0 PROVE FALSE
    <3>1. i \in 1..n
      BY <1>6
    <3>2. i \in S
      BY <1>1, <1>2, <2>1, <3>1
    <3> QED
      BY <1>4, <1>6, <3>2
  <2> QED
    BY <2>1
<1>8. m - 1 < n => s[(m - 1) + 1] # 0
  <2>1. m \in 1..(n + 1)
    BY <1>3
  <2>2. (m - 1) + 1 = m /\ (m - 1 < n => m # n + 1)
    BY <2>1
  <2> QED
    BY <1>2, <2>2
<1> QED
  BY <1>1, <1>5, <1>6, <1>7, <1>8

LEMMA OnesAreNothing ==
    ASSUME NEW r \in Nat \ {0}, NEW n \in Nat
    PROVE  /\ Ones(n) \in Seq(Nat) /\ Ones(n) \in Seq(Digit58) /\ Len(Ones(n)) = n
           /\ \A i \in 1..n : Ones(n)[i] = 0
           /\ ValueIn(r, Ones(n)) = 0
<1>1. PICK s \in Seq({0}) : s = Ones(n) /\ Len(s) = n /\ \A i \in 1..n : s[i] = 0
  <2>1. Ones(n) \in Seq({0}) /\ Len(Ones(n)) = n /\ \A i \in 1..n : Ones(n)[i] = 0
    BY DEF Ones
  <2> QED
    BY <2>1
<1>2. s \in Seq(Nat) /\ s \in Seq(Digit58)
  BY Sizes58, SeqWider
<1>3. PICK v : v = [i \in 0..n |-> 0]
  OBVIOUS
<1>4. Values(v, r, s)
  <2>1. 0 * r = 0
    OBVIOUS
  <2>2. \A i \in 1..n : v[i] = 0 /\ v[i - 1] = 0
    BY <1>3
  <2>3. \A i \in 1..n : v[i] = v[i - 1] * r + s[i]
    BY <1>1, <2>1, <2>2
  <2> QED
    BY <1>1, <1>3, <2>3 DEF Values
<1>5. v[Len(s)] = ValueIn(r, s)
  BY <1>2, <1>4, ValueOf
<1> QED
  BY <1>1, <1>2, <1>3, <1>5

\* The number is kept, and so are the zeros before it.
Spells58(text, b) ==
    /\ text \in Seq(Digit58)
    /\ ValueIn(Radix, text) = ValueIn(ByteValues, b)
    /\ LeadingZeros(text) = LeadingZeros(b)

LEMMA Base58Spelled == ASSUME NEW b \in Seq(ByteValue) PROVE Spells58(bytesToBase58(b), b)
<1>1. PICK R \in Nat \ {0}, W \in Nat \ {0} : R = Radix /\ W = ByteValues
  BY Sizes58, Sizes64
<1>2. PICK n \in Nat, k \in Nat :
          /\ n = Len(b) /\ k <= n /\ k = leadingZeros(b) /\ \A i \in 1..k : b[i] = 0
          /\ k < n => b[k + 1] # 0
  <2>1. PICK n \in Nat : n = Len(b)
    OBVIOUS
  <2>2. PICK k : k = leadingZeros(b)
    OBVIOUS
  <2>3. k \in 0..n /\ (\A i \in 1..k : b[i] = 0) /\ (k < n => b[k + 1] # 0)
    BY <2>1, <2>2, LeadingZerosAre
  <2>4. k \in Nat /\ k <= n
    BY <2>3
  <2> QED
    BY <2>1, <2>2, <2>3, <2>4
<1>3. LeadingZeros(b) = 1..k
  <2>1. k \in 0..Len(b)
    BY <1>2
  <2> QED
    BY <1>2, <2>1, ZerosCounted
<1>4. CASE k = n
  <2>1. bytesToBase58(b) = Ones(n)
    BY <1>2, <1>4 DEF bytesToBase58
  <2>2. /\ Ones(n) \in Seq(Nat) /\ Ones(n) \in Seq(Digit58) /\ Len(Ones(n)) = n
        /\ (\A i \in 1..n : Ones(n)[i] = 0) /\ ValueIn(R, Ones(n)) = 0 /\ ValueIn(W, Ones(n)) = 0
    BY OnesAreNothing
  <2>3. b = Ones(n)
    <3>1. b \in Seq(Nat)
      BY Sizes64, SeqWider
    <3> QED
      BY <1>2, <1>4, <2>2, <3>1, SeqEqual
  <2> QED
    BY <1>1, <2>1, <2>2, <2>3 DEF Spells58
<1>5. CASE k < n
  <2>1. PICK N \in Numerals : N = InRadix(b) /\ LowValue(R, N) = ValueIn(W, b)
    BY <1>1, InRadixHolds
  <2>2. PICK m \in Nat \ {0} : m = Len(N) /\ N \in Seq(Digit58) /\ (N = <<0>> \/ N[m] # 0)
    BY DEF Numerals, Numeral
  <2>3. ValueIn(W, b) # 0
    <3>1. SUFFICES ASSUME ValueIn(W, b) = 0 PROVE FALSE
      OBVIOUS
    <3>2. PICK z \in Seq(0..(W - 1)) : z = Ones(n) /\ Len(z) = n /\ ValueIn(W, z) = 0 /\ \A i \in 1..n : z[i] = 0
      <4>1. /\ Ones(n) \in Seq(Digit58) /\ Len(Ones(n)) = n
            /\ (\A i \in 1..n : Ones(n)[i] = 0) /\ ValueIn(W, Ones(n)) = 0
        BY OnesAreNothing
      <4>2. Digit58 \subseteq 0..(W - 1)
        BY <1>1, Sizes58 DEF Digit58
      <4>3. Ones(n) \in Seq(0..(W - 1))
        BY <4>1, <4>2, SeqWider
      <4> QED
        BY <4>1, <4>3
    <3>3. b \in Seq(0..(W - 1))
      BY <1>1, Sizes64
    <3>4. b = z
      BY <1>2, <3>1, <3>2, <3>3, ValuesTell
    <3>5. k + 1 \in 1..n
      BY <1>2, <1>5
    <3> QED
      BY <1>2, <1>5, <3>2, <3>4, <3>5
  <2>4. N[m] # 0
    <3>1. N # <<0>>
      <4>1. LowValue(R, <<0>>) = 0
        BY LowOfOne, 0 \in Nat
      <4> QED
        BY <2>1, <2>3, <4>1
    <3> QED
      BY <2>2, <3>1
  <2>5. PICK t \in Seq(Digit58) : t = Reverse(N) /\ Len(t) = m /\ t[1] = N[m]
    <3>1. /\ Reverse(N) \in Seq(Digit58) /\ Len(Reverse(N)) = Len(N)
          /\ \A i \in 1..Len(N) : Reverse(N)[i] = N[Len(N) + 1 - i]
      BY <2>2, ReverseSeq
    <3>2. 1 \in 1..m /\ m + 1 - 1 = m
      OBVIOUS
    <3> QED
      BY <2>2, <3>1, <3>2
  <2>6. PICK o \in Seq(Digit58) :
            o = Ones(k) /\ Len(o) = k /\ ValueIn(R, o) = 0 /\ \A i \in 1..k : o[i] = 0
    <3>1. k \in Nat
      OBVIOUS
    <3>2. /\ Ones(k) \in Seq(Digit58) /\ Len(Ones(k)) = k
          /\ (\A i \in 1..k : Ones(k)[i] = 0) /\ ValueIn(R, Ones(k)) = 0
      BY <3>1, OnesAreNothing
    <3> QED
      BY <3>2
  <2>7. PICK text : text = o \o t
    OBVIOUS
  <2>8. bytesToBase58(b) = text
    BY <1>2, <1>5, <2>1, <2>5, <2>6, <2>7 DEF bytesToBase58
  <2>9. /\ text \in Seq(Digit58) /\ Len(text) = k + m
        /\ \A i \in 1..k : text[i] = 0
        /\ text[k + 1] = t[1]
    <3>1. /\ o \o t \in Seq(Digit58) /\ Len(o \o t) = Len(o) + Len(t)
          /\ \A i \in 1..Len(o) : (o \o t)[i] = o[i]
          /\ \A i \in 1..Len(t) : (o \o t)[Len(o) + i] = t[i]
      BY JoinedParts
    <3>2. 1 \in 1..m
      OBVIOUS
    <3> QED
      BY <2>5, <2>6, <2>7, <3>1, <3>2
  <2>10. ValueIn(R, text) = ValueIn(W, b)
    <3>1. o \in Seq(Nat) /\ t \in Seq(Nat)
      BY Sizes58, SeqWider
    <3>2. ValueIn(R, o \o t) = ValueIn(R, o) * Power(R, Len(t)) + ValueIn(R, t)
      BY <3>1, ValueJoined
    <3>3. PICK P \in Nat, V \in Nat : P = Power(R, Len(t)) /\ V = ValueIn(R, t)
      <4>1. Power(R, Len(t)) \in Nat /\ ValueIn(R, t) \in Nat
        BY <2>5, <3>1, PowerPositive, ValueIsNatural
      <4> QED
        BY <4>1
    <3>4. 0 * P + V = V
      OBVIOUS
    <3>5. ValueIn(R, text) = V
      BY <2>6, <2>7, <3>2, <3>3, <3>4
    <3> QED
      BY <2>1, <2>5, <3>3, <3>5 DEF LowValue
  <2>11. LeadingZeros(text) = 1..k
    <3>1. k \in 0..Len(text)
      BY <2>9
    <3>2. text[k + 1] # 0
      BY <2>4, <2>5, <2>9
    <3> QED
      BY <2>9, <3>1, <3>2, ZerosCounted
  <2> QED
    BY <1>1, <1>3, <2>8, <2>9, <2>10, <2>11 DEF Spells58
<1>6. k = n \/ k < n
  BY <1>2
<1> QED
  BY <1>4, <1>5, <1>6

-----------------------------------------------------------------------------

\* Base58: from digits to the bytes of a key

KeyBytes == {b \in Seq(ByteValue) : Len(b) = KeyLength}
MostKeys == Power(ByteValues, KeyLength)

\* What a digit more comes to
Accepts(outcome, value) ==
    /\ Returned(outcome) <=> value < MostKeys
    /\ Returned(outcome) =>
          /\ outcome.value \in KeyBytes /\ outcome = Returns(outcome.value)
          /\ ValueIn(ByteValues, outcome.value) = value

CarryBack(g, first, b) ==
    g = [i \in 0..Len(b) |->
            IF i = 0 THEN first ELSE (g[i - 1] + b[Len(b) + 1 - i] * Radix) \div ByteValues]

LEMMA CarryBackSolved ==
    ASSUME NEW n \in Nat, NEW b \in Seq(Nat), Len(b) = n, NEW s \in Seq(Nat), s = Reverse(b),
           NEW first \in Nat
    PROVE  \A g : CarryBack(g, first, b) <=> Carry(g, first, n, s, Radix, ByteValues)
<1>1. \A i \in 1..n : s[i] = b[n + 1 - i]
  BY ReverseSeq
<1>2. \A i \in 0..n : i # 0 => i \in 1..n
  OBVIOUS
<1> SUFFICES ASSUME NEW g
             PROVE  CarryBack(g, first, b) <=> Carry(g, first, n, s, Radix, ByteValues)
  OBVIOUS
<1>3. [i \in 0..n |-> IF i = 0 THEN first ELSE (g[i - 1] + s[i] * Radix) \div ByteValues]
        = [i \in 0..n |-> IF i = 0 THEN first ELSE (g[i - 1] + b[n + 1 - i] * Radix) \div ByteValues]
  BY <1>1, <1>2
<1>4. CarryBack(g, first, b) <=>
        g = [i \in 0..n |-> IF i = 0 THEN first ELSE (g[i - 1] + b[n + 1 - i] * Radix) \div ByteValues]
  BY DEF CarryBack
<1>5. Carry(g, first, n, s, Radix, ByteValues) <=>
        g = [i \in 0..n |-> IF i = 0 THEN first ELSE (g[i - 1] + s[i] * Radix) \div ByteValues]
  BY DEF Carry
<1> QED
  BY <1>3, <1>4, <1>5, Zenon

LEMMA MultipliedHolds ==
    ASSUME NEW b \in KeyBytes, NEW d \in Digit58
    PROVE  Accepts(Multiplied(b, d), ValueIn(ByteValues, b) * Radix + d)
<1>1. PICK R \in Nat \ {0}, W \in Nat \ {0}, n \in Nat \ {0} :
          R = Radix /\ W = ByteValues /\ n = KeyLength /\ ByteValue = 0..(W - 1)
  BY Sizes58, Sizes64
<1>2. b \in Seq(ByteValue) /\ Len(b) = n /\ b \in Seq(Nat) /\ d \in Nat /\ d \in 0..(Radix - 1)
  <2>1. b \in Seq(ByteValue) /\ Len(b) = n
    BY <1>1 DEF KeyBytes
  <2> QED
    BY <2>1, Sizes58, Sizes64, SeqWider DEF Digit58
<1>3. PICK s \in Seq(Nat) : s = Reverse(b) /\ Len(s) = n /\ \A i \in 1..n : s[i] = b[n + 1 - i]
  <2>1. Reverse(b) \in Seq(Nat) /\ Len(Reverse(b)) = Len(b)
        /\ \A i \in 1..Len(b) : Reverse(b)[i] = b[Len(b) + 1 - i]
    BY <1>2, ReverseSeq
  <2> QED
    BY <1>2, <2>1
<1>4. \A i \in 1..n : s[i] \in Nat
  BY <1>3
<1> DEFINE c == CHOOSE g : CarryBack(g, d, b)
<1>5. CarryBack(c, d, b)
  <2>1. PICK h : Carry(h, d, n, s, R, W)
    BY <1>2, <1>4, CarryExists
  <2>2. CarryBack(h, d, b)
    BY <1>1, <1>2, <1>3, <2>1, CarryBackSolved
  <2> QED
    BY <2>2
<1>6. Multiplied(b, d) =
          IF c[n] > 0 THEN Throws("Base58 value exceeds 32 bytes.")
          ELSE Returns([i \in 1..n |-> (c[n - i] + b[i] * R) % W])
  <2>1. Multiplied(b, d) =
            IF d \notin 0..(Radix - 1) THEN Throws("Invalid base58 character.")
            ELSE IF c[Len(b)] > 0 THEN Throws("Base58 value exceeds 32 bytes.")
            ELSE Returns([i \in 1..Len(b) |-> (c[Len(b) - i] + b[i] * Radix) % ByteValues])
    BY DEF Multiplied, CarryBack
  <2> HIDE DEF c
  <2> QED
    BY <1>1, <1>2, <2>1
<1> HIDE DEF c
<1>7. c \in [0..n -> Nat] /\ Carries(c, d, n, s, R, W)
  <2>1. Carry(c, d, n, s, R, W)
    BY <1>1, <1>2, <1>3, <1>5, CarryBackSolved
  <2> QED
    BY <1>2, <1>4, <2>1, CarrySolved
<1>8. PICK t : t = [i \in 1..n |-> (c[i - 1] + s[i] * R) % W]
  OBVIOUS
<1>9. t \in Seq(ByteValue) /\ Len(t) = n /\ \A i \in 1..n : t[i] = (c[i - 1] + s[i] * R) % W
  <2>1. ASSUME NEW i \in 1..n PROVE (c[i - 1] + s[i] * R) % W \in 0..(W - 1)
    <3>1. PICK a \in Nat, e \in Nat : a = c[i - 1] /\ e = s[i]
      <4>1. i - 1 \in 0..n /\ s[i] \in Nat
        BY <1>4
      <4>2. c[i - 1] \in Nat
        BY <1>7, <4>1
      <4> QED
        BY <4>1, <4>2
    <3> QED
      BY <3>1, CarryStep
  <2> QED
    BY <1>1, <1>8, <2>1
<1>10. t \in Seq(Nat)
  BY <1>9, Sizes64, SeqWider
<1>11. PICK u \in Seq(ByteValue) : u = Reverse(t) /\ Len(u) = n /\ \A i \in 1..n : u[i] = t[n + 1 - i]
  <2>1. Reverse(t) \in Seq(ByteValue) /\ Len(Reverse(t)) = Len(t)
        /\ \A i \in 1..Len(t) : Reverse(t)[i] = t[Len(t) + 1 - i]
    BY <1>9, ReverseSeq
  <2> QED
    BY <1>9, <2>1
<1>12. u = [i \in 1..n |-> (c[n - i] + b[i] * R) % W]
  <2>1. ASSUME NEW i \in 1..n PROVE u[i] = (c[n - i] + b[i] * R) % W
    <3>1. n + 1 - i \in 1..n /\ (n + 1 - i) - 1 = n - i /\ n + 1 - (n + 1 - i) = i
      OBVIOUS
    <3>2. u[i] = (c[(n + 1 - i) - 1] + s[n + 1 - i] * R) % W
      BY <1>9, <1>11, <3>1
    <3>3. s[n + 1 - i] = b[i]
      BY <1>3, <3>1
    <3> QED
      BY <3>1, <3>2, <3>3
  <2> QED
    BY <1>11, <2>1
<1>13. ValueIn(W, u) + c[n] * Power(W, n) = ValueIn(W, b) * R + d
  <2>1. CarriesTo(t, c, d, n, s, R, W)
    BY <1>7, <1>9 DEF CarriesTo
  <2>2. CarryIsKept(t, c, d, n, s, R, W)
    BY <1>2, <1>3, <1>9, <1>10, <2>1, CarryKeepsValue
  <2>3. LowValue(W, t) = ValueIn(W, u)
    BY <1>11 DEF LowValue
  <2>4. LowValue(W, s) = ValueIn(W, b)
    <3>1. Reverse(s) = b
      BY <1>2, <1>3, ReverseTwice
    <3> QED
      BY <3>1 DEF LowValue
  <2> QED
    BY <2>2, <2>3, <2>4, Zenon DEF CarryIsKept
<1>14. PICK V \in Nat, P \in Nat \ {0}, k \in Nat :
           V = ValueIn(W, u) /\ P = Power(W, n) /\ k = c[n] /\ V < P
  <2>1. ValueIn(W, u) < Power(W, n)
    <3>1. ValueIn(W, u) < Power(W, Len(u))
      BY <1>1, <1>11, ValueBelow
    <3> QED
      BY <1>11, <3>1
  <2>2. ValueIn(W, u) \in Nat
    <3>1. u \in Seq(Nat)
      BY <1>11, Sizes64, SeqWider
    <3> QED
      BY <3>1, ValueIsNatural
  <2>3. Power(W, n) \in Nat \ {0} /\ c[n] \in Nat
    <3>1. n \in 0..n
      OBVIOUS
    <3> QED
      BY <1>7, <3>1, PowerPositive
  <2> QED
    BY <2>1, <2>2, <2>3
<1>15. PICK v : v = ValueIn(ByteValues, b) * Radix + d
  OBVIOUS
<1>16. v = V + k * P /\ P = MostKeys
  BY <1>1, <1>13, <1>14, <1>15 DEF MostKeys
<1>17. CASE k = 0
  <2>1. 0 * P = 0
    OBVIOUS
  <2>2. v = V /\ v < MostKeys
    BY <1>14, <1>16, <1>17, <2>1
  <2>3. Multiplied(b, d) = Returns(u)
    BY <1>6, <1>12, <1>14, <1>17
  <2>4. Returned(Returns(u)) /\ Returns(u).value = u
    BY DEF Returned, Returns
  <2>5. u \in KeyBytes
    BY <1>1, <1>11 DEF KeyBytes
  <2> QED
    BY <1>1, <1>14, <1>15, <2>2, <2>3, <2>4, <2>5 DEF Accepts
<1>18. CASE k > 0
  <2>1. ~(v < MostKeys)
    <3>1. PICK j \in Nat : k = j + 1
      <4>1. k - 1 \in Nat /\ k = (k - 1) + 1
        BY <1>18
      <4> QED
        BY <4>1
    <3>2. (j + 1) * P = j * P + P
      OBVIOUS
    <3>3. PICK w \in Nat : w = j * P
      OBVIOUS
    <3>4. v = V + (w + P)
      BY <1>16, <3>1, <3>2, <3>3
    <3> QED
      BY <1>16, <3>4
  <2>2. Multiplied(b, d) = Throws("Base58 value exceeds 32 bytes.")
    BY <1>6, <1>14, <1>18
  <2>3. ~Returned(Throws("Base58 value exceeds 32 bytes."))
    BY DEF Returned, Throws
  <2> QED
    BY <1>15, <2>1, <2>2, <2>3 DEF Accepts
<1>19. k = 0 \/ k > 0
  OBVIOUS
<1> QED
  BY <1>17, <1>18, <1>19

NoDigit58 == Throws("Invalid base58 character.")
TooMuch58 == Throws("Base58 value exceeds 32 bytes.")
KeyOutcomes == {Returns(b) : b \in KeyBytes} \union {NoDigit58, TooMuch58}

LEMMA OutcomesTold ==
    /\ ~Returned(NoDigit58) /\ ~Returned(TooMuch58)
    /\ \A b : Returned(Returns(b)) /\ Returns(b).value = b
BY DEF Returned, Returns, Throws, NoDigit58, TooMuch58

LEMMA MultipliedIs ==
    ASSUME NEW b, NEW d
    PROVE  Multiplied(b, d) \in {NoDigit58, TooMuch58} \/ \E x : Multiplied(b, d) = Returns(x)
<1> DEFINE c == CHOOSE g : CarryBack(g, d, b)
           x == [i \in 1..Len(b) |-> (c[Len(b) - i] + b[i] * Radix) % ByteValues]
<1>1. Multiplied(b, d) = IF d \notin 0..(Radix - 1) THEN NoDigit58
                         ELSE IF c[Len(b)] > 0 THEN TooMuch58 ELSE Returns(x)
  BY DEF Multiplied, CarryBack, NoDigit58, TooMuch58
<1> HIDE DEF c, x
<1> QED
  BY <1>1

LEMMA MultipliedInKeys ==
    ASSUME NEW b \in KeyBytes, NEW d \in Text58
    PROVE  Multiplied(b, d) \in KeyOutcomes /\ (d \notin Digit58 => ~Returned(Multiplied(b, d)))
<1>1. CASE d \in Digit58
  <2>1. Accepts(Multiplied(b, d), ValueIn(ByteValues, b) * Radix + d)
    BY <1>1, MultipliedHolds
  <2>2. PICK o : o = Multiplied(b, d)
    OBVIOUS
  <2>3. Returned(o) => o.value \in KeyBytes /\ o = Returns(o.value)
    BY <2>1, <2>2 DEF Accepts
  <2>4. o \in {NoDigit58, TooMuch58} \/ \E x : o = Returns(x)
    BY <2>2, MultipliedIs
  <2>5. o \in KeyOutcomes
    BY <2>3, <2>4, OutcomesTold DEF KeyOutcomes
  <2> QED
    BY <1>1, <2>2, <2>5
<1>2. CASE d \notin Digit58
  <2>1. Multiplied(b, d) = NoDigit58
    BY <1>2 DEF Multiplied, Digit58, NoDigit58
  <2> QED
    BY <2>1, OutcomesTold DEF KeyOutcomes
<1> QED
  BY <1>1, <1>2

\* The outcome along the text
NoKey == [j \in 1..KeyLength |-> 0]
NextKey(o, c) == IF Returned(o) THEN Multiplied(o.value, c) ELSE o
KeyAlong(g, text) ==
    g = [i \in 0..Len(text) |-> IF i = 0 THEN Returns(NoKey) ELSE NextKey(g[i - 1], text[i])]
Keys(g, text) ==
    /\ g[0] = Returns(NoKey)
    /\ \A i \in 1..Len(text) : g[i] = NextKey(g[i - 1], text[i])

LEMMA NextKeyInKeys ==
    ASSUME NEW o \in KeyOutcomes, NEW c \in Text58
    PROVE  NextKey(o, c) \in KeyOutcomes
<1>1. CASE Returned(o)
  <2>1. PICK b \in KeyBytes : o = Returns(b)
    BY <1>1, OutcomesTold DEF KeyOutcomes
  <2>2. NextKey(o, c) = Multiplied(b, c)
    BY <1>1, <2>1, OutcomesTold DEF NextKey
  <2> QED
    BY <2>2, MultipliedInKeys
<1>2. CASE ~Returned(o)
  BY <1>2 DEF NextKey
<1> QED
  BY <1>1, <1>2

LEMMA NoKeyIsNothing == NoKey \in KeyBytes /\ ValueIn(ByteValues, NoKey) = 0
<1>1. NoKey = Ones(KeyLength)
  BY DEF NoKey, Ones
<1>2. PICK n \in Nat, W \in Nat \ {0} : n = KeyLength /\ W = ByteValues /\ ByteValue = 0..(W - 1)
  BY Sizes58, Sizes64
<1>3. ValueIn(W, Ones(n)) = 0 /\ Ones(n) \in Seq(Digit58) /\ Len(Ones(n)) = n
  BY OnesAreNothing
<1>4. Digit58 \subseteq ByteValue
  BY <1>2, Sizes58 DEF Digit58
<1>5. Ones(n) \in Seq(ByteValue)
  BY <1>3, <1>4, SeqWider
<1> QED
  BY <1>1, <1>2, <1>3, <1>5 DEF KeyBytes

LEMMA KeysExist ==
    ASSUME NEW text \in Seq(Text58)
    PROVE  \E g : Keys(g, text) /\ base58ToBytes(text) = g[Len(text)]
<1>1. PICK n \in Nat : n = Len(text) /\ \A i \in 1..n : text[i] \in Text58
  OBVIOUS
<1>2. PICK A, base : A = KeyOutcomes /\ base = Returns(NoKey)
  OBVIOUS
<1>3. base \in A
  BY <1>2, NoKeyIsNothing DEF KeyOutcomes
<1>4. PICK step : step = [p \in (1..n) \X A |-> NextKey(p[2], text[p[1]])]
  OBVIOUS
<1>5. StepTo(n, A, step)
  <2>1. ASSUME NEW p \in (1..n) \X A PROVE NextKey(p[2], text[p[1]]) \in A
    <3>1. p[2] \in KeyOutcomes /\ text[p[1]] \in Text58
      BY <1>1, <1>2
    <3> QED
      BY <1>2, <3>1, NextKeyInKeys
  <2> QED
    BY <1>4, <2>1 DEF StepTo
<1>6. PICK h : RecursesTo(h, n, A, base, step)
  BY <1>3, <1>5, RecursionTo
<1>7. KeyAlong(h, text)
  <2>1. h = [i \in 0..n |-> h[i]] /\ h[0] = base
    BY <1>6 DEF RecursesTo
  <2>2. ASSUME NEW i \in 1..n PROVE h[i] = NextKey(h[i - 1], text[i])
    <3>1. h[i - 1] \in A
      BY <1>6 DEF RecursesTo
    <3>2. step[<<i, h[i - 1]>>] = NextKey(h[i - 1], text[i])
      BY <1>4, <3>1
    <3> QED
      BY <1>6, <3>2 DEF RecursesTo
  <2>3. ASSUME NEW i \in 0..n PROVE h[i] = IF i = 0 THEN Returns(NoKey) ELSE NextKey(h[i - 1], text[i])
    <3>1. CASE i = 0
      BY <1>2, <2>1, <3>1
    <3>2. CASE i # 0
      <4>1. i \in 1..n
        BY <3>2
      <4> QED
        BY <2>2, <3>2, <4>1, Zenon
    <3> QED
      BY <3>1, <3>2
  <2> QED
    BY <1>1, <2>1, <2>3 DEF KeyAlong
<1> DEFINE after == CHOOSE g : KeyAlong(g, text)
<1>8. KeyAlong(after, text)
  BY <1>7
<1>9. base58ToBytes(text) = after[n]
  BY <1>1 DEF base58ToBytes, KeyAlong, NextKey, NoKey, Then
<1> HIDE DEF after
<1>10. Keys(after, text)
  <2>1. \A i \in 0..n : after[i] = IF i = 0 THEN Returns(NoKey) ELSE NextKey(after[i - 1], text[i])
    BY <1>1, <1>8, Zenon DEF KeyAlong
  <2>2. 0 \in 0..n /\ \A i \in 1..n : i \in 0..n /\ i # 0
    OBVIOUS
  <2>3. after[0] = Returns(NoKey)
    BY <2>1, <2>2, Zenon
  <2>4. ASSUME NEW i \in 1..n PROVE after[i] = NextKey(after[i - 1], text[i])
    BY <2>1, <2>2, Zenon
  <2> QED
    BY <1>1, <2>3, <2>4 DEF Keys
<1> QED
  BY <1>1, <1>9, <1>10

LEMMA DigitsAccepted ==
    ASSUME NEW text \in Seq(Digit58)
    PROVE  Accepts(base58ToBytes(text), ValueIn(Radix, text))
<1>1. PICK R \in Nat \ {0}, M \in Nat \ {0} : R = Radix /\ M = MostKeys
  <2>1. MostKeys \in Nat \ {0}
    BY Sizes58, Sizes64, PowerPositive DEF MostKeys
  <2> QED
    BY <2>1, Sizes58
<1>2. PICK n \in Nat : n = Len(text) /\ \A i \in 1..n : text[i] \in Digit58
  OBVIOUS
<1>3. text \in Seq(Text58) /\ text \in Seq(Nat)
  BY Sizes58, SeqWider DEF Text58
<1>4. PICK after : Keys(after, text) /\ base58ToBytes(text) = after[n]
  BY <1>2, <1>3, KeysExist
<1>5. PICK v \in [0..n -> Nat] : Values(v, R, text) /\ ValueIn(R, text) = v[n]
  BY <1>2, <1>3, ValueSteps
<1> DEFINE S == {i \in 0..n : Accepts(after[i], v[i])}
<1>6. 0 \in S
  <2>1. after[0] = Returns(NoKey) /\ v[0] = 0
    BY <1>4, <1>5 DEF Keys, Values
  <2>2. Accepts(Returns(NoKey), 0)
    <3>1. 0 < MostKeys
      BY <1>1
    <3> QED
      BY <3>1, NoKeyIsNothing, OutcomesTold DEF Accepts
  <2> QED
    BY <2>1, <2>2
<1>7. ASSUME NEW i \in 0..(n - 1), i \in S PROVE i + 1 \in S
  <2>1. i + 1 \in 1..n /\ (i + 1) - 1 = i /\ i + 1 \in 0..n /\ i \in 0..n
    OBVIOUS
  <2>2. after[i + 1] = NextKey(after[i], text[i + 1])
    BY <1>2, <1>4, <2>1 DEF Keys
  <2>3. PICK d \in Digit58, a \in Nat, o \in {after[i]} : d = text[i + 1] /\ a = v[i] /\ o = after[i] /\ d \in Nat
    <3>1. v[i] \in Nat /\ text[i + 1] \in Digit58
      BY <1>2, <2>1
    <3> QED
      BY <3>1, Sizes58
  <2>4. Accepts(o, a)
    BY <1>7, <2>3
  <2>5. PICK w \in Nat : w = a * R + d /\ v[i + 1] = w
    <3>1. v[i + 1] = v[i] * R + text[i + 1]
      BY <1>2, <1>5, <2>1 DEF Values
    <3>2. a * R + d \in Nat
      BY <2>3, DigitPushed
    <3> QED
      BY <2>3, <3>1, <3>2
  <2>6. Accepts(NextKey(o, d), w)
    <3>1. CASE a < M
      <4>1. Returned(o) /\ o.value \in KeyBytes /\ ValueIn(ByteValues, o.value) = a
        BY <1>1, <2>4, <3>1 DEF Accepts
      <4>2. NextKey(o, d) = Multiplied(o.value, d)
        BY <4>1 DEF NextKey
      <4>3. PICK b \in KeyBytes : b = o.value
        BY <4>1
      <4>4. Accepts(Multiplied(b, d), ValueIn(ByteValues, b) * Radix + d)
        BY MultipliedHolds
      <4> QED
        BY <1>1, <2>5, <4>1, <4>2, <4>3, <4>4, Zenon
    <3>2. CASE ~(a < M)
      <4>1. ~Returned(o)
        BY <1>1, <2>4, <3>2 DEF Accepts
      <4>2. ~(w < M)
        <5>1. PICK k \in Nat : R = k + 1
          <6>1. R - 1 \in Nat /\ R = (R - 1) + 1
            OBVIOUS
          <6> QED
            BY <6>1
        <5>2. a * (k + 1) = a * k + a
          OBVIOUS
        <5>3. PICK y \in Nat : y = a * k
          OBVIOUS
        <5>4. w = y + a + d
          BY <2>5, <5>1, <5>2, <5>3
        <5> QED
          BY <2>3, <3>2, <5>4, SMTT(30)
      <4>3. NextKey(o, d) = o
        BY <4>1 DEF NextKey
      <4> QED
        BY <1>1, <4>1, <4>2, <4>3 DEF Accepts
    <3> QED
      BY <3>1, <3>2
  <2>7. Accepts(after[i + 1], v[i + 1])
    BY <2>2, <2>3, <2>5, <2>6
  <2> QED
    BY <2>1, <2>7
<1>8. 0..n \subseteq S
  <2> HIDE DEF S
  <2> QED
    BY <1>6, <1>7, InductionUpTo
<1>9. n \in S
  BY <1>8
<1> QED
  BY <1>1, <1>4, <1>5, <1>9

LEMMA OthersRefused ==
    ASSUME NEW text \in Seq(Text58), NEW j \in 1..Len(text), text[j] = NonDigit
    PROVE  ~Returned(base58ToBytes(text))
<1>1. PICK n \in Nat : n = Len(text) /\ j \in 1..n
  OBVIOUS
<1>2. PICK after : Keys(after, text) /\ base58ToBytes(text) = after[n]
  BY <1>1, KeysExist
<1>3. NonDigit \notin Digit58
  BY CharactersApart, Sizes58
<1> DEFINE S == {i \in 0..n : i >= j => ~Returned(after[i])}
<1>4. 0 \in S
  BY <1>1
<1>5. ASSUME NEW i \in 0..(n - 1), i \in S PROVE i + 1 \in S
  <2>1. i + 1 \in 1..n /\ (i + 1) - 1 = i /\ i + 1 \in 0..n
    OBVIOUS
  <2>2. after[i + 1] = NextKey(after[i], text[i + 1])
    BY <1>1, <1>2, <2>1 DEF Keys
  <2>3. CASE i >= j
    <3>1. ~Returned(after[i])
      BY <1>5, <2>3
    <3>2. after[i + 1] = after[i]
      BY <2>2, <3>1 DEF NextKey
    <3> QED
      BY <2>1, <3>1, <3>2
  <2>4. CASE i + 1 = j
    <3>1. CASE Returned(after[i])
      <4>1. after[i + 1] = Multiplied(after[i].value, NonDigit)
        BY <2>2, <2>4, <3>1 DEF NextKey
      <4>2. Multiplied(after[i].value, NonDigit) = NoDigit58
        BY <1>3 DEF Multiplied, Digit58, NoDigit58
      <4> QED
        BY <2>1, <4>1, <4>2, OutcomesTold
    <3>2. CASE ~Returned(after[i])
      <4>1. after[i + 1] = after[i]
        BY <2>2, <3>2 DEF NextKey
      <4> QED
        BY <2>1, <3>2, <4>1
    <3> QED
      BY <3>1, <3>2
  <2>5. CASE i + 1 < j
    BY <2>1, <2>5
  <2>6. i >= j \/ i + 1 = j \/ i + 1 < j
    BY <1>1
  <2> QED
    BY <2>3, <2>4, <2>5, <2>6
<1>6. 0..n \subseteq S
  <2> HIDE DEF S
  <2> QED
    BY <1>4, <1>5, InductionUpTo
<1>7. n \in S /\ n >= j
  BY <1>1, <1>6
<1> QED
  BY <1>2, <1>7

\* A text is decoded if and only if it is of the alphabet and its number is one
\* of a key, which is the key then.
Base58Text(text, outcome) ==
    LET value == ValueIn(Radix, Only(0..(Radix - 1), text))
    IN  /\ Returned(outcome) <=>
              NonDigit \notin Range(text) /\ value < Power(ByteValues, KeyLength)
        /\ Returned(outcome) =>
              Len(outcome.value) = KeyLength /\ ValueIn(ByteValues, outcome.value) = value

LEMMA Base58IsRead ==
    ASSUME NEW text \in Seq(Text58) PROVE Base58Text(text, base58ToBytes(text))
<1>1. PICK o : o = base58ToBytes(text)
  OBVIOUS
<1>2. CASE NonDigit \notin Range(text)
  <2>1. Range(text) \subseteq Text58
    BY RangeOfSeq
  <2>2. Range(text) \subseteq Digit58
    BY <1>2, <2>1 DEF Text58
  <2>3. text \in Seq(Range(text))
    BY SeqOfRange
  <2>4. text \in Seq(Digit58)
    BY <2>2, <2>3, SeqWider
  <2>5. Only(Digit58, text) = text
    BY <2>4, OnlyAll
  <2>6. PICK value : value = ValueIn(Radix, text)
    OBVIOUS
  <2>7. Accepts(o, value)
    BY <1>1, <2>4, <2>6, DigitsAccepted
  <2>8. ValueIn(Radix, Only(0..(Radix - 1), text)) = value
    BY <2>5, <2>6 DEF Digit58
  <2>9. Returned(o) <=> value < MostKeys
    BY <2>7 DEF Accepts
  <2>10. Returned(o) => Len(o.value) = KeyLength /\ ValueIn(ByteValues, o.value) = value
    BY <2>7 DEF Accepts, KeyBytes
  <2> QED
    BY <1>1, <1>2, <2>8, <2>9, <2>10, Zenon DEF Base58Text, MostKeys
<1>3. CASE NonDigit \in Range(text)
  <2>1. PICK j \in 1..Len(text) : text[j] = NonDigit
    BY <1>3 DEF Range
  <2>2. ~Returned(o)
    BY <1>1, <2>1, OthersRefused
  <2> QED
    BY <1>1, <1>3, <2>2, Zenon DEF Base58Text
<1> QED
  BY <1>2, <1>3

LEMMA Base58Restored ==
    ASSUME NEW b \in Seq(ByteValue), Len(b) = KeyLength
    PROVE  base58ToBytes(bytesToBase58(b)) = Returns(b)
<1>1. PICK text : text = bytesToBase58(b)
  OBVIOUS
<1>2. PICK W \in Nat \ {0} : W = ByteValues /\ ByteValue = 0..(W - 1)
  BY Sizes64
<1>3. PICK value : value = ValueIn(ByteValues, b)
  OBVIOUS
<1>4. text \in Seq(Digit58) /\ ValueIn(Radix, text) = value
  BY <1>1, <1>3, Base58Spelled DEF Spells58
<1>5. PICK o : o = base58ToBytes(text)
  OBVIOUS
<1>6. Accepts(o, value)
  BY <1>4, <1>5, DigitsAccepted
<1>7. b \in Seq(0..(W - 1))
  BY <1>2
<1>8. ValueIn(W, b) < Power(W, Len(b))
  BY <1>7, ValueBelow
<1>9. value < MostKeys
  BY <1>2, <1>3, <1>8 DEF MostKeys
<1>10. o.value \in KeyBytes /\ o = Returns(o.value) /\ ValueIn(ByteValues, o.value) = value
  BY <1>6, <1>9 DEF Accepts
<1>11. PICK c : c = o.value
  OBVIOUS
<1>12. c \in Seq(0..(W - 1)) /\ Len(c) = Len(b) /\ ValueIn(W, c) = ValueIn(W, b)
  BY <1>2, <1>3, <1>10, <1>11 DEF KeyBytes
<1>13. c = b
  BY <1>7, <1>12, ValuesTell
<1> QED
  BY <1>1, <1>5, <1>10, <1>11, <1>13

=============================================================================
