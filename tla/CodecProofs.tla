----------------------------- MODULE CodecProofs -----------------------------
(* What the codec's operators promise for every spreading factor and code. *)
EXTENDS Codec, CodeBlocks, Basics, FiniteSetTheorems, TLAPS

(* Every row is met by the diagonal that starts at any column.             *)
LEMMA DiagonalMeets ==
  ASSUME NEW S \in Nat, S > 0, NEW j \in Nat, NEW r \in 0..(S - 1)
  PROVE  \E k \in 0..(S - 1) : (j + k) % S = r
<1> DEFINE q == j \div S
           d == j % S
<1>1. q \in Nat /\ d \in 0..(S - 1) /\ j = q * S + d
  BY DivMod
<1> HIDE DEF q, d
<1>2. CASE d <= r
  <2>1. r - d \in 0..(S - 1)
    BY <1>1, <1>2
  <2>2. j + (r - d) = q * S + r
    BY <1>1, <1>2
  <2>3. (j + (r - d)) % S = r
    BY <1>1, <2>2, RemainderOf
  <2> QED  BY <2>1, <2>3
<1>3. CASE d > r
  <2>1. S + r - d \in 0..(S - 1)
    BY <1>1, <1>3
  <2>2. j + (S + r - d) = (q + 1) * S + r
    <3>1. (q + 1) * S = q * S + S
      BY <1>1
    <3> QED  BY <1>1, <3>1
  <2>3. (j + (S + r - d)) % S = r
    BY <1>1, <2>2, RemainderOf
  <2> QED  BY <2>1, <2>3
<1> QED  BY <1>1, <1>2, <1>3

(* deinterleave undoes Interleave for every number of rows and every code  *)
(* length, so a block read with the SF and CR it was written with is whole.*)
THEOREM DeinterleaveInverts ==
  ASSUME NEW rows \in Nat, rows > 0, NEW n \in Nat,
         NEW words \in [0..(rows - 1) -> SUBSET (0..(n - 1))]
  PROVE  Deinterleave(Interleave(words, rows, n), rows, n) = words
<1> DEFINE sym == Interleave(words, rows, n)
           row(r) == {j \in 0..(n - 1) : \E k \in sym[j] : k < rows /\ (j + k) % rows = r}
<1>1. ASSUME NEW j \in 0..(n - 1)
      PROVE  sym[j] = {k \in 0..(rows - 1) : j \in words[(k + j) % rows]}
  BY DEF Interleave
<1> HIDE DEF sym
<1>2. ASSUME NEW r \in 0..(rows - 1)
      PROVE  row(r) = words[r]
  <2>1. ASSUME NEW j \in row(r)
        PROVE  j \in words[r]
    <3>1. PICK k \in sym[j] : k < rows /\ (j + k) % rows = r
      OBVIOUS
    <3>2. k \in 0..(rows - 1) /\ j \in words[(k + j) % rows]
      BY <1>1
    <3>3. k + j = j + k
      BY <3>2
    <3> QED  BY <3>1, <3>2, <3>3
  <2>2. ASSUME NEW j \in words[r]
        PROVE  j \in row(r)
    <3>1. j \in 0..(n - 1) /\ j \in Nat
      OBVIOUS
    <3>2. PICK k \in 0..(rows - 1) : (j + k) % rows = r
      BY <3>1, DiagonalMeets
    <3>3. k + j = j + k
      BY <3>1
    <3>4. k \in sym[j]
      BY <1>1, <3>1, <3>2, <3>3
    <3>5. k < rows
      BY <3>2
    <3> QED  BY <3>1, <3>2, <3>4, <3>5
  <2> QED  BY <2>1, <2>2
<1>3. Deinterleave(sym, rows, n) = [r \in 0..(rows - 1) |-> row(r)]
  BY DEF Deinterleave
<1> QED  BY <1>2, <1>3 DEF sym
-----------------------------------------------------------------------------
(* A finite set's parity is 0 or 1, and one more element changes it.       *)
LEMMA ParityFlips ==
  ASSUME NEW S, IsFiniteSet(S), NEW e, e \notin S
  PROVE  /\ Parity(S) \in {0, 1}
         /\ Parity(S \union {e}) = 1 - Parity(S)
<1>1. Cardinality(S) \in Nat
  BY FS_CardinalityType
<1>2. Cardinality(S \union {e}) = Cardinality(S) + 1
  BY FS_AddElement
<1>3. ASSUME NEW c \in Nat PROVE c % 2 \in {0, 1} /\ (c + 1) % 2 = 1 - (c % 2)
  BY SMTT(30)
<1> QED  BY <1>1, <1>2, <1>3 DEF Parity

LEMMA ParityEmpty == Parity({}) = 0
BY FS_EmptySet DEF Parity

(* The parity of the part of x from bit b on changes at b just if x has b. *)
LEMMA ParityFrom ==
  ASSUME NEW n \in Nat, NEW x \in SUBSET (0..(n - 1)), NEW b \in Nat
  PROVE  LET p(c) == Parity(x \intersect c..(c + n))
         IN  /\ p(b) \in {0, 1} /\ p(b + 1) \in {0, 1}
             /\ b \in x <=> p(b) # p(b + 1)
<1> DEFINE low  == x \intersect b..(b + n)
           high == x \intersect (b + 1)..(b + 1 + n)
<1>1. IsFiniteSet(low) /\ IsFiniteSet(high)
  <2>1. IsFiniteSet(0..(n - 1))
    BY FS_Interval
  <2>2. low \in SUBSET (0..(n - 1)) /\ high \in SUBSET (0..(n - 1))
    OBVIOUS
  <2> QED  BY <2>1, <2>2, FS_Subset
<1>2. CASE b \in x
  <2>1. b \notin high /\ low = high \union {b}
    BY <1>2
  <2> QED  BY <1>1, <1>2, <2>1, ParityFlips
<1>3. CASE b \notin x
  <2>1. low = high
    BY <1>3
  <2>2. Parity(low) \in {0, 1}
    BY <1>1, FS_CardinalityType, ParityFlips DEF Parity
  <2> QED  BY <1>3, <2>1, <2>2
<1> QED  BY <1>2, <1>3

(* Two neighbouring bits of a word are odd if they differ.                 *)
LEMMA PairParity ==
  ASSUME NEW y, NEW b \in Nat
  PROVE  Parity(y \intersect {b, b + 1}) = 1 <=> ~(b \in y <=> b + 1 \in y)
<1>1. Parity({b}) = 1 /\ Parity({b + 1}) = 1 /\ Parity({b, b + 1}) = 0
  <2>1. IsFiniteSet({}) /\ IsFiniteSet({b})
    BY FS_EmptySet, FS_Singleton
  <2>2. ASSUME NEW e PROVE Parity({e}) = 1
    <3>1. {e} = {} \union {e}
      OBVIOUS
    <3> QED  BY <3>1, <2>1, ParityFlips, ParityEmpty
  <2>3. {b, b + 1} = {b} \union {b + 1} /\ b + 1 \notin {b}
    OBVIOUS
  <2>4. Parity({b} \union {b + 1}) = 1 - Parity({b})
    BY <2>1, <2>3, ParityFlips
  <2>5. Parity({b, b + 1}) = 1 - Parity({b})
    BY <2>3, <2>4
  <2>6. Parity({b}) = 1 /\ Parity({b + 1}) = 1
    BY <2>2
  <2> QED  BY <2>5, <2>6
<1>2. CASE b \in y /\ b + 1 \in y
  <2>1. y \intersect {b, b + 1} = {b, b + 1}
    BY <1>2
  <2> QED  BY <1>1, <1>2, <2>1
<1>3. CASE b \in y /\ b + 1 \notin y
  <2>1. y \intersect {b, b + 1} = {b}
    BY <1>3
  <2> QED  BY <1>1, <1>3, <2>1
<1>4. CASE b \notin y /\ b + 1 \in y
  <2>1. y \intersect {b, b + 1} = {b + 1}
    BY <1>4
  <2> QED  BY <1>1, <1>4, <2>1
<1>5. CASE b \notin y /\ b + 1 \notin y
  <2>1. y \intersect {b, b + 1} = {}
    BY <1>5
  <2>2. Parity(y \intersect {b, b + 1}) # 1
    <3>1. Parity(y \intersect {b, b + 1}) = 0
      BY <2>1, ParityEmpty, Zenon
    <3> QED  BY <3>1
  <2> QED  BY <1>5, <2>2, Zenon
<1> QED  BY <1>2, <1>3, <1>4, <1>5

(* grayEncode in the receiver undoes GrayDecode in the transmitter for     *)
(* every symbol of up to 16 bits.                                          *)
THEOREM GrayInverts ==
  ASSUME NEW n \in 0..16, NEW x \in SUBSET (0..(n - 1))
  PROVE  GrayEncode(GrayDecode(x, n), n) = x
<1> DEFINE y == GrayDecode(x, n)
           p(c) == Parity(x \intersect c..(c + n))
<1>1. ASSUME NEW b \in 0..(n - 1)
      PROVE  Parity(y \intersect {b, b + 1}) = 1 <=> b \in x
  <2>1. b \in y <=> p(b) = 1
    BY DEF GrayDecode
  <2>2. b + 1 \in y <=> p(b + 1) = 1
    <3>1. CASE b + 1 \in 0..15
      BY <3>1 DEF GrayDecode
    <3>2. CASE b + 1 \notin 0..15
      <4>1. x \intersect (b + 1)..(b + 1 + n) = {}
        BY <3>2
      <4>2. p(b + 1) = 0
        BY <4>1, ParityEmpty
      <4>3. b + 1 \notin y
        BY <3>2 DEF GrayDecode
      <4> HIDE DEF p, y
      <4> QED  BY <4>2, <4>3
    <3> QED  BY <3>1, <3>2
  <2>3. /\ p(b) \in {0, 1} /\ p(b + 1) \in {0, 1}
        /\ b \in x <=> p(b) # p(b + 1)
    <3>1. n \in Nat /\ b \in Nat
      OBVIOUS
    <3> QED  BY <3>1, ParityFrom
  <2>4. Parity(y \intersect {b, b + 1}) = 1 <=> ~(b \in y <=> b + 1 \in y)
    BY PairParity
  <2> HIDE DEF y, p
  <2> QED  BY <2>1, <2>2, <2>3, <2>4
<1> HIDE DEF y
<1>2. GrayEncode(y, n) = {b \in 0..(n - 1) : Parity(y \intersect {b, b + 1}) = 1}
  BY DEF GrayEncode
<1> QED  BY <1>1, <1>2 DEF y
-----------------------------------------------------------------------------
(* Folds over a finite set take the elements in an order of CHOOSE's.      *)
Chosen(s) == CHOOSE x \in s : TRUE

LEMMA ChosenIn ==
  ASSUME NEW s, s # {}
  PROVE  Chosen(s) \in s
BY DEF Chosen

LEMMA SubsetsFinite ==
  ASSUME NEW S, IsFiniteSet(S)
  PROVE  \A s \in SUBSET S :
           /\ IsFiniteSet(s) /\ Cardinality(s) \in Nat
           /\ s = {} <=> Cardinality(s) = 0
           /\ \A x \in s : /\ s \ {x} \in SUBSET S
                           /\ Cardinality(s \ {x}) = Cardinality(s) - 1
BY FS_Subset, FS_CardinalityType, FS_EmptySet, FS_RemoveElement

(* Induction on the size of a subset, for a property given as the set of   *)
(* the subsets that have it.                                               *)
LEMMA SubsetInduction ==
  ASSUME NEW S, IsFiniteSet(S), NEW Good,
         \A s \in SUBSET S : (\A x \in s : s \ {x} \in Good) => s \in Good
  PROVE  SUBSET S \subseteq Good
<1> DEFINE Bad == {n \in Nat : \E s \in SUBSET S : s \notin Good /\ Cardinality(s) = n}
<1>1. SUFFICES ASSUME NEW s \in SUBSET S, s \notin Good PROVE FALSE
  OBVIOUS
<1>2. Bad \subseteq Nat /\ Bad # {}
  BY <1>1, SubsetsFinite
<1>3. PICK m \in Bad : \A n \in Bad : m <= n
  BY <1>2, NatMin
<1>4. PICK t \in SUBSET S : t \notin Good /\ Cardinality(t) = m
  BY <1>3
<1>5. PICK x \in t : t \ {x} \notin Good
  BY <1>4
<1>6. t \ {x} \in SUBSET S /\ Cardinality(t \ {x}) = m - 1 /\ Cardinality(t \ {x}) \in Nat
  BY <1>4, <1>5, SubsetsFinite
<1>7. m - 1 \in Bad
  BY <1>5, <1>6
<1> HIDE DEF Bad
<1>8. m \in Nat
  BY <1>2
<1> QED  BY <1>3, <1>7, <1>8

FoldFn(S, base, step, f) ==
  \A s \in SUBSET S :
    f[s] = IF s = {} THEN base ELSE step[<<Chosen(s), f[s \ {Chosen(s)}]>>]

LEMMA FoldExists ==
  ASSUME NEW S, IsFiniteSet(S), NEW V, NEW base \in V, NEW step \in [S \X V -> V]
  PROVE  \E f \in [SUBSET S -> V] : FoldFn(S, base, step, f)
<1> DEFINE Dom(n) == {s \in SUBSET S : Cardinality(s) <= n}
           Rec(f, s) == IF s = {} THEN base ELSE step[<<Chosen(s), f[s \ {Chosen(s)}]>>]
           P(n) == \E f \in [Dom(n) -> V] : \A s \in Dom(n) : f[s] = Rec(f, s)
<1>1. P(0)
  <2>1. \A s \in Dom(0) : s = {}
    BY SubsetsFinite
  <2>2. [s \in Dom(0) |-> base] \in [Dom(0) -> V]
    OBVIOUS
  <2> HIDE DEF Dom
  <2> QED  BY <2>1, <2>2
<1>2. ASSUME NEW n \in Nat, P(n)
      PROVE  P(n + 1)
  <2>1. PICK f \in [Dom(n) -> V] : \A s \in Dom(n) : f[s] = Rec(f, s)
    BY <1>2
  <2> DEFINE g == [s \in Dom(n + 1) |-> IF s \in Dom(n) THEN f[s] ELSE Rec(f, s)]
  <2>2. ASSUME NEW s \in Dom(n + 1), s # {}
        PROVE  /\ Chosen(s) \in S /\ s \ {Chosen(s)} \in Dom(n)
               /\ s \ {Chosen(s)} \in Dom(n + 1)
    <3>1. Chosen(s) \in s
      BY <2>2, ChosenIn
    <3>2. /\ s \ {Chosen(s)} \in SUBSET S /\ Cardinality(s) \in Nat
          /\ Cardinality(s \ {Chosen(s)}) = Cardinality(s) - 1
      BY <3>1, SubsetsFinite
    <3> QED  BY <3>1, <3>2
  <2>3. ASSUME NEW s \in Dom(n + 1)
        PROVE  Rec(f, s) \in V
    <3>1. CASE s = {}
      BY <3>1
    <3>2. CASE s # {}
      <4>1. f[s \ {Chosen(s)}] \in V
        BY <2>2, <3>2
      <4>2. <<Chosen(s), f[s \ {Chosen(s)}]>> \in S \X V
        BY <2>2, <3>2, <4>1
      <4> QED  BY <3>2, <4>2
    <3> QED  BY <3>1, <3>2
  <2>4. g \in [Dom(n + 1) -> V]
    <3> HIDE DEF Dom, Rec
    <3> QED  BY <2>3
  <2>5. ASSUME NEW s \in Dom(n + 1)
        PROVE  g[s] = Rec(f, s)
    <3> HIDE DEF Dom, Rec
    <3> QED  BY <2>1, <2>5
  <2>6. ASSUME NEW s \in Dom(n + 1)
        PROVE  Rec(g, s) = Rec(f, s)
    <3>1. CASE s = {}
      BY <3>1
    <3>2. CASE s # {}
      <4>1. g[s \ {Chosen(s)}] = f[s \ {Chosen(s)}]
        <5> HIDE DEF Dom, Rec
        <5> QED  BY <2>2, <3>2
      <4> QED  BY <3>2, <4>1
    <3> QED  BY <3>1, <3>2
  <2> HIDE DEF Dom, Rec, g
  <2> QED  BY <2>4, <2>5, <2>6
<1>3. \A n \in Nat : P(n)
  <2> DEFINE Bad == {n \in Nat : ~P(n)}
  <2>1. SUFFICES ASSUME NEW k \in Nat, ~P(k) PROVE FALSE
    OBVIOUS
  <2> HIDE DEF P
  <2>2. PICK m \in Bad : \A n \in Bad : m <= n
    BY <2>1, NatMin
  <2>3. m \in Nat /\ ~P(m) /\ m # 0
    BY <1>1
  <2>4. m - 1 \in Nat /\ (m - 1) + 1 = m
    BY <2>3
  <2>5. P(m - 1)
    BY <2>2, <2>4
  <2>6. P((m - 1) + 1)
    BY <1>2, <2>4, <2>5
  <2> QED  BY <2>3, <2>4, <2>6
<1>4. PICK n \in Nat : n = Cardinality(S)
  BY FS_CardinalityType
<1>5. Dom(n) = SUBSET S
  <2>1. \A s \in SUBSET S : Cardinality(s) <= Cardinality(S)
    BY FS_Subset
  <2> QED  BY <1>4, <2>1
<1>6. P(n)
  BY <1>3
<1> HIDE DEF Dom
<1> QED  BY <1>5, <1>6 DEF FoldFn

LEMMA FoldUnique ==
  ASSUME NEW S, IsFiniteSet(S), NEW f, NEW g, f[{}] = g[{}],
         \A s \in SUBSET S :
           s # {} /\ f[s \ {Chosen(s)}] = g[s \ {Chosen(s)}] => f[s] = g[s]
  PROVE  \A s \in SUBSET S : f[s] = g[s]
<1> DEFINE Good == {s \in SUBSET S : f[s] = g[s]}
<1>1. ASSUME NEW s \in SUBSET S, \A x \in s : s \ {x} \in Good
      PROVE  s \in Good
  <2>1. s # {} => Chosen(s) \in s
    BY ChosenIn
  <2> QED  BY <1>1, <2>1
<1>2. SUBSET S \subseteq Good
  <2> HIDE DEF Good
  <2> QED  BY <1>1, SubsetInduction
<1> QED  BY <1>2

(* The sum of h over a subset, as MapThenSumSet computes it.               *)
SumFn(S, h, f) ==
  f = [s \in SUBSET S |-> IF s = {} THEN 0 ELSE h[Chosen(s)] + f[s \ {Chosen(s)}]]

LEMMA SumExists ==
  ASSUME NEW S, IsFiniteSet(S), NEW h \in [S -> Nat]
  PROVE  \E f \in [SUBSET S -> Nat] : SumFn(S, h, f)
<1> DEFINE step == [p \in S \X Nat |-> h[p[1]] + p[2]]
<1>1. step \in [S \X Nat -> Nat]
  OBVIOUS
<1>2. PICK f \in [SUBSET S -> Nat] : FoldFn(S, 0, step, f)
  <2> HIDE DEF step
  <2> QED  BY <1>1, FoldExists
<1>3. ASSUME NEW s \in SUBSET S, s # {}
      PROVE  f[s] = h[Chosen(s)] + f[s \ {Chosen(s)}]
  <2>1. Chosen(s) \in S /\ f[s \ {Chosen(s)}] \in Nat
    BY <1>3, ChosenIn
  <2> QED  BY <1>2, <1>3, <2>1 DEF FoldFn
<1>4. f = [s \in SUBSET S |-> IF s = {} THEN 0 ELSE h[Chosen(s)] + f[s \ {Chosen(s)}]]
  <2> HIDE DEF step
  <2> QED  BY <1>2, <1>3 DEF FoldFn
<1> QED  BY <1>4 DEF SumFn

LEMMA SumUnique ==
  ASSUME NEW S, IsFiniteSet(S), NEW h \in [S -> Nat], NEW f, NEW g, NEW T \in SUBSET S,
         SumFn(S, h, f), SumFn(T, h, g)
  PROVE  \A s \in SUBSET T : f[s] = g[s]
<1>1. IsFiniteSet(T)
  BY FS_Subset
<1>2. f[{}] = g[{}]
  BY DEF SumFn
<1>3. ASSUME NEW s \in SUBSET T, s # {}, f[s \ {Chosen(s)}] = g[s \ {Chosen(s)}]
      PROVE  f[s] = g[s]
  BY <1>3 DEF SumFn
<1> QED  BY <1>1, <1>2, <1>3, FoldUnique

LEMMA SumLaws ==
  ASSUME NEW S, IsFiniteSet(S), NEW h \in [S -> Nat], NEW f, SumFn(S, h, f)
  PROVE  /\ f[{}] = 0
         /\ \A s \in SUBSET S : f[s] \in Nat
         /\ \A s \in SUBSET S : \A x \in s : f[s] = h[x] + f[s \ {x}]
<1>1. f[{}] = 0
  BY DEF SumFn
<1>2. \A s \in SUBSET S : f[s] \in Nat
  <2>1. PICK g \in [SUBSET S -> Nat] : SumFn(S, h, g)
    BY SumExists
  <2> QED  BY <2>1, SumUnique
<1> DEFINE Good == {s \in SUBSET S : \A x \in s : f[s] = h[x] + f[s \ {x}]}
<1>3. ASSUME NEW s \in SUBSET S, \A x \in s : s \ {x} \in Good
      PROVE  s \in Good
  <2>1. SUFFICES ASSUME NEW x \in s PROVE f[s] = h[x] + f[s \ {x}]
    OBVIOUS
  <2>2. PICK c : c = Chosen(s)
    OBVIOUS
  <2>3. c \in s
    BY <2>2, ChosenIn
  <2>4. f[s] = h[c] + f[s \ {c}]
    BY <2>2 DEF SumFn
  <2>5. CASE x = c
    BY <2>4, <2>5
  <2>6. CASE x # c
    <3>1. f[s \ {c}] = h[x] + f[(s \ {c}) \ {x}]
      BY <1>3, <2>3, <2>6
    <3>2. f[s \ {x}] = h[c] + f[(s \ {x}) \ {c}]
      BY <1>3, <2>3, <2>6
    <3>3. (s \ {c}) \ {x} = (s \ {x}) \ {c}
      OBVIOUS
    <3>4. PICK t \in SUBSET S : t = (s \ {c}) \ {x}
      OBVIOUS
    <3>5. h[x] \in Nat /\ h[c] \in Nat /\ f[t] \in Nat
      BY <1>2, <2>3
    <3> QED  BY <2>4, <3>1, <3>2, <3>3, <3>4, <3>5
  <2> QED  BY <2>5, <2>6
<1>4. SUBSET S \subseteq Good
  <2> HIDE DEF Good
  <2> QED  BY <1>3, SubsetInduction
<1> QED  BY <1>1, <1>2, <1>4

(* The number a word stands for: 0, or a power of two more than without    *)
(* one of its bits.                                                        *)
WordBits == 0..15
PowerFn == [i \in WordBits |-> 2^i]

LEMMA WordBitsFinite == IsFiniteSet(WordBits)
<1>1. PICK n \in Nat : n = 15
  OBVIOUS
<1>2. IsFiniteSet(0..n)
  BY FS_Interval
<1> QED  BY <1>1, <1>2 DEF WordBits

LEMMA PowerFnType == PowerFn \in [WordBits -> Nat]
<1>1. ASSUME NEW i \in WordBits PROVE 2^i \in Nat
  <2>1. i \in 0..16
    BY DEF WordBits
  <2> QED  BY <2>1, PowerNat
<1> QED  BY <1>1 DEF PowerFn

LEMMA ValueIsSum ==
  ASSUME NEW w \in SUBSET WordBits, NEW f, SumFn(WordBits, PowerFn, f)
  PROVE  Value(w) = f[w]
<1> DEFINE Rec(g) == g = [s \in SUBSET w |->
                            IF s = {} THEN 0 ELSE 2^Chosen(s) + g[s \ {Chosen(s)}]]
           it == CHOOSE g : Rec(g)
<1>1. Value(w) = it[w]
  BY DEF Value, MapThenSumSet, MapThenFoldSet, Chosen
<1>3. \A s \in SUBSET w : s # {} => PowerFn[Chosen(s)] = 2^Chosen(s)
  BY ChosenIn DEF PowerFn
<1>4. ASSUME NEW g, Rec(g) PROVE \A s \in SUBSET w : g[s] = f[s]
  <2>1. g[{}] = f[{}]
    BY <1>4 DEF SumFn
  <2>2. ASSUME NEW s \in SUBSET w, s # {}, g[s \ {Chosen(s)}] = f[s \ {Chosen(s)}]
        PROVE  g[s] = f[s]
    BY <1>3, <1>4, <2>2 DEF SumFn
  <2>3. IsFiniteSet(w)
    BY WordBitsFinite, FS_Subset
  <2> HIDE DEF Rec
  <2> QED  BY <2>1, <2>2, <2>3, FoldUnique
<1>5. \E g : Rec(g)
  <2> DEFINE g == [s \in SUBSET w |-> f[s]]
  <2>1. \A s \in SUBSET w : g[s] = IF s = {} THEN 0 ELSE 2^Chosen(s) + g[s \ {Chosen(s)}]
    BY <1>3 DEF SumFn
  <2>2. g = [s \in SUBSET w |-> g[s]]
    OBVIOUS
  <2> HIDE DEF g
  <2>3. Rec(g)
    BY <2>1, <2>2
  <2> QED  BY <2>3
<1>6. Rec(it)
  <2> HIDE DEF Rec
  <2> QED  BY <1>5
<1> HIDE DEF it, Rec
<1> QED  BY <1>1, <1>4, <1>6

LEMMA ValueLaws ==
  /\ Value({}) = 0
  /\ \A w \in SUBSET WordBits :
       /\ Value(w) \in Nat
       /\ \A x \in w : Value(w) = 2^x + Value(w \ {x})
<1>1. IsFiniteSet(WordBits)
  BY WordBitsFinite
<1>2. PICK f \in [SUBSET WordBits -> Nat] : SumFn(WordBits, PowerFn, f)
  BY <1>1, PowerFnType, SumExists
<1>3. \A w \in SUBSET WordBits : Value(w) = f[w]
  BY <1>2, ValueIsSum
<1>4. ASSUME NEW w \in SUBSET WordBits, NEW x \in w
      PROVE  f[w] = PowerFn[x] + f[w \ {x}]
  BY <1>1, <1>2, PowerFnType, SumLaws
<1>5. f[{}] = 0
  BY <1>1, <1>2, PowerFnType, SumLaws
<1>6. Value({}) = 0
  BY <1>3, <1>5
<1>7. \A w \in SUBSET WordBits : Value(w) \in Nat
  BY <1>3
<1>8. ASSUME NEW w \in SUBSET WordBits, NEW x \in w
      PROVE  Value(w) = 2^x + Value(w \ {x})
  <2>1. Value(w) = f[w] /\ Value(w \ {x}) = f[w \ {x}]
    BY <1>3
  <2>2. PowerFn[x] = 2^x
    BY DEF PowerFn
  <2> QED  BY <1>4, <2>1, <2>2
<1> QED  BY <1>6, <1>7, <1>8

-----------------------------------------------------------------------------
(* Induction from a to b, for a property given as the set of the numbers   *)
(* that have it.                                                           *)
LEMMA UpTo ==
  ASSUME NEW a \in Nat, NEW b \in Nat, NEW Good, a \in Good,
         \A n \in a..(b - 1) : n \in Good => n + 1 \in Good
  PROVE  a..b \subseteq Good
<1> DEFINE Bad == {n \in a..b : n \notin Good}
<1>1. SUFFICES ASSUME NEW k \in Bad PROVE FALSE
  OBVIOUS
<1>2. Bad \subseteq Nat /\ Bad # {}
  BY <1>1
<1>3. PICK m \in Bad : \A n \in Bad : m <= n
  BY <1>2, NatMin
<1>4. m # a
  OBVIOUS
<1>5. m - 1 \in a..(b - 1)
  BY <1>4
<1>6. m - 1 \in Good
  BY <1>3, <1>5
<1>7. (m - 1) + 1 = m
  BY <1>5
<1>8. m \in Good
  BY <1>5, <1>6, <1>7
<1> QED  BY <1>8

(* A word of n bits stands for less than 2^n.                              *)
LEMMA ValueBelow ==
  ASSUME NEW n \in 0..16, NEW w \in SUBSET (0..(n - 1))
  PROVE  Value(w) \in Nat /\ Value(w) < 2^n
<1> DEFINE Good == {k \in 0..16 : \A v \in SUBSET (0..(k - 1)) : Value(v) < 2^k}
<1>1. 0 \in Good
  <2>1. \A v \in SUBSET (0..(0 - 1)) : v = {}
    OBVIOUS
  <2>2. 2^0 = 1
    BY Powers
  <2>3. \A v \in SUBSET (0..(0 - 1)) : Value(v) < 2^0
    <3>1. Value({}) = 0
      BY ValueLaws
    <3>2. ASSUME NEW v \in SUBSET (0..(0 - 1)) PROVE Value(v) < 2^0
      <4>1. v = {}
        BY <2>1
      <4>2. Value(v) = 0
        BY <3>1, <4>1
      <4> QED  BY <2>2, <4>2
    <3> QED  BY <3>2
  <2> QED  BY <2>3
<1>2. ASSUME NEW k \in 0..(16 - 1), k \in Good
      PROVE  k + 1 \in Good
  <2>1. SUFFICES ASSUME NEW v \in SUBSET (0..((k + 1) - 1)) PROVE Value(v) < 2^(k + 1)
    BY <1>2
  <2>2. PICK p \in Nat : p = 2^k
    <3>1. k \in 0..16
      OBVIOUS
    <3> QED  BY <3>1, PowerNat
  <2>3. 2^(k + 1) = 2 * p
    <3>1. k \in 0..15
      OBVIOUS
    <3> QED  BY <2>2, <3>1, PowerNext
  <2>4. v \ {k} \in SUBSET (0..(k - 1))
    OBVIOUS
  <2>5. Value(v \ {k}) < p
    BY <1>2, <2>2, <2>4
  <2>6. v \in SUBSET WordBits /\ v \ {k} \in SUBSET WordBits
    BY DEF WordBits
  <2>7. PICK u \in Nat : u = Value(v \ {k})
    BY <2>6, ValueLaws
  <2>8. CASE k \in v
    <3>1. Value(v) = 2^k + Value(v \ {k})
      BY <2>6, <2>8, ValueLaws
    <3> QED  BY <2>2, <2>3, <2>5, <2>7, <3>1
  <2>9. CASE k \notin v
    <3>1. v \ {k} = v
      BY <2>9
    <3>2. u < 2 * p
      BY <2>2, <2>5, <2>7
    <3> QED  BY <2>3, <2>7, <3>1, <3>2
  <2> QED  BY <2>8, <2>9
<1>3. 0..16 \subseteq Good
  <2> HIDE DEF Good
  <2>1. 0 \in Nat /\ 16 \in Nat
    OBVIOUS
  <2> QED  BY <1>1, <1>2, <2>1, UpTo
<1>4. w \in SUBSET WordBits
  BY DEF WordBits
<1> QED  BY <1>3, <1>4, ValueLaws

LEMMA PowerTimes ==
  ASSUME NEW i \in 0..15, NEW n \in (i + 1)..16
  PROVE  \E K \in Nat : 2^n = 2^(i + 1) * K
<1> DEFINE Good == {k \in (i + 1)..16 : \E K \in Nat : 2^k = 2^(i + 1) * K}
<1>1. PICK q \in Nat : q = 2^(i + 1)
  <2>1. i + 1 \in 0..16
    OBVIOUS
  <2> QED  BY <2>1, PowerNat
<1>2. i + 1 \in Good
  <2>1. 2^(i + 1) = 2^(i + 1) * 1
    BY <1>1
  <2> QED  BY <2>1
<1>3. ASSUME NEW k \in (i + 1)..(16 - 1), k \in Good
      PROVE  k + 1 \in Good
  <2>1. PICK K \in Nat : 2^k = q * K
    BY <1>1, <1>3
  <2>2. 2^(k + 1) = 2 * 2^k
    <3>1. k \in 0..15
      OBVIOUS
    <3> QED  BY <3>1, PowerNext
  <2>3. 2 * (q * K) = q * (2 * K) /\ 2 * K \in Nat
    BY <1>1
  <2>4. 2^(k + 1) = q * (2 * K)
    BY <2>1, <2>2, <2>3
  <2>5. k + 1 \in (i + 1)..16
    OBVIOUS
  <2> QED  BY <1>1, <2>3, <2>4, <2>5
<1>4. (i + 1)..16 \subseteq Good
  <2> HIDE DEF Good
  <2>1. i + 1 \in Nat /\ 16 \in Nat
    OBVIOUS
  <2> QED  BY <1>2, <1>3, <2>1, UpTo
<1> QED  BY <1>4

(* What the bits above i add is a multiple of 2^(i + 1).                   *)
LEMMA ValueHigh ==
  ASSUME NEW i \in 0..15, NEW w \in SUBSET WordBits
  PROVE  \E H \in Nat : Value(w) = Value(w \intersect 0..i) + 2^(i + 1) * H
<1> DEFINE Splits(v) == \E H \in Nat : Value(v) = Value(v \intersect 0..i) + 2^(i + 1) * H
           Good == {k \in (i + 1)..16 : \A v \in SUBSET (0..(k - 1)) : Splits(v)}
<1>1. PICK q \in Nat : q = 2^(i + 1)
  <2>1. i + 1 \in 0..16
    OBVIOUS
  <2> QED  BY <2>1, PowerNat
<1>2. i + 1 \in Good
  <2>1. ASSUME NEW v \in SUBSET (0..((i + 1) - 1)) PROVE Splits(v)
    <3>0. (i + 1) - 1 = i
      OBVIOUS
    <3>1. v \intersect 0..i = v /\ v \in SUBSET WordBits
      <4>1. v \subseteq 0..i
        BY <3>0
      <4>2. v \intersect 0..i = v
        BY <4>1
      <4>3. \A k \in v : k \in 0..15
        BY <4>1
      <4> QED  BY <4>2, <4>3 DEF WordBits
    <3>2. PICK u \in Nat : u = Value(v)
      BY <3>1, ValueLaws
    <3>3. u = u + q * 0 /\ 0 \in Nat
      BY <1>1
    <3>4. Value(v) = Value(v \intersect 0..i) + 2^(i + 1) * 0
      BY <1>1, <3>1, <3>2, <3>3
    <3> QED  BY <3>3, <3>4
  <2>2. i + 1 \in (i + 1)..16
    OBVIOUS
  <2> HIDE DEF Splits
  <2> QED  BY <2>1, <2>2
<1>3. ASSUME NEW k \in (i + 1)..(16 - 1), k \in Good
      PROVE  k + 1 \in Good
  <2>1. ASSUME NEW v \in SUBSET (0..((k + 1) - 1)) PROVE Splits(v)
    <3>1. v \ {k} \in SUBSET (0..(k - 1)) /\ v \in SUBSET WordBits
          /\ v \ {k} \in SUBSET WordBits /\ (v \ {k}) \intersect 0..i = v \intersect 0..i
          /\ v \intersect 0..i \in SUBSET WordBits
      BY DEF WordBits
    <3>2. PICK H \in Nat : Value(v \ {k}) = Value(v \intersect 0..i) + q * H
      BY <1>1, <1>3, <3>1
    <3>3. PICK u \in Nat : u = Value(v \intersect 0..i)
      BY <3>1, ValueLaws
    <3>4. CASE k \notin v
      <4>1. v \ {k} = v
        BY <3>4
      <4> QED  BY <1>1, <3>2, <4>1
    <3>5. CASE k \in v
      <4>1. Value(v) = 2^k + Value(v \ {k})
        BY <3>1, <3>5, ValueLaws
      <4>2. PICK K \in Nat : 2^k = q * K
        <5>1. k \in (i + 1)..16
          OBVIOUS
        <5> QED  BY <1>1, <5>1, PowerTimes
      <4>3. q * K \in Nat /\ q * H \in Nat /\ q * (H + K) = q * K + q * H /\ H + K \in Nat
        BY <1>1
      <4>4. Value(v) = u + q * (H + K)
        BY <3>2, <3>3, <4>1, <4>2, <4>3
      <4> QED  BY <1>1, <3>3, <4>3, <4>4
    <3> QED  BY <3>4, <3>5
  <2>2. k + 1 \in (i + 1)..16
    OBVIOUS
  <2> HIDE DEF Splits
  <2> QED  BY <2>1, <2>2
<1>4. (i + 1)..16 \subseteq Good
  <2> HIDE DEF Good
  <2>1. i + 1 \in Nat /\ 16 \in Nat
    OBVIOUS
  <2> QED  BY <1>2, <1>3, <2>1, UpTo
<1>5. 16 \in Good
  <2>1. 16 \in (i + 1)..16
    OBVIOUS
  <2> HIDE DEF Good
  <2> QED  BY <1>4, <2>1
<1>6. w \in SUBSET (0..(16 - 1))
  BY DEF WordBits
<1> QED  BY <1>5, <1>6

(* Bits takes a number apart into the word it was made of.                 *)
LEMMA ValueBit ==
  ASSUME NEW w \in SUBSET WordBits, NEW i \in 0..15
  PROVE  (Value(w) \div 2^i) % 2 = IF i \in w THEN 1 ELSE 0
<1>1. PICK p \in Nat : p = 2^i /\ p > 0
  <2>1. i \in 0..16
    OBVIOUS
  <2>2. PICK p \in Nat \ {0} : p = 2^i
    BY <2>1, PowerNat
  <2> QED  BY <2>2
<1>2. 2^(i + 1) = 2 * p
  BY <1>1, PowerNext
<1>3. PICK H \in Nat : Value(w) = Value(w \intersect 0..i) + 2 * p * H
  BY <1>2, ValueHigh
<1>4. w \intersect 0..i \in SUBSET WordBits /\ w \intersect 0..(i - 1) \in SUBSET (0..(i - 1))
      /\ (w \intersect 0..i) \ {i} = w \intersect 0..(i - 1)
  BY DEF WordBits
<1>5. PICK L \in Nat : L = Value(w \intersect 0..(i - 1)) /\ L < p
  <2>1. i \in 0..16
    OBVIOUS
  <2> QED  BY <1>1, <1>4, <2>1, ValueBelow
<1>6. PICK b \in {0, 1} : b = IF i \in w THEN 1 ELSE 0
  OBVIOUS
<1>7. Value(w \intersect 0..i) = p * b + L
  <2>1. CASE i \in w
    <3>1. i \in w \intersect 0..i
      BY <2>1
    <3>2. Value(w \intersect 0..i) = 2^i + Value((w \intersect 0..i) \ {i})
      BY <1>4, <3>1, ValueLaws
    <3>3. b = 1 /\ p * b = p
      BY <1>1, <1>6, <2>1
    <3> QED  BY <1>1, <1>4, <1>5, <3>2, <3>3
  <2>2. CASE i \notin w
    <3>1. w \intersect 0..i = w \intersect 0..(i - 1)
      BY <2>2
    <3>2. b = 0 /\ p * 0 = 0 /\ 0 + L = L
      BY <1>1, <1>5, <1>6, <2>2
    <3>3. p * b + L = L
      BY <3>2
    <3> QED  BY <1>5, <3>1, <3>3
  <2> QED  BY <2>1, <2>2
<1>8. Value(w) = (b + 2 * H) * p + L
  <2>1. (b + 2 * H) * p = p * b + 2 * p * H
    BY <1>1
  <2>2. p * b \in Nat /\ 2 * p * H \in Nat
    BY <1>1
  <2> QED  BY <1>3, <1>5, <1>7, <2>1, <2>2
<1>9. Value(w) \div p = b + 2 * H
  <2>1. b + 2 * H \in Nat /\ L \in 0..(p - 1)
    BY <1>5
  <2> QED  BY <1>1, <1>8, <2>1, QuotientOf
<1>10. (b + 2 * H) % 2 = b
  <2>1. b + 2 * H = H * 2 + b
    OBVIOUS
  <2>2. b \in 0..(2 - 1) /\ 2 \in Nat /\ 2 > 0
    OBVIOUS
  <2> QED  BY <2>1, <2>2, RemainderOf
<1> QED  BY <1>1, <1>6, <1>9, <1>10

LEMMA BitsOfValue ==
  ASSUME NEW w \in SUBSET WordBits
  PROVE  Bits(Value(w)) = w
<1>1. ASSUME NEW i \in 0..15
      PROVE  (Value(w) \div 2^i) % 2 = 1 <=> i \in w
  <2>1. (Value(w) \div 2^i) % 2 = IF i \in w THEN 1 ELSE 0
    BY ValueBit
  <2> QED  BY <2>1
<1> QED  BY <1>1 DEF Bits, WordBits

(* Powers of two grow.                                                     *)
LEMMA PowerMonotone ==
  ASSUME NEW i \in 0..16, NEW j \in 0..16, i <= j
  PROVE  2^i <= 2^j
<1>1. PICK m \in Nat, n \in Nat : m = 2^i /\ n = 2^j
  BY PowerNat
<1>2. CASE i = j
  BY <1>1, <1>2
<1>3. CASE i < j
  <2>1. i \in 0..15 /\ j \in (i + 1)..16
    BY <1>3
  <2>2. PICK K \in Nat : n = 2^(i + 1) * K
    BY <1>1, <2>1, PowerTimes
  <2>3. n = (2 * m) * K
    BY <1>1, <2>1, <2>2, PowerNext
  <2>4. n # 0
    BY <1>1, PowerNat
  <2>5. K # 0
    <3>1. (2 * m) * 0 = 0
      BY <1>1
    <3> QED  BY <2>3, <2>4, <3>1
  <2>6. (2 * m) * K >= 2 * m
    <3>1. 1 * (2 * m) <= K * (2 * m)
      BY <1>1, <2>5, TimesMonotone
    <3>2. K * (2 * m) = (2 * m) * K
      BY <1>1
    <3> QED  BY <1>1, <3>1, <3>2
  <2> QED  BY <1>1, <2>3, <2>6
<1> QED  BY <1>2, <1>3

(* A number below 2^n has no bit from n on.                                *)
LEMMA BitsBelow ==
  ASSUME NEW n \in 0..16, NEW v \in Nat, v < 2^n
  PROVE  Bits(v) \in SUBSET (0..(n - 1)) /\ Bits(v) \in SUBSET WordBits
<1>1. Bits(v) \in SUBSET WordBits
  BY DEF Bits, WordBits
<1>2. ASSUME NEW i \in Bits(v)
      PROVE  i \in 0..(n - 1)
  <2>1. i \in 0..15 /\ (v \div 2^i) % 2 = 1
    BY DEF Bits
  <2>2. SUFFICES ASSUME n <= i PROVE FALSE
    BY <2>1
  <2>3. i \in 0..16
    BY <2>1
  <2>4. PICK p \in Nat \ {0} : p = 2^i
    BY <2>3, PowerNat
  <2>5. v < p
    <3>1. PICK m \in Nat : m = 2^n
      BY PowerNat
    <3>2. m <= p
      BY <2>2, <2>3, <2>4, <3>1, PowerMonotone
    <3> QED  BY <2>4, <3>1, <3>2
  <2>6. v \div p = 0
    <3>1. v = 0 * p + v /\ v \in 0..(p - 1)
      BY <2>4, <2>5
    <3> QED  BY <2>4, <3>1, QuotientOf
  <2> QED  BY <2>1, <2>4, <2>6
<1> QED  BY <1>1, <1>2

(* The number of bins is the number of a block's symbols times the step    *)
(* between their bins.                                                     *)
LEMMA StepOf ==
  ASSUME NEW rows \in {SF - 2, SF}
  PROVE  /\ rows \in 5..16
         /\ \E R \in Nat \ {0}, s \in {1, 4} :
              /\ 2^rows = R /\ 2^(SF - rows) = s /\ 2^SF = R * s
              /\ rows = SF <=> s = 1
<1>1. SF \in 7..16
  BY SFAssumption
<1>2. rows \in 5..16 /\ rows \in 0..16
  BY <1>1
<1>3. PICK R \in Nat \ {0} : R = 2^rows
  BY <1>2, PowerNat
<1>4. CASE rows = SF
  <2>1. SF - rows = 0
    BY <1>1, <1>4
  <2>2. 2^(SF - rows) = 1
    <3>1. PICK d, m : d = SF - rows /\ m = 2^d
      OBVIOUS
    <3>2. d = 0 /\ d \in 0..16
      BY <2>1, <3>1
    <3>3. IsPower(d, m)
      BY <3>1, <3>2, PowerTable
    <3> QED  BY <3>1, <3>2, <3>3 DEF IsPower
  <2>3. R = R * 1
    BY <1>3
  <2> QED  BY <1>2, <1>3, <1>4, <2>2, <2>3
<1>5. CASE rows = SF - 2
  <2>1. SF - rows = 2 /\ rows # SF
    BY <1>1, <1>5
  <2>2. 2^(SF - rows) = 4
    <3>1. PICK d, m : d = SF - rows /\ m = 2^d
      OBVIOUS
    <3>2. d = 2 /\ d \in 0..16
      BY <2>1, <3>1
    <3>3. IsPower(d, m)
      BY <3>1, <3>2, PowerTable
    <3> QED  BY <3>1, <3>2, <3>3 DEF IsPower
  <2>3. 2^(rows + 1) = 2 * R /\ 2^(rows + 1 + 1) = 2 * 2^(rows + 1)
    <3>1. rows \in 0..15 /\ rows + 1 \in 0..15
      BY <1>1, <1>5
    <3> QED  BY <1>3, <3>1, PowerNext
  <2>4. rows + 1 + 1 = SF
    BY <1>1, <1>5
  <2>5. 2^SF = R * 4
    BY <1>3, <2>3, <2>4
  <2> QED  BY <1>2, <1>3, <2>1, <2>2, <2>5
<1> QED  BY <1>4, <1>5

(* Every symbol of a block has a bin of the modem ...                      *)
LEMMA SymbolFits ==
  ASSUME NEW rows \in {SF - 2, SF}, NEW x \in SUBSET (0..(rows - 1))
  PROVE  SymbolMod(x, rows) \in Bins
<1>1. rows \in 0..16
  BY SFAssumption
<1>2. PICK R \in Nat \ {0}, s \in {1, 4} :
        2^rows = R /\ 2^(SF - rows) = s /\ 2^SF = R * s
  BY StepOf
<1>3. PICK V \in Nat : V = Value(x) /\ V < R
  BY <1>1, <1>2, ValueBelow
<1>4. V * s \in 0..(R * s - 1)
  BY <1>2, <1>3
<1> QED  BY <1>2, <1>3, <1>4 DEF SymbolMod, Bins

(* ... and is read from it, however ties are rounded.                      *)
LEMMA DemodInverts ==
  ASSUME NEW rows \in {SF - 2, SF}, NEW x \in SUBSET (0..(rows - 1)), NEW up \in BOOLEAN
  PROVE  SymbolDemod(SymbolMod(x, rows), rows, up) = x
<1>1. rows \in 0..16
  BY SFAssumption
<1>2. PICK R \in Nat \ {0}, s \in {1, 4} :
        2^rows = R /\ 2^(SF - rows) = s /\ 2^SF = R * s
  BY StepOf
<1>3. PICK V \in Nat : V = Value(x) /\ V < R
  BY <1>1, <1>2, ValueBelow
<1>4. PICK e \in {0, 1} : e = IF up THEN 0 ELSE 1
  OBVIOUS
<1>5. (2 * (V * s) + s - e) \div (2 * s) = V
  <2>1. 2 * (V * s) + s - e = V * (2 * s) + (s - e)
    BY <1>2, <1>3, <1>4
  <2>2. s - e \in 0..(2 * s - 1) /\ 2 * s \in Nat /\ 2 * s > 0
    BY <1>2, <1>4
  <2> QED  BY <1>3, <2>1, <2>2, QuotientOf
<1>6. V % R = V
  <2>1. V = 0 * R + V /\ V \in 0..(R - 1)
    BY <1>2, <1>3
  <2> QED  BY <1>2, <2>1, RemainderOf
<1>7. SymbolDemod(SymbolMod(x, rows), rows, up) = Bits(V)
  BY <1>2, <1>3, <1>4, <1>5, <1>6 DEF SymbolDemod, SymbolMod
<1>8. x \in SUBSET WordBits
  BY <1>1 DEF WordBits
<1> QED  BY <1>3, <1>7, <1>8, BitsOfValue

LEMMA GrayDecodeFits ==
  ASSUME NEW n \in 0..16, NEW x \in SUBSET (0..(n - 1))
  PROVE  GrayDecode(x, n) \in SUBSET (0..(n - 1))
<1>1. ASSUME NEW b \in GrayDecode(x, n)
      PROVE  b \in 0..(n - 1)
  <2>1. b \in 0..15 /\ Parity(x \intersect b..(b + n)) = 1
    BY DEF GrayDecode
  <2>2. SUFFICES ASSUME n <= b PROVE FALSE
    BY <2>1
  <2>3. x \intersect b..(b + n) = {}
    BY <2>1, <2>2
  <2> QED  BY <2>1, <2>3, ParityEmpty
<1> QED  BY <1>1

LEMMA InterleaveFits ==
  ASSUME NEW rows \in Nat, NEW n \in Nat, NEW words, NEW k \in 0..(n - 1)
  PROVE  /\ DOMAIN Interleave(words, rows, n) = 0..(n - 1)
         /\ Interleave(words, rows, n)[k] \in SUBSET (0..(rows - 1))
BY DEF Interleave

LEMMA MatrixRows ==
  ASSUME NEW CR \in 0..4, NEW n \in 0..3, n >= CR
  PROVE  PairityMatrix(CR)[n + 1] = {}
<1>1. CASE CR = 3
  <2>1. PairityMatrix(CR) = <<{0, 1, 2}, {1, 2, 3}, {0, 1, 3}, {}>>
    BY <1>1 DEF PairityMatrix
  <2>2. n + 1 = 4
    BY <1>1
  <2> QED  BY <2>1, <2>2
<1>2. CASE CR = 2
  <2>1. PairityMatrix(CR) = <<{0, 1, 2}, {1, 2, 3}, {}, {}>>
    BY <1>2 DEF PairityMatrix
  <2>2. n + 1 \in {3, 4}
    BY <1>2
  <2> QED  BY <2>1, <2>2
<1>3. CASE CR = 1
  <2>1. PairityMatrix(CR) = <<0..3, {}, {}, {}>>
    BY <1>3 DEF PairityMatrix
  <2>2. n + 1 \in {2, 3, 4}
    BY <1>3
  <2> QED  BY <2>1, <2>2
<1>4. CASE CR = 0
  <2>1. PairityMatrix(CR) = <<{}, {}, {}, {}>>
    BY <1>4 DEF PairityMatrix
  <2>2. n + 1 \in {1, 2, 3, 4}
    OBVIOUS
  <2> QED  BY <2>1, <2>2
<1> QED  BY <1>1, <1>2, <1>3, <1>4

(* The check bits lie above the nibble, below the length of the code.      *)
LEMMA EncodeFits ==
  ASSUME NEW CR \in 0..4, NEW w \in SUBSET (0..3)
  PROVE  /\ CalculatePairity(w, CR) \in SUBSET (0..(CR + 4 - 1))
         /\ CalculatePairity(w, CR) \intersect 0..3 = w
<1> DEFINE Odd == {n \in 0..3 : Parity(w \intersect PairityMatrix(CR)[n + 1]) = 1}
<1>1. ASSUME NEW n \in Odd
      PROVE  n \in 0..(CR - 1)
  <2>1. SUFFICES ASSUME n >= CR PROVE FALSE
    OBVIOUS
  <2>2. PairityMatrix(CR)[n + 1] = {}
    BY <2>1, MatrixRows
  <2>3. PICK x : x = w \intersect PairityMatrix(CR)[n + 1]
    OBVIOUS
  <2>4. x = {}
    BY <2>2, <2>3
  <2>5. Parity(x) = 1
    BY <2>3
  <2> QED  BY <2>4, <2>5, ParityEmpty
<1>2. CalculatePairity(w, CR) = w \union {4 + n : n \in Odd}
  BY DEF CalculatePairity
<1> HIDE DEF Odd
<1>3. {4 + n : n \in Odd} \subseteq 4..(CR + 4 - 1)
  BY <1>1
<1>4. w \subseteq 0..(CR + 4 - 1)
  OBVIOUS
<1>5. {4 + n : n \in Odd} \intersect 0..3 = {}
  BY <1>3
<1>6. w \intersect 0..3 = w
  OBVIOUS
<1>7. PICK v : v = {4 + n : n \in Odd}
  OBVIOUS
<1>8. CalculatePairity(w, CR) = w \union v
  BY <1>2, <1>7
<1>9. v \subseteq 4..(CR + 4 - 1) /\ v \intersect 0..3 = {}
  BY <1>3, <1>5, <1>7
<1>10. (w \union v) \intersect 0..3 = w
  BY <1>6, <1>9
<1>11. w \union v \subseteq 0..(CR + 4 - 1)
  BY <1>4, <1>9
<1> QED  BY <1>8, <1>10, <1>11

-----------------------------------------------------------------------------
(* The table of coset leaders stays empty ...                              *)
LEMMA NoLeaders ==
  ASSUME NEW CR
  PROVE  DOMAIN CosetLeaders(CR) = {}
<1> DEFINE S == (0..3) \X (0..3)
           check(i) == CalculatePairity({i}, CR)
           add(p, leaders) == AddLeader(leaders, Xor(check(p[1]), check(p[2])),
                                        {p[1]} \intersect {p[2]})
           none == [s \in {} |-> {}]
           Rec(g) == g = [s \in SUBSET S |->
                            IF s = {} THEN none ELSE add(Chosen(s), g[s \ {Chosen(s)}])]
           it == CHOOSE g : Rec(g)
<1>1. CosetLeaders(CR) = it[S]
  BY DEF CosetLeaders, FoldSet, MapThenFoldSet, Chosen
<1>2. \A p : add(p, none) = none
  BY DEF AddLeader
<1> HIDE DEF add
<1>3. IsFiniteSet(S)
  <2>1. IsFiniteSet(0..3)
    <3>1. PICK n \in Nat : n = 3
      OBVIOUS
    <3>2. IsFiniteSet(0..n)
      BY FS_Interval
    <3> QED  BY <3>1, <3>2
  <2> QED  BY <2>1, FS_Product
<1> HIDE DEF S
<1>4. ASSUME NEW g, Rec(g) PROVE S \in SUBSET S /\ g[S] = none
  <2> DEFINE f == [s \in SUBSET S |-> none]
  <2>1. g[{}] = f[{}]
    BY <1>4
  <2>2. ASSUME NEW s \in SUBSET S, s # {}, g[s \ {Chosen(s)}] = f[s \ {Chosen(s)}]
        PROVE  g[s] = f[s]
    <3>1. g[s] = add(Chosen(s), g[s \ {Chosen(s)}])
      BY <1>4, <2>2
    <3>2. g[s \ {Chosen(s)}] = none
      BY <2>2
    <3> QED  BY <1>2, <3>1, <3>2
  <2> HIDE DEF Rec
  <2>3. \A s \in SUBSET S : g[s] = f[s]
    <3> HIDE DEF f
    <3> QED  BY <1>3, <2>1, <2>2, FoldUnique
  <2> QED  BY <2>3
<1>5. \E g : Rec(g)
  <2> DEFINE g == [s \in SUBSET S |-> none]
  <2>1. g = [s \in SUBSET S |->
                IF s = {} THEN none ELSE add(Chosen(s), g[s \ {Chosen(s)}])]
    BY <1>2
  <2> QED  BY <2>1
<1>6. Rec(it)
  <2> HIDE DEF Rec
  <2> QED  BY <1>5
<1>7. it[S] = none
  <2> HIDE DEF Rec, it
  <2> QED  BY <1>4, <1>6
<1> HIDE DEF it
<1> QED  BY <1>1, <1>7

(* ... so decode takes the nibble of a codeword as it came.                *)
LEMMA DecodeLaw ==
  ASSUME NEW w, NEW CR
  PROVE  Decode(w, CR) = w \intersect 0..3
<1>1. DOMAIN CosetLeaders(CR) = {}
  BY NoLeaders
<1>2. Decode(w, CR) = Xor(w, {}) \intersect 0..3
  BY <1>1 DEF Decode
<1>3. Xor(w, {}) = w
  BY DEF Xor
<1> QED  BY <1>2, <1>3

LEMMA NibbleBits ==
  ASSUME NEW v \in 0..15
  PROVE  Bits(v) \in SUBSET (0..3)
<1>1. 4 \in 0..16 /\ v \in Nat /\ v < 2^4
  BY Powers
<1>2. Bits(v) \in SUBSET (0..(4 - 1))
  BY <1>1, BitsBelow
<1> QED  BY <1>2

LEMMA HeaderFits ==
  ASSUME NEW h \in HeaderCases, NEW i \in 0..4
  PROVE  HeaderNibbles(h)[i] \in SUBSET (0..3)
<1>1. h.length \in 0..255 /\ h.CR \in 0..7 /\ h.crc \in BOOLEAN
  BY CasesAssumption
<1>2. Bits(h.length \div 16) \in SUBSET (0..3)
  <2>1. h.length \div 16 \in 0..15
    BY <1>1
  <2> QED  BY <2>1, NibbleBits
<1>3. Bits(h.length % 16) \in SUBSET (0..3)
  <2>1. h.length % 16 \in 0..15
    BY <1>1
  <2> QED  BY <2>1, NibbleBits
<1>4. Bits(2 * h.CR + (IF h.crc THEN 1 ELSE 0)) \in SUBSET (0..3)
  <2>1. 2 * h.CR + (IF h.crc THEN 1 ELSE 0) \in 0..15
    BY <1>1
  <2> QED  BY <2>1, NibbleBits
<1> DEFINE first == [j \in 0..2 |->
                  CASE j = 0 -> Bits(h.length \div 16)
                    [] j = 1 -> Bits(h.length % 16)
                    [] j = 2 -> Bits(2 * h.CR + (IF h.crc THEN 1 ELSE 0))]
           sum == Checksum(first)
<1>5. HeaderNibbles(h)[i] = IF i < 3 THEN first[i]
                            ELSE IF i = 3 THEN {b - 4 : b \in sum \ 0..3}
                            ELSE sum \intersect 0..3
  BY DEF HeaderNibbles
<1>6. i < 3 => first[i] \in SUBSET (0..3)
  <2>1. i < 3 => i \in {0, 1, 2}
    OBVIOUS
  <2> QED  BY <1>2, <1>3, <1>4, <2>1
<1>7. sum \in SUBSET (0..4)
  <2> HIDE DEF first
  <2> QED  BY DEF Checksum
<1> HIDE DEF first, sum
<1>8. {b - 4 : b \in sum \ 0..3} \subseteq 0..3
  BY <1>7
<1> QED  BY <1>5, <1>6, <1>7, <1>8

LEMMA BlockTypes ==
  ASSUME NEW b \in Blocks
  PROVE  /\ b.rows \in {SF - 2, SF} /\ b.rows \in Nat /\ b.rows > 0 /\ b.rows \in 0..16
         /\ b.CR \in 0..4
         /\ b.nibbles \in [0..(b.rows - 1) -> SUBSET (0..3)]
<1>1. SF \in 7..16
  BY SFAssumption
<1>2. CASE \E h \in HeaderCases :
             b = [rows |-> SF - 2, CR |-> 4, header |-> {h},
                  nibbles |-> [i \in 0..(SF - 3) |-> IF i < 5 THEN HeaderNibbles(h)[i] ELSE {}]]
  <2>1. PICK h \in HeaderCases :
             b = [rows |-> SF - 2, CR |-> 4, header |-> {h},
                  nibbles |-> [i \in 0..(SF - 3) |-> IF i < 5 THEN HeaderNibbles(h)[i] ELSE {}]]
    BY <1>2
  <2>2. b.rows = SF - 2 /\ b.CR = 4
    BY <2>1
  <2>3. b.nibbles = [i \in 0..(SF - 3) |-> IF i < 5 THEN HeaderNibbles(h)[i] ELSE {}]
    BY <2>1
  <2>4. ASSUME NEW i \in 0..(SF - 3)
        PROVE  (IF i < 5 THEN HeaderNibbles(h)[i] ELSE {}) \in SUBSET (0..3)
    <3>1. i < 5 => i \in 0..4
      BY <1>1
    <3> QED  BY <3>1, HeaderFits
  <2>5. b.nibbles \in [0..(SF - 3) -> SUBSET (0..3)]
    BY <2>3, <2>4
  <2>6. b.rows - 1 = SF - 3
    BY <1>1, <2>2
  <2> QED  BY <1>1, <2>2, <2>5, <2>6
<1>3. CASE \E p \in PayloadCases :
             b = [rows |-> p.rows, CR |-> p.CR, header |-> {}, nibbles |-> p.nibbles]
  <2>1. PICK p \in PayloadCases :
             b = [rows |-> p.rows, CR |-> p.CR, header |-> {}, nibbles |-> p.nibbles]
    BY <1>3
  <2>2. /\ p.rows \in {SF - 2, SF} /\ p.CR \in 0..4
        /\ p.nibbles \in [0..(p.rows - 1) -> SUBSET (0..3)]
    BY CasesAssumption
  <2>3. b.rows = p.rows /\ b.CR = p.CR /\ b.nibbles = p.nibbles
    BY <2>1
  <2>4. b.rows \in Nat /\ b.rows > 0 /\ b.rows \in 0..16
    BY <1>1, <2>2, <2>3
  <2> QED  BY <2>2, <2>3, <2>4
<1> QED  BY <1>2, <1>3 DEF Blocks

-----------------------------------------------------------------------------
(* Bit b of the Gray code of v says where v / 2^b is in a cycle of four.   *)
Rising(v, b) == (v \div 2^b) % 4 \in {1, 2}

LEMMA GrayBits ==
  ASSUME NEW n \in 0..16, NEW v \in Nat, v < 2^n, NEW b \in 0..(n - 1)
  PROVE  b \in GrayEncode(Bits(v), n) <=> Rising(v, b)
<1>1. b \in 0..15 /\ b \in 0..16 /\ b \in Nat
  OBVIOUS
<1>2. PICK p \in Nat \ {0} : p = 2^b
  BY <1>1, PowerNat
<1>3. PICK u \in Nat, r \in 0..(p - 1) : u = v \div p /\ v = u * p + r
  BY <1>2, DivMod
<1>4. PICK y : y = Bits(v)
  OBVIOUS
<1>5. b \in y <=> u % 2 = 1
  BY <1>1, <1>2, <1>3, <1>4 DEF Bits
<1>6. b + 1 \in y <=> (u \div 2) % 2 = 1
  <2>1. CASE b + 1 \in 0..15
    <3>1. 2^(b + 1) = 2 * p
      BY <1>1, <1>2, PowerNext
    <3>2. v \div (2 * p) = u \div 2
      <4>1. PICK c \in Nat, d \in {0, 1} : u = c * 2 + d /\ c = u \div 2
        <5>1. u % 2 \in {0, 1} /\ u \div 2 \in Nat /\ u = (u \div 2) * 2 + (u % 2)
          OBVIOUS
        <5> QED  BY <5>1
      <4>2. v = c * (2 * p) + (d * p + r)
        <5>1. u * p = c * (2 * p) + d * p
          BY <4>1
        <5>2. c * (2 * p) \in Nat /\ d * p \in Nat
          OBVIOUS
        <5> QED  BY <1>3, <5>1, <5>2
      <4>3. d * p + r \in 0..(2 * p - 1)
        <5>1. 0 * p = 0 /\ 1 * p = p
          OBVIOUS
        <5> QED  BY <5>1
      <4>4. 2 * p \in Nat /\ 2 * p > 0
        OBVIOUS
      <4> QED  BY <4>1, <4>2, <4>3, <4>4, QuotientOf
    <3> QED  BY <1>4, <2>1, <3>1, <3>2 DEF Bits
  <2>2. CASE b + 1 \notin 0..15
    <3>1. b = 15 /\ n = 16
      BY <2>2
    <3>2. p = 32768 /\ v < 65536
      BY <1>2, <3>1, Powers
    <3>3. u \in {0, 1}
      <4>1. SUFFICES ASSUME u >= 2 PROVE FALSE
        BY <1>3
      <4>2. 2 * p <= u * p
        BY <4>1, TimesMonotone
      <4>3. u * p \in Nat
        OBVIOUS
      <4> QED  BY <1>3, <3>2, <4>2, <4>3
    <3>4. b + 1 \notin y
      BY <1>4, <2>2 DEF Bits
    <3> QED  BY <3>3, <3>4
  <2> QED  BY <2>1, <2>2
<1>7. b \in GrayEncode(y, n) <=> ~(b \in y <=> b + 1 \in y)
  <2>1. b \in GrayEncode(y, n) <=> Parity(y \intersect {b, b + 1}) = 1
    BY DEF GrayEncode
  <2>2. Parity(y \intersect {b, b + 1}) = 1 <=> ~(b \in y <=> b + 1 \in y)
    BY <1>1, PairParity
  <2> QED  BY <2>1, <2>2
<1>8. u % 4 \in {1, 2} <=> ~(u % 2 = 1 <=> (u \div 2) % 2 = 1)
  OBVIOUS
<1>9. Rising(v, b) <=> u % 4 \in {1, 2}
  BY <1>2, <1>3 DEF Rising
<1> QED  BY <1>4, <1>5, <1>6, <1>7, <1>8, <1>9

(* Counting one up changes one bit of the Gray code ...                    *)
LEMMA RisingNext ==
  ASSUME NEW n \in 1..16, NEW v \in Nat, v + 1 < 2^n
  PROVE  \E e \in 0..(n - 1) : \A b \in (0..(n - 1)) \ {e} : Rising(v, b) <=> Rising(v + 1, b)
<1> DEFINE T == {e \in 0..(n - 1) : (v + 1) % 2^(e + 1) # 0}
<1>1. n - 1 \in T
  <2>1. n \in 0..16 /\ (n - 1) + 1 = n
    OBVIOUS
  <2>2. PICK N \in Nat \ {0} : N = 2^n
    BY <2>1, PowerNat
  <2>3. v + 1 = 0 * N + (v + 1) /\ v + 1 \in 0..(N - 1)
    BY <2>2
  <2>4. (v + 1) % N = v + 1
    BY <2>3, RemainderOf
  <2> QED  BY <2>1, <2>2, <2>4
<1>2. T \subseteq Nat /\ T # {}
  <2>1. T \subseteq 0..(n - 1)
    OBVIOUS
  <2> HIDE DEF T
  <2> QED  BY <1>1, <2>1
<1>3. PICK e \in T : \A c \in T : e <= c
  <2> HIDE DEF T
  <2> QED  BY <1>2, NatMin
<1>4. e \in 0..(n - 1) /\ (v + 1) % 2^(e + 1) # 0
  BY <1>3
<1>5. ASSUME NEW b \in (0..(n - 1)) \ {e}
      PROVE  Rising(v, b) <=> Rising(v + 1, b)
  <2>1. b \in 0..16 /\ b \in 0..15 /\ b + 1 \in 0..16
    OBVIOUS
  <2>2. PICK p \in Nat \ {0} : p = 2^b
    BY <2>1, PowerNat
  <2>3. CASE b < e
    <3>1. b \notin T
      BY <1>3, <1>4, <2>3
    <3>2. (v + 1) % 2^(b + 1) = 0
      BY <3>1
    <3>3. 2^(b + 1) = 2 * p
      BY <2>1, <2>2, PowerNext
    <3>4. PICK c \in Nat : v + 1 = c * (2 * p)
      <4>1. 2 * p \in Nat /\ 2 * p > 0
        OBVIOUS
      <4>2. v + 1 = ((v + 1) \div (2 * p)) * (2 * p) + ((v + 1) % (2 * p))
            /\ (v + 1) \div (2 * p) \in Nat
        BY <4>1, DivMod
      <4>3. PICK c \in Nat : c = (v + 1) \div (2 * p)
        BY <4>2
      <4>4. c * (2 * p) \in Nat
        OBVIOUS
      <4> QED  BY <3>2, <3>3, <4>2, <4>3, <4>4
    <3>5. c > 0
      <4>1. 0 * (2 * p) = 0
        OBVIOUS
      <4> QED  BY <3>4, <4>1
    <3>6. (v + 1) \div p = 2 * c
      <4>1. c * (2 * p) = (2 * c) * p
        OBVIOUS
      <4>2. 2 * c \in Nat
        OBVIOUS
      <4> QED  BY <3>4, <4>1, <4>2, DivCancels
    <3>7. v \div p = 2 * c - 1
      <4>1. c * (2 * p) = (2 * c - 1) * p + p
        OBVIOUS
      <4>2. 2 * c - 1 \in Nat /\ p - 1 \in 0..(p - 1) /\ p > 0
        BY <3>5
      <4>3. (2 * c - 1) * p \in Nat
        BY <4>2
      <4>4. v = (2 * c - 1) * p + (p - 1)
        BY <3>4, <4>1, <4>3
      <4> QED  BY <4>2, <4>4, QuotientOf
    <3>8. (2 * c) % 4 \in {1, 2} <=> (2 * c - 1) % 4 \in {1, 2}
      BY <3>5
    <3> QED  BY <2>2, <3>6, <3>7, <3>8 DEF Rising
  <2>4. CASE b > e
    <3>1. e \in 0..15 /\ b \in (e + 1)..16 /\ e + 1 \in 0..16
      BY <1>4, <2>4
    <3>2. PICK K \in Nat : p = 2^(e + 1) * K
      BY <2>2, <3>1, PowerTimes
    <3>3. PICK q \in Nat \ {0} : q = 2^(e + 1)
      BY <3>1, PowerNat
    <3>4. PICK c \in Nat, d \in 0..(p - 1) : v + 1 = c * p + d
      <4>1. p > 0 /\ v + 1 \in Nat
        OBVIOUS
      <4> QED  BY <4>1, DivMod
    <3>5. d # 0
      <4>1. SUFFICES ASSUME d = 0 PROVE FALSE
        OBVIOUS
      <4>2. c * p \in Nat /\ c * p = (c * K) * q /\ c * K \in Nat
        BY <3>2, <3>3
      <4>3. v + 1 = (c * K) * q
        BY <3>4, <4>1, <4>2
      <4>4. (v + 1) % q = 0
        <5>1. q > 0
          OBVIOUS
        <5> QED  BY <4>2, <4>3, <5>1, DivCancels
      <4> QED  BY <1>4, <3>3, <4>4
    <3>6. (v + 1) \div p = c
      BY <3>4, QuotientOf
    <3>7. v \div p = c
      <4>1. c * p \in Nat /\ d - 1 \in 0..(p - 1)
        BY <3>5
      <4>2. v = c * p + (d - 1)
        BY <3>4, <4>1
      <4> QED  BY <4>1, <4>2, QuotientOf
    <3> QED  BY <2>2, <3>6, <3>7 DEF Rising
  <2> QED  BY <1>4, <2>3, <2>4
<1> QED  BY <1>4, <1>5

(* ... and so does going round from the last number to 0.                  *)
LEMMA RisingRound ==
  ASSUME NEW n \in 1..16, NEW b \in (0..(n - 1)) \ {n - 1}
  PROVE  ~Rising(2^n - 1, b) /\ ~Rising(0, b)
<1>1. b \in 0..16 /\ b \in 0..15 /\ b + 1 \in 0..15 /\ n \in (b + 1 + 1)..16
  OBVIOUS
<1>2. PICK p \in Nat \ {0} : p = 2^b
  BY <1>1, PowerNat
<1>3. 2^(b + 1) = 2 * p /\ 2^(b + 1 + 1) = 2 * 2^(b + 1)
  BY <1>1, <1>2, PowerNext
<1>4. PICK K \in Nat : 2^n = 2^(b + 1 + 1) * K
  BY <1>1, PowerTimes
<1>5. 2^n = (4 * K) * p
  <2>1. 2^n = (4 * p) * K
    BY <1>3, <1>4
  <2> QED  BY <2>1
<1>6. K > 0
  <2>1. n \in 0..16
    OBVIOUS
  <2>2. 2^n # 0
    BY <2>1, PowerNat
  <2>3. (4 * 0) * p = 0
    OBVIOUS
  <2> QED  BY <1>5, <2>2, <2>3
<1>7. (2^n - 1) \div p = 4 * K - 1
  <2>1. (4 * K) * p = (4 * K - 1) * p + p
    OBVIOUS
  <2>2. 4 * K - 1 \in Nat /\ p - 1 \in 0..(p - 1) /\ p > 0
    BY <1>6
  <2>3. (4 * K - 1) * p \in Nat
    BY <2>2
  <2>4. 2^n - 1 = (4 * K - 1) * p + (p - 1)
    BY <1>5, <2>1, <2>3
  <2> QED  BY <2>2, <2>4, QuotientOf
<1>8. 0 \div p = 0
  <2>1. 0 = 0 * p + 0 /\ 0 \in 0..(p - 1)
    OBVIOUS
  <2> QED  BY <2>1, QuotientOf
<1>9. (4 * K - 1) % 4 = 3 /\ 0 % 4 = 0
  BY <1>6
<1> QED  BY <1>2, <1>7, <1>8, <1>9 DEF Rising

(* The words of two neighbouring numbers, the last and 0 among them, have  *)
(* Gray codes that differ in one bit.                                      *)
LEMMA GrayNeighbours ==
  ASSUME NEW n \in 1..16, NEW u \in 0..(2^n - 1), NEW v \in 0..(2^n - 1),
         v = u + 1 \/ (u = 2^n - 1 /\ v = 0)
  PROVE  \E e \in 0..(n - 1) : Xor(GrayEncode(Bits(u), n), GrayEncode(Bits(v), n)) \subseteq {e}
<1>1. n \in 0..16
  OBVIOUS
<1>2. PICK N \in Nat \ {0} : N = 2^n
  BY <1>1, PowerNat
<1>3. u \in Nat /\ v \in Nat /\ u < 2^n /\ v < 2^n
  BY <1>2
<1>4. \E e \in 0..(n - 1) : \A b \in (0..(n - 1)) \ {e} : Rising(u, b) <=> Rising(v, b)
  <2>1. CASE v = u + 1
    BY <1>3, <2>1, RisingNext
  <2>2. CASE u = 2^n - 1 /\ v = 0
    <3>1. n - 1 \in 0..(n - 1)
      OBVIOUS
    <3> QED  BY <2>2, <3>1, RisingRound
  <2> QED  BY <2>1, <2>2
<1>5. PICK e \in 0..(n - 1) : \A b \in (0..(n - 1)) \ {e} : Rising(u, b) <=> Rising(v, b)
  BY <1>4
<1>6. ASSUME NEW b \in 0..(n - 1)
      PROVE  /\ b \in GrayEncode(Bits(u), n) <=> Rising(u, b)
             /\ b \in GrayEncode(Bits(v), n) <=> Rising(v, b)
  BY <1>1, <1>3, GrayBits
<1>7. ASSUME NEW w PROVE GrayEncode(w, n) \subseteq 0..(n - 1)
  BY DEF GrayEncode
<1> QED  BY <1>5, <1>6, <1>7 DEF Xor

-----------------------------------------------------------------------------
LEMMA NegativeRemainder ==
  ASSUME NEW N \in Nat, NEW x \in 1..(N - 1)
  PROVE  (0 - x) % N = N - x
BY SMTT(30)

(* Numbers a remainder of 1 or N - 1 apart are neighbours on the circle.   *)
LEMMA Neighbours ==
  ASSUME NEW N \in Nat, N > 1, NEW a \in 0..(N - 1), NEW b \in 0..(N - 1),
         (a - b) % N \in {1, N - 1}
  PROVE  \/ a = b + 1 \/ b = a + 1
         \/ a = N - 1 /\ b = 0
         \/ a = 0 /\ b = N - 1
<1>1. CASE a >= b
  <2>1. a - b = 0 * N + (a - b) /\ a - b \in 0..(N - 1)
    BY <1>1
  <2>2. (a - b) % N = a - b
    BY <2>1, RemainderOf
  <2> QED  BY <2>2
<1>2. CASE a < b
  <2>1. PICK x \in 1..(N - 1) : x = b - a
    BY <1>2
  <2>2. a - b = 0 - x
    BY <2>1
  <2>3. (a - b) % N = N - x
    BY <2>2, NegativeRemainder
  <2> QED  BY <2>1, <2>3
<1> QED  BY <1>1, <1>2

(* A symbol that arrives in the next bin has one wrong bit, or none if     *)
(* only every fourth bin is used.                                          *)
LEMMA NextBin ==
  ASSUME NEW rows \in {SF - 2, SF}, NEW x \in SUBSET (0..(rows - 1)), NEW up \in BOOLEAN,
         NEW bin \in Bins,
         (bin - SymbolMod(GrayDecode(x, rows), rows)) % 2^SF \in {1, 2^SF - 1}
  PROVE  LET got == GrayEncode(SymbolDemod(bin, rows, up), rows)
         IN  /\ \E e \in 0..(rows - 1) : Xor(got, x) \subseteq {e}
             /\ rows # SF => got = x
<1> DEFINE y == GrayDecode(x, rows)
           got == GrayEncode(SymbolDemod(bin, rows, up), rows)
<1>1. rows \in 0..16 /\ rows \in 1..16
  BY SFAssumption
<1>2. PICK R \in Nat \ {0}, s \in {1, 4} :
        /\ 2^rows = R /\ 2^(SF - rows) = s /\ 2^SF = R * s
        /\ rows = SF <=> s = 1
  BY StepOf
<1>3. y \in SUBSET (0..(rows - 1))
  BY <1>1, GrayDecodeFits
<1>4. x = GrayEncode(y, rows)
  BY <1>1, GrayInverts
<1> HIDE DEF y
<1>5. PICK V \in Nat : V = Value(y) /\ V < R
  BY <1>1, <1>2, <1>3, ValueBelow
<1>6. y = Bits(V)
  <2>1. y \in SUBSET WordBits
    BY <1>1, <1>3 DEF WordBits
  <2> QED  BY <1>5, <2>1, BitsOfValue
<1>7. PICK N \in Nat : N = R * s /\ N > 1
  <2>1. R >= 2
    <3>1. IsPower(rows, R)
      BY <1>1, <1>2, PowerTable
    <3> QED  BY <1>1, <1>2, <3>1 DEF IsPower
  <2> QED  BY <1>2, <2>1
<1>8. bin \in 0..(N - 1) /\ V * s \in 0..(N - 1)
  BY <1>2, <1>5, <1>7 DEF Bins
<1>9. (bin - V * s) % N \in {1, N - 1}
  BY <1>2, <1>5, <1>7 DEF SymbolMod, y
<1>10. \/ bin = V * s + 1 \/ V * s = bin + 1
       \/ bin = N - 1 /\ V * s = 0
       \/ bin = 0 /\ V * s = N - 1
  BY <1>7, <1>8, <1>9, Neighbours
<1>11. PICK e \in {0, 1} : e = IF up THEN 0 ELSE 1
  OBVIOUS
<1>12. SymbolDemod(bin, rows, up) = Bits(((2 * bin + s - e) \div (2 * s)) % R)
  BY <1>2, <1>11 DEF SymbolDemod
<1>13. ASSUME NEW W \in 0..(R - 1) PROVE W % R = W
  <2>1. W = 0 * R + W
    OBVIOUS
  <2> QED  BY <1>2, <2>1, RemainderOf
<1>14. CASE s = 1
  <2>1. N = R /\ V * s = V
    BY <1>2, <1>5, <1>7, <1>14
  <2>2. (2 * bin + s - e) \div (2 * s) = bin
    BY <1>8, <1>11, <1>14
  <2>3. got = GrayEncode(Bits(bin), rows)
    BY <1>8, <1>12, <1>13, <2>1, <2>2
  <2>4. bin \in 0..(2^rows - 1) /\ V \in 0..(2^rows - 1)
    BY <1>2, <1>5, <1>8, <2>1
  <2>5. \/ bin = V + 1 \/ (V = 2^rows - 1 /\ bin = 0)
        \/ V = bin + 1 \/ (bin = 2^rows - 1 /\ V = 0)
    BY <1>2, <1>10, <2>1
  <2>6. x = GrayEncode(Bits(V), rows)
    BY <1>4, <1>6
  <2>7. \E k \in 0..(rows - 1) : Xor(got, x) \subseteq {k}
    <3>1. CASE bin = V + 1 \/ (V = 2^rows - 1 /\ bin = 0)
      <4>1. PICK k \in 0..(rows - 1) : Xor(x, got) \subseteq {k}
        BY <1>1, <2>3, <2>4, <2>6, <3>1, GrayNeighbours
      <4> QED  BY <4>1 DEF Xor
    <3>2. CASE V = bin + 1 \/ (bin = 2^rows - 1 /\ V = 0)
      BY <1>1, <2>3, <2>4, <2>6, <3>2, GrayNeighbours
    <3> QED  BY <2>5, <3>1, <3>2
  <2> QED  BY <1>2, <1>14, <2>7
<1>15. CASE s = 4
  <2>1. PICK Q : Q = (2 * bin + s - e) \div (2 * s)
    OBVIOUS
  <2>2. N = 4 * R /\ V * s = 4 * V
    BY <1>2, <1>5, <1>7, <1>15
  <2>3. Q = V \/ (Q = R /\ V = 0)
    BY <1>2, <1>5, <1>8, <1>10, <1>11, <1>15, <2>1, <2>2
  <2>4. Q % R = V
    <3>1. V % R = V
      BY <1>2, <1>5, <1>13
    <3>2. R % R = 0
      <4>1. R = 1 * R
        BY <1>2
      <4>2. (1 * R) % R = 0
        BY <1>2, DivCancels
      <4> QED  BY <4>1, <4>2
    <3> QED  BY <2>3, <3>1, <3>2
  <2>5. got = GrayEncode(Bits(V), rows)
    BY <1>12, <2>1, <2>4
  <2>6. got = x
    BY <1>4, <1>6, <2>5
  <2>7. Xor(got, x) \subseteq {0} /\ 0 \in 0..(rows - 1)
    BY <1>1, <2>6 DEF Xor
  <2> QED  BY <2>6, <2>7
<1> QED  BY <1>14, <1>15

(* Wrong symbols in one column make wrong bits in that column ...          *)
LEMMA ColumnErrors ==
  ASSUME NEW rows \in Nat, rows > 0, NEW n \in Nat,
         NEW words \in [0..(rows - 1) -> SUBSET (0..(n - 1))],
         NEW got, DOMAIN got = 0..(n - 1), NEW k,
         \A j \in 0..(n - 1) : j # k => got[j] = Interleave(words, rows, n)[j],
         NEW r \in 0..(rows - 1)
  PROVE  Xor(Deinterleave(got, rows, n)[r], words[r]) \subseteq {k}
<1> DEFINE sym == Interleave(words, rows, n)
           row(m, j) == \E b \in m[j] : b < rows /\ (j + b) % rows = r
<1>1. Deinterleave(sym, rows, n)[r] = words[r]
  BY DeinterleaveInverts
<1>2. ASSUME NEW m PROVE Deinterleave(m, rows, n)[r] = {j \in 0..(n - 1) : row(m, j)}
  BY DEF Deinterleave
<1>3. ASSUME NEW j \in 0..(n - 1), j # k PROVE got[j] = sym[j]
  BY <1>3
<1> HIDE DEF sym
<1>4. ASSUME NEW j \in 0..(n - 1), j # k PROVE row(got, j) <=> row(sym, j)
  BY <1>3, <1>4
<1> HIDE DEF row
<1>5. words[r] = {j \in 0..(n - 1) : row(sym, j)}
  BY <1>1, <1>2
<1> QED  BY <1>2, <1>4, <1>5 DEF Xor

(* ... and in one row only if the symbol has one wrong bit.                *)
OneBitWrong(got, sym, n, k, e) ==
  /\ \A j \in 0..(n - 1) : j # k => got[j] = sym[j]
  /\ Xor(got[k], sym[k]) \subseteq {e}

RowOf(k, e, rows) == (k + e) % rows

LEMMA RowErrors ==
  ASSUME NEW rows \in Nat, rows > 0, NEW n \in Nat,
         NEW words \in [0..(rows - 1) -> SUBSET (0..(n - 1))],
         NEW got, DOMAIN got = 0..(n - 1), NEW k \in 0..(n - 1), NEW e \in Nat,
         OneBitWrong(got, Interleave(words, rows, n), n, k, e),
         NEW r \in 0..(rows - 1), r # RowOf(k, e, rows)
  PROVE  Deinterleave(got, rows, n)[r] = words[r]
<1> DEFINE sym == Interleave(words, rows, n)
           row(m, j) == \E b \in m[j] : b < rows /\ (j + b) % rows = r
<1>1. Deinterleave(sym, rows, n)[r] = words[r]
  BY DeinterleaveInverts
<1>2. ASSUME NEW m PROVE Deinterleave(m, rows, n)[r] = {j \in 0..(n - 1) : row(m, j)}
  BY DEF Deinterleave
<1>3. ASSUME NEW j \in 0..(n - 1), j # k PROVE got[j] = sym[j]
  BY <1>3 DEF OneBitWrong
<1>4. ASSUME NEW b, b # e PROVE b \in got[k] <=> b \in sym[k]
  BY <1>4 DEF Xor, OneBitWrong
<1> HIDE DEF sym
<1>5. ASSUME NEW j \in 0..(n - 1) PROVE row(got, j) <=> row(sym, j)
  <2>1. CASE j # k
    BY <1>3, <2>1
  <2>2. CASE j = k
    BY <1>4, <2>2 DEF RowOf
  <2> QED  BY <2>1, <2>2
<1> HIDE DEF row
<1>6. {j \in 0..(n - 1) : row(got, j)} = {j \in 0..(n - 1) : row(sym, j)}
  BY <1>5
<1> QED  BY <1>1, <1>2, <1>6

-----------------------------------------------------------------------------
(* What is sent, in each of its representations.                           *)
SentWords == [r \in Rows |-> SentWord(r)]
SentSymbols == Interleave(SentWords, sent.rows, codeLength)
SentBin(k) == SymbolMod(GrayDecode(SentSymbols[k], sent.rows), sent.rows)

(* On the air at most one symbol is not the one sent, and struck says by   *)
(* how much.                                                               *)
OnAir ==
  /\ item \in [0..(codeLength - 1) -> Bins]
  /\ struck = <<>> => \A k \in 0..(codeLength - 1) : item[k] = SentBin(k)
  /\ struck # <<>> =>
       /\ struck[1] \in 0..(codeLength - 1)
       /\ struck[2] = (item[struck[1]] - SentBin(struck[1])) % 2^SF
       /\ \A k \in 0..(codeLength - 1) : k # struck[1] => item[k] = SentBin(k)

(* The codewords that arrive are wrong in one column only, and in one row  *)
(* at most if the symbol came in a neighbouring bin.                       *)
Arrived ==
  /\ item \in WordBlocks
  /\ struck = <<>> => item = SentWords
  /\ struck # <<>> =>
       /\ \A r \in Rows : Xor(item[r], SentWord(r)) \subseteq {struck[1]}
       /\ struck[2] \in {1, 2^SF - 1} =>
            \E q \in Rows : /\ \A r \in Rows \ {q} : item[r] = SentWord(r)
                            /\ sent.rows # SF => item[q] = SentWord(q)

Decoded ==
  /\ item \in NibbleBlocks
  /\ struck = <<>> => item = sent.nibbles
  /\ struck # <<>> => \A r \in Rows : Xor(item[r], sent.nibbles[r]) \subseteq {struck[1]}

BlockInv ==
  /\ sent \in Blocks
  /\ stage \in {"nibbles", "sentWords", "air", "gotWords", "received"}
  /\ stage = "nibbles" => item = sent.nibbles /\ struck = <<>>
  /\ stage = "sentWords" => item = SentWords /\ struck = <<>>
  /\ stage = "air" => OnAir
  /\ stage = "gotWords" => Arrived
  /\ stage = "received" => Decoded

(* The block at hand, as the proofs below need it.                         *)
LEMMA SentTypes ==
  ASSUME sent \in Blocks
  PROVE  /\ sent.rows \in {SF - 2, SF} /\ sent.rows \in Nat /\ sent.rows > 0
         /\ sent.rows \in 0..16
         /\ sent.CR \in 0..4 /\ codeLength \in 4..8
         /\ sent.nibbles \in NibbleBlocks
         /\ SentWords \in WordBlocks
         /\ \A r \in Rows : SentWord(r) \intersect 0..3 = sent.nibbles[r]
<1>1. /\ sent.rows \in {SF - 2, SF} /\ sent.rows \in Nat /\ sent.rows > 0
      /\ sent.rows \in 0..16 /\ sent.CR \in 0..4
      /\ sent.nibbles \in [Rows -> SUBSET (0..3)]
  BY BlockTypes DEF Rows
<1>2. codeLength \in 4..8
  BY <1>1 DEF codeLength
<1>3. ASSUME NEW r \in Rows
      PROVE  /\ SentWord(r) \in SUBSET (0..(codeLength - 1))
             /\ SentWord(r) \intersect 0..3 = sent.nibbles[r]
  <2>1. PICK w \in SUBSET (0..3) : w = sent.nibbles[r]
    BY <1>1
  <2>2. PICK c \in 0..4 : c = sent.CR
    BY <1>1
  <2>3. /\ CalculatePairity(w, c) \in SUBSET (0..(c + 4 - 1))
        /\ CalculatePairity(w, c) \intersect 0..3 = w
    BY EncodeFits
  <2> QED  BY <2>1, <2>2, <2>3 DEF SentWord, codeLength
<1>4. SentWords \in WordBlocks
  BY <1>3 DEF SentWords, WordBlocks
<1> QED  BY <1>1, <1>2, <1>3, <1>4 DEF NibbleBlocks

LEMMA SentSymbolTypes ==
  ASSUME sent \in Blocks, NEW k \in 0..(codeLength - 1)
  PROVE  /\ DOMAIN SentSymbols = 0..(codeLength - 1)
         /\ SentSymbols[k] \in SUBSET (0..(sent.rows - 1))
         /\ GrayDecode(SentSymbols[k], sent.rows) \in SUBSET (0..(sent.rows - 1))
         /\ SentBin(k) \in Bins
<1>1. codeLength \in Nat /\ sent.rows \in Nat /\ sent.rows \in 0..16 /\ sent.rows \in {SF - 2, SF}
  BY SentTypes
<1>2. DOMAIN SentSymbols = 0..(codeLength - 1) /\ SentSymbols[k] \in SUBSET (0..(sent.rows - 1))
  BY <1>1, InterleaveFits DEF SentSymbols
<1>3. GrayDecode(SentSymbols[k], sent.rows) \in SUBSET (0..(sent.rows - 1))
  BY <1>1, <1>2, GrayDecodeFits
<1>4. SentBin(k) \in Bins
  BY <1>1, <1>3, SymbolFits DEF SentBin
<1> QED  BY <1>2, <1>3, <1>4

LEMMA BlockInit ==
  ASSUME Init
  PROVE  BlockInv
BY DEF Init, BlockInv

LEMMA EncodeStep ==
  ASSUME BlockInv, EncodeBlock
  PROVE  BlockInv'
<1>1. sent \in Blocks /\ item = sent.nibbles /\ struck = <<>>
  BY DEF BlockInv, EncodeBlock, Becomes
<1>2. item' = SentWords /\ sent' = sent /\ struck' = struck /\ stage' = "sentWords"
  BY <1>1 DEF EncodeBlock, Becomes, SentWords, SentWord
<1>3. SentWords' = SentWords
  BY <1>2 DEF SentWords, SentWord, Rows
<1> QED  BY <1>1, <1>2, <1>3 DEF BlockInv

LEMMA TransmitStep ==
  ASSUME BlockInv, Transmit
  PROVE  BlockInv'
<1>1. sent \in Blocks /\ item = SentWords /\ struck = <<>>
  BY DEF BlockInv, Transmit, Becomes
<1>2. /\ item' = [k \in DOMAIN SentSymbols |-> SentBin(k)]
      /\ sent' = sent /\ struck' = <<>> /\ stage' = "air"
  BY <1>1 DEF Transmit, Becomes, SentSymbols, SentBin
<1>3. DOMAIN SentSymbols = 0..(codeLength - 1)
      /\ \A k \in 0..(codeLength - 1) : SentBin(k) \in Bins
  <2>1. 0 \in 0..(codeLength - 1)
    BY <1>1, SentTypes
  <2> QED  BY <1>1, <2>1, SentSymbolTypes
<1>4. codeLength' = codeLength /\ \A k : SentBin(k)' = SentBin(k)
  BY <1>2 DEF SentBin, SentSymbols, SentWords, SentWord, Rows, codeLength
<1>5. item' \in [0..(codeLength - 1) -> Bins] /\ \A k \in 0..(codeLength - 1) : item'[k] = SentBin(k)
  BY <1>2, <1>3
<1>6. OnAir'
  BY <1>2, <1>4, <1>5 DEF OnAir, Bins
<1> QED  BY <1>1, <1>2, <1>6 DEF BlockInv

LEMMA StrikeStep ==
  ASSUME BlockInv, Strike
  PROVE  BlockInv'
<1>1. sent \in Blocks /\ OnAir /\ struck = <<>>
  BY DEF BlockInv, Strike
<1>2. PICK k \in DOMAIN item, bin \in Bins :
        /\ item' = [item EXCEPT ![k] = bin]
        /\ struck' = <<k, (bin - item[k]) % 2^SF>>
        /\ sent' = sent /\ stage' = "air"
  BY DEF Strike
<1>3. codeLength' = codeLength /\ \A j : SentBin(j)' = SentBin(j)
  BY <1>2 DEF SentBin, SentSymbols, SentWords, SentWord, Rows, codeLength
<1>4. /\ item \in [0..(codeLength - 1) -> Bins]
      /\ \A j \in 0..(codeLength - 1) : item[j] = SentBin(j)
  BY <1>1 DEF OnAir
<1>5. k \in 0..(codeLength - 1)
  BY <1>4
<1>6. /\ item' \in [0..(codeLength - 1) -> Bins] /\ item'[k] = bin
      /\ \A j \in 0..(codeLength - 1) : j # k => item'[j] = SentBin(j)
  BY <1>2, <1>4, <1>5
<1>7. struck'[1] = k /\ struck'[2] = (item'[k] - SentBin(k)) % 2^SF /\ struck' # <<>>
  BY <1>2, <1>4, <1>5, <1>6
<1>8. OnAir'
  BY <1>3, <1>5, <1>6, <1>7 DEF OnAir, Bins
<1> QED  BY <1>1, <1>2, <1>8 DEF BlockInv

LEMMA ReceiveStep ==
  ASSUME BlockInv, Receive
  PROVE  BlockInv'
<1>1. sent \in Blocks /\ OnAir
  BY DEF BlockInv, Receive, Becomes
<1> DEFINE read(up) == [k \in DOMAIN item |->
                          GrayEncode(SymbolDemod(item[k], sent.rows, up), sent.rows)]
           got(up) == Deinterleave(read(up), sent.rows, codeLength)
<1>2. PICK up \in BOOLEAN : item' = got(up)
  BY DEF Receive, Becomes
<1>3. sent' = sent /\ struck' = struck /\ stage' = "gotWords"
  BY DEF Receive, Becomes
<1>4. DOMAIN item = 0..(codeLength - 1) /\ \A k \in 0..(codeLength - 1) : item[k] \in Bins
  BY <1>1 DEF OnAir
<1>5. /\ sent.rows \in {SF - 2, SF} /\ sent.rows \in Nat /\ sent.rows > 0 /\ sent.rows \in 0..16
      /\ codeLength \in 4..8 /\ codeLength \in Nat
      /\ SentWords \in [0..(sent.rows - 1) -> SUBSET (0..(codeLength - 1))]
  BY <1>1, SentTypes DEF WordBlocks, Rows
<1>6. ASSUME NEW k \in 0..(codeLength - 1), item[k] = SentBin(k)
      PROVE  read(up)[k] = SentSymbols[k]
  <2>1. PICK x \in SUBSET (0..(sent.rows - 1)) : x = SentSymbols[k]
    BY <1>1, SentSymbolTypes
  <2>2. GrayDecode(x, sent.rows) \in SUBSET (0..(sent.rows - 1))
    BY <1>5, GrayDecodeFits
  <2>3. SymbolDemod(item[k], sent.rows, up) = GrayDecode(x, sent.rows)
    BY <1>5, <1>6, <2>1, <2>2, DemodInverts DEF SentBin
  <2>4. read(up)[k] = GrayEncode(GrayDecode(x, sent.rows), sent.rows)
    BY <1>4, <2>3
  <2>5. GrayEncode(GrayDecode(x, sent.rows), sent.rows) = x
    BY <1>5, GrayInverts
  <2> QED  BY <2>1, <2>4, <2>5
<1>7. DOMAIN read(up) = 0..(codeLength - 1)
  BY <1>4
<1>8. ASSUME NEW k \in 0..(codeLength - 1),
             (item[k] - SentBin(k)) % 2^SF \in {1, 2^SF - 1}
      PROVE  /\ \E e \in 0..(sent.rows - 1) : Xor(read(up)[k], SentSymbols[k]) \subseteq {e}
             /\ sent.rows # SF => read(up)[k] = SentSymbols[k]
  <2>1. PICK x \in SUBSET (0..(sent.rows - 1)) : x = SentSymbols[k]
    BY <1>1, SentSymbolTypes
  <2>2. PICK bin \in Bins : bin = item[k]
    BY <1>4
  <2>3. read(up)[k] = GrayEncode(SymbolDemod(bin, sent.rows, up), sent.rows)
    BY <1>4, <2>2
  <2>4. (bin - SymbolMod(GrayDecode(x, sent.rows), sent.rows)) % 2^SF \in {1, 2^SF - 1}
    BY <1>8, <2>1, <2>2 DEF SentBin
  <2> HIDE DEF read
  <2> QED  BY <1>5, <2>1, <2>3, <2>4, NextBin
<1> HIDE DEF read
<1>9. item' \in WordBlocks
  BY <1>2 DEF WordBlocks, Deinterleave, Rows
<1>10. CASE struck = <<>>
  <2>1. read(up) = SentSymbols
    <3>1. \A k \in 0..(codeLength - 1) : read(up)[k] = SentSymbols[k]
      BY <1>1, <1>6, <1>10 DEF OnAir
    <3>2. DOMAIN SentSymbols = 0..(codeLength - 1)
      <4>1. 0 \in 0..(codeLength - 1)
        BY <1>5
      <4> QED  BY <1>1, <4>1, SentSymbolTypes
    <3>3. /\ read(up) = [k \in 0..(codeLength - 1) |-> read(up)[k]]
          /\ SentSymbols = [k \in 0..(codeLength - 1) |-> SentSymbols[k]]
      BY <1>7, <3>2 DEF read, SentSymbols, Interleave
    <3> QED  BY <3>1, <3>3
  <2>2. item' = SentWords
    BY <1>2, <1>5, <2>1, DeinterleaveInverts DEF SentSymbols
  <2>3. SentWords' = SentWords
    BY <1>3 DEF SentWords, SentWord, Rows
  <2>4. WordBlocks' = WordBlocks
    BY <1>3 DEF WordBlocks, Rows, codeLength
  <2>5. Arrived'
    BY <1>3, <1>9, <1>10, <2>2, <2>3, <2>4 DEF Arrived
  <2> QED  BY <1>1, <1>3, <2>5 DEF BlockInv
<1>11. CASE struck # <<>>
  <2>1. PICK k \in 0..(codeLength - 1) :
          /\ k = struck[1] /\ struck[2] = (item[k] - SentBin(k)) % 2^SF
          /\ \A j \in 0..(codeLength - 1) : j # k => item[j] = SentBin(j)
    BY <1>1, <1>11 DEF OnAir
  <2>2. \A j \in 0..(codeLength - 1) :
           j # k => read(up)[j] = Interleave(SentWords, sent.rows, codeLength)[j]
    BY <1>6, <2>1 DEF SentSymbols
  <2>3. ASSUME NEW r \in Rows
        PROVE  Xor(item'[r], SentWord(r)) \subseteq {k}
    <3>1. r \in 0..(sent.rows - 1) /\ SentWords[r] = SentWord(r)
      BY DEF Rows, SentWords
    <3>2. Xor(Deinterleave(read(up), sent.rows, codeLength)[r], SentWords[r]) \subseteq {k}
      BY <1>5, <1>7, <2>2, <3>1, ColumnErrors
    <3> QED  BY <1>2, <3>1, <3>2
  <2>4. ASSUME struck[2] \in {1, 2^SF - 1}
        PROVE  \E q \in Rows : /\ \A r \in Rows \ {q} : item'[r] = SentWord(r)
                               /\ sent.rows # SF => item'[q] = SentWord(q)
    <3>1. PICK e \in 0..(sent.rows - 1) : Xor(read(up)[k], SentSymbols[k]) \subseteq {e}
      BY <1>8, <2>1, <2>4
    <3>2. PICK q \in Rows : q = (k + e) % sent.rows
      <4>1. k + e \in Nat
        BY <1>5, <2>1, <3>1
      <4>2. (k + e) % sent.rows \in 0..(sent.rows - 1)
        BY <1>5, <4>1, DivMod
      <4> QED  BY <4>2 DEF Rows
    <3>3. ASSUME NEW r \in Rows \ {q} PROVE item'[r] = SentWord(r)
      <4>1. r \in 0..(sent.rows - 1) /\ r # RowOf(k, e, sent.rows) /\ SentWords[r] = SentWord(r)
        BY <3>2 DEF Rows, SentWords, RowOf
      <4>2. Xor(read(up)[k], Interleave(SentWords, sent.rows, codeLength)[k]) \subseteq {e}
        BY <3>1 DEF SentSymbols
      <4>3. PICK m, S, g, w :
              /\ m \in Nat /\ S \in Nat
              /\ m = codeLength /\ S = sent.rows /\ g = read(up) /\ w = SentWords
        BY <1>5
      <4>4. /\ S \in Nat /\ S > 0 /\ m \in Nat /\ k \in 0..(m - 1) /\ r \in 0..(S - 1)
            /\ w \in [0..(S - 1) -> SUBSET (0..(m - 1))] /\ DOMAIN g = 0..(m - 1)
            /\ r # RowOf(k, e, S) /\ e \in Nat
        BY <1>5, <1>7, <4>1, <4>3
      <4>5. OneBitWrong(g, Interleave(w, S, m), m, k, e)
        BY <2>2, <4>2, <4>3 DEF OneBitWrong
      <4>6. PICK j \in 0..(m - 1), i \in 0..(S - 1) : j = k /\ i = r
        BY <4>4
      <4>7. OneBitWrong(g, Interleave(w, S, m), m, j, e) /\ i # RowOf(j, e, S)
        BY <4>4, <4>5, <4>6
      <4>8. Deinterleave(g, S, m)[i] = w[i]
        BY <4>4, <4>7, RowErrors
      <4> QED  BY <1>2, <4>1, <4>3, <4>6, <4>8
    <3>4. ASSUME sent.rows # SF PROVE item'[q] = SentWord(q)
      <4>1. read(up)[k] = SentSymbols[k]
        BY <1>8, <2>1, <2>4, <3>4
      <4>2. q \in 0..(sent.rows - 1) /\ SentWords[q] = SentWord(q)
        BY DEF Rows, SentWords
      <4>3. \A j \in 0..(codeLength - 1) :
               j # codeLength => read(up)[j] = Interleave(SentWords, sent.rows, codeLength)[j]
        BY <2>2, <4>1 DEF SentSymbols
      <4>4. Xor(Deinterleave(read(up), sent.rows, codeLength)[q], SentWords[q]) \subseteq {codeLength}
        BY <1>5, <1>7, <4>2, <4>3, ColumnErrors
      <4>5. /\ Deinterleave(read(up), sent.rows, codeLength)[q] \subseteq 0..(codeLength - 1)
            /\ SentWords[q] \subseteq 0..(codeLength - 1)
        BY <1>5, <4>2 DEF Deinterleave
      <4>6. codeLength \notin 0..(codeLength - 1)
        BY <1>5
      <4>7. Deinterleave(read(up), sent.rows, codeLength)[q] = SentWords[q]
        BY <4>4, <4>5, <4>6 DEF Xor
      <4> QED  BY <1>2, <4>2, <4>7
    <3> QED  BY <3>3, <3>4
  <2>5. /\ WordBlocks' = WordBlocks /\ Rows' = Rows /\ sent'.rows = sent.rows
        /\ \A r : SentWord(r)' = SentWord(r)
    BY <1>3 DEF WordBlocks, Rows, codeLength, SentWord
  <2>6. Arrived'
    BY <1>3, <1>9, <1>11, <2>1, <2>3, <2>4, <2>5 DEF Arrived
  <2> QED  BY <1>1, <1>3, <2>6 DEF BlockInv
<1> QED  BY <1>10, <1>11

LEMMA DecodeStep ==
  ASSUME BlockInv, DecodeBlock
  PROVE  BlockInv'
<1>1. sent \in Blocks /\ Arrived
  BY DEF BlockInv, DecodeBlock, Becomes
<1>2. /\ item' = [r \in Rows |-> item[r] \intersect 0..3]
      /\ sent' = sent /\ struck' = struck /\ stage' = "received"
  BY DecodeLaw DEF DecodeBlock, Becomes
<1>3. /\ sent.nibbles \in [Rows -> SUBSET (0..3)]
      /\ \A r \in Rows : SentWord(r) \intersect 0..3 = sent.nibbles[r]
  BY <1>1, SentTypes DEF NibbleBlocks
<1>4. Rows' = Rows /\ NibbleBlocks' = NibbleBlocks
  BY <1>2 DEF Rows, NibbleBlocks
<1>5. item' \in NibbleBlocks
  BY <1>2 DEF NibbleBlocks
<1>6. struck = <<>> => item' = sent.nibbles
  <2>1. SUFFICES ASSUME struck = <<>> PROVE item' = sent.nibbles
    OBVIOUS
  <2>2. \A r \in Rows : item[r] = SentWord(r)
    BY <1>1, <2>1 DEF Arrived, SentWords
  <2> QED  BY <1>2, <1>3, <2>2
<1>7. ASSUME struck # <<>>, NEW r \in Rows
      PROVE  Xor(item'[r], sent.nibbles[r]) \subseteq {struck[1]}
  <2>1. Xor(item[r], SentWord(r)) \subseteq {struck[1]}
    BY <1>1, <1>7 DEF Arrived
  <2>2. item'[r] = item[r] \intersect 0..3 /\ sent.nibbles[r] = SentWord(r) \intersect 0..3
    BY <1>2, <1>3
  <2> QED  BY <2>1, <2>2 DEF Xor
<1>8. Decoded'
  BY <1>2, <1>4, <1>5, <1>6, <1>7 DEF Decoded
<1> QED  BY <1>1, <1>2, <1>8 DEF BlockInv

LEMMA BlockInvariant == Spec => []BlockInv
<1>1. BlockInv /\ [Next]_vars => BlockInv'
  <2>1. SUFFICES ASSUME BlockInv, [Next]_vars PROVE BlockInv'
    OBVIOUS
  <2>2. CASE UNCHANGED vars
    <3>1. sent' = sent /\ stage' = stage /\ item' = item /\ struck' = struck
      BY <2>2 DEF vars
    <3> QED  BY <2>1, <3>1 DEF BlockInv, OnAir, Arrived, Decoded, NibbleBlocks, WordBlocks,
                  SentBin, SentSymbols, SentWords, SentWord, Rows, codeLength, Bins, Blocks
  <2> QED  BY <2>1, <2>2, EncodeStep, TransmitStep, StrikeStep, ReceiveStep, DecodeStep DEF Next
<1> QED  BY <1>1, BlockInit, PTL DEF Spec

(* Whatever is sent and whatever symbol is struck, each representation has *)
(* the widths its consumer relies on.                                      *)
THEOREM BlocksTyped == Spec => []TypeOK
<1>1. BlockInv => TypeOK
  <2>1. SUFFICES ASSUME BlockInv PROVE TypeOK
    OBVIOUS
  <2>2. sent.nibbles \in NibbleBlocks /\ SentWords \in WordBlocks
    BY <2>1, SentTypes DEF BlockInv
  <2> QED  BY <2>1, <2>2 DEF BlockInv, OnAir, Arrived, Decoded, TypeOK
<1> QED  BY <1>1, BlockInvariant, PTL

(* For every spreading factor, code rate, header and payload, a block that *)
(* no symbol of is struck is received as it was sent.                      *)
THEOREM BlocksReturn == Spec => []RoundTrip
<1>1. BlockInv => RoundTrip
  BY DEF BlockInv, Decoded, RoundTrip
<1> QED  BY <1>1, BlockInvariant, PTL

-----------------------------------------------------------------------------
LEMMA SumZero ==
  ASSUME NEW S, IsFiniteSet(S), NEW h \in [S -> Nat], NEW f, SumFn(S, h, f),
         NEW T \in SUBSET S, \A x \in T : h[x] = 0
  PROVE  f[T] = 0
<1> DEFINE Good == {s \in SUBSET S : s \subseteq T => f[s] = 0}
<1>1. ASSUME NEW s \in SUBSET S, \A x \in s : s \ {x} \in Good
      PROVE  s \in Good
  <2>1. SUFFICES ASSUME s \subseteq T PROVE f[s] = 0
    OBVIOUS
  <2>2. CASE s = {}
    BY <2>2, SumLaws
  <2>3. CASE s # {}
    <3>1. PICK x \in s : TRUE
      BY <2>3
    <3>2. f[s] = h[x] + f[s \ {x}]
      BY <3>1, SumLaws
    <3>3. f[s \ {x}] = 0 /\ h[x] = 0
      BY <1>1, <2>1, <3>1
    <3> QED  BY <3>2, <3>3
  <2> QED  BY <2>2, <2>3
<1>2. SUBSET S \subseteq Good
  <2> HIDE DEF Good
  <2> QED  BY <1>1, SubsetInduction
<1> QED  BY <1>2

LEMMA SubsetOfOne ==
  ASSUME NEW s, NEW k, s \subseteq {k}
  PROVE  /\ Cardinality(s) \in {0, 1}
         /\ Cardinality(s) = 0 <=> s = {}
<1>1. Cardinality({}) = 0 /\ Cardinality({k}) = 1
  BY FS_EmptySet, FS_Singleton
<1>2. s = {} \/ s = {k}
  OBVIOUS
<1> QED  BY <1>1, <1>2

LEMMA SumOfErrors ==
  ASSUME NEW h \in [Rows -> Nat], IsFiniteSet(Rows),
         \A r \in Rows : h[r] = Cardinality(Xor(item[r], SentWord(r)))
  PROVE  \E f : /\ SumFn(Rows, h, f)
                /\ MapThenSumSet(LAMBDA r : Cardinality(Xor(item[r], SentWord(r))), Rows)
                     = f[Rows]
<1> DEFINE Rec(g) == g = [s \in SUBSET Rows |->
                            IF s = {} THEN 0
                            ELSE Cardinality(Xor(item[Chosen(s)], SentWord(Chosen(s))))
                                   + g[s \ {Chosen(s)}]]
           it == CHOOSE g : Rec(g)
<1>1. MapThenSumSet(LAMBDA r : Cardinality(Xor(item[r], SentWord(r))), Rows) = it[Rows]
  BY DEF MapThenSumSet, MapThenFoldSet, Chosen
<1>2. ASSUME NEW g PROVE Rec(g) <=> SumFn(Rows, h, g)
  <2>1. \A s \in SUBSET Rows : s # {} =>
           h[Chosen(s)] = Cardinality(Xor(item[Chosen(s)], SentWord(Chosen(s))))
    BY ChosenIn
  <2> QED  BY <2>1 DEF SumFn
<1>3. \E g : Rec(g)
  <2>1. \E g : SumFn(Rows, h, g)
    BY SumExists
  <2> HIDE DEF Rec
  <2> QED  BY <1>2, <2>1
<1>4. Rec(it)
  <2> HIDE DEF Rec
  <2> QED  BY <1>3
<1>5. SumFn(Rows, h, it)
  <2> HIDE DEF Rec, it
  <2> QED  BY <1>2, <1>4
<1> HIDE DEF it
<1> QED  BY <1>1, <1>5

(* For every spreading factor and code rate, one struck symbol costs a     *)
(* codeword at most one bit, and a symbol in the next bin costs the block  *)
(* at most one, none if it has SF - 2 rows.                                *)
THEOREM OneSymbolSpreads == Spec => []ErrorsSpread
<1>1. ASSUME BlockInv, stage = "gotWords" PROVE OneBitPerWord /\ NextBinIsCheap
  <2>1. Arrived /\ sent \in Blocks
    BY <1>1 DEF BlockInv
  <2>2. \E k : \A r \in Rows : Xor(item[r], SentWord(r)) \subseteq {k}
    <3>1. CASE struck = <<>>
      <4>1. ASSUME NEW r \in Rows PROVE Xor(item[r], SentWord(r)) \subseteq {0}
        BY <2>1, <3>1 DEF Arrived, SentWords, Xor
      <4> QED  BY <4>1
    <3>2. CASE struck # <<>>
      BY <2>1, <3>2 DEF Arrived
    <3> QED  BY <3>1, <3>2
  <2>3. PICK k : \A r \in Rows : Xor(item[r], SentWord(r)) \subseteq {k}
    BY <2>2
  <2>4. ASSUME NEW r \in Rows
        PROVE  /\ Cardinality(Xor(item[r], SentWord(r))) \in {0, 1}
               /\ item[r] = SentWord(r) => Cardinality(Xor(item[r], SentWord(r))) = 0
    <3>1. item[r] = SentWord(r) => Xor(item[r], SentWord(r)) = {}
      BY DEF Xor
    <3> QED  BY <2>3, <3>1, SubsetOfOne
  <2>5. OneBitPerWord
    BY <2>4 DEF OneBitPerWord
  <2>6. NextBinIsCheap
    <3>1. SUFFICES ASSUME struck # <<>>, struck[2] \in {1, 2^SF - 1}
          PROVE  MapThenSumSet(LAMBDA r : Cardinality(Xor(item[r], SentWord(r))), Rows)
                   <= (IF sent.rows = SF THEN 1 ELSE 0)
      BY DEF NextBinIsCheap
    <3>2. PICK q \in Rows : /\ \A r \in Rows \ {q} : item[r] = SentWord(r)
                            /\ sent.rows # SF => item[q] = SentWord(q)
      BY <2>1, <3>1 DEF Arrived
    <3> DEFINE h == [r \in Rows |-> Cardinality(Xor(item[r], SentWord(r)))]
    <3>3. h \in [Rows -> Nat] /\ \A r \in Rows : h[r] = Cardinality(Xor(item[r], SentWord(r)))
      BY <2>4
    <3>4. IsFiniteSet(Rows)
      <4>1. sent.rows - 1 \in Int
        BY <2>1, SentTypes
      <4> QED  BY <4>1, FS_Interval DEF Rows
    <3>5. h[q] \in {0, 1} /\ (sent.rows # SF => h[q] = 0) /\ \A r \in Rows \ {q} : h[r] = 0
      BY <2>4, <3>2
    <3> HIDE DEF h
    <3>6. PICK f : /\ SumFn(Rows, h, f)
                   /\ MapThenSumSet(LAMBDA r : Cardinality(Xor(item[r], SentWord(r))), Rows)
                        = f[Rows]
      BY <3>3, <3>4, SumOfErrors
    <3>7. f[Rows] = h[q] + f[Rows \ {q}]
      BY <3>3, <3>4, <3>6, SumLaws
    <3>8. f[Rows \ {q}] = 0
      BY <3>3, <3>4, <3>5, <3>6, SumZero
    <3>9. f[Rows] <= (IF sent.rows = SF THEN 1 ELSE 0)
      BY <3>5, <3>7, <3>8
    <3> QED  BY <3>6, <3>9
  <2> QED  BY <2>5, <2>6
<1>2. BlockInv => ErrorsSpread
  BY <1>1 DEF ErrorsSpread
<1> QED  BY <1>2, BlockInvariant, PTL

-----------------------------------------------------------------------------
(* Nibbles as numbers, bit by bit.                                         *)
BitOf(w, i, p) == IF i \in w THEN p ELSE 0

LEMMA NibbleValue ==
  ASSUME NEW w \in SUBSET (0..3)
  PROVE  Value(w) = BitOf(w, 0, 1) + BitOf(w, 1, 2) + BitOf(w, 2, 4) + BitOf(w, 3, 8)
<1> DEFINE w1 == w \ {0}
           w2 == w1 \ {1}
           w3 == w2 \ {2}
           w4 == w3 \ {3}
<1>1. w \in SUBSET WordBits
  BY DEF WordBits
<1>2. ASSUME NEW v \in SUBSET WordBits, NEW i
      PROVE  /\ Value(v) = BitOf(v, i, 2^i) + Value(v \ {i}) /\ Value(v \ {i}) \in Nat
             /\ v \ {i} \in SUBSET WordBits
  <2>1. v \ {i} \in SUBSET WordBits
    OBVIOUS
  <2>2. PICK u \in Nat : u = Value(v \ {i})
    BY <2>1, ValueLaws
  <2>3. CASE i \in v
    BY <2>1, <2>2, <2>3, ValueLaws DEF BitOf
  <2>4. CASE i \notin v
    <3>1. v \ {i} = v
      BY <2>4
    <3> QED  BY <2>1, <2>2, <2>4, <3>1 DEF BitOf
  <2> QED  BY <2>3, <2>4
<1>3. /\ Value(w) = BitOf(w, 0, 2^0) + Value(w1) /\ w1 \in SUBSET WordBits /\ Value(w1) \in Nat
  BY <1>1, <1>2
<1>4. /\ Value(w1) = BitOf(w1, 1, 2^1) + Value(w2) /\ w2 \in SUBSET WordBits /\ Value(w2) \in Nat
  BY <1>2, <1>3
<1>5. /\ Value(w2) = BitOf(w2, 2, 2^2) + Value(w3) /\ w3 \in SUBSET WordBits /\ Value(w3) \in Nat
  BY <1>2, <1>4
<1>6. Value(w3) = BitOf(w3, 3, 2^3) + Value(w4)
  BY <1>2, <1>5
<1>7. w4 = {}
  OBVIOUS
<1>8. Value(w4) = 0
  BY <1>7, ValueLaws
<1>9. /\ BitOf(w1, 1, 2) = BitOf(w, 1, 2) /\ BitOf(w2, 2, 4) = BitOf(w, 2, 4)
      /\ BitOf(w3, 3, 8) = BitOf(w, 3, 8)
  BY DEF BitOf
<1>10. /\ BitOf(w, 0, 1) \in Nat /\ BitOf(w, 1, 2) \in Nat
       /\ BitOf(w, 2, 4) \in Nat /\ BitOf(w, 3, 8) \in Nat
  BY DEF BitOf
<1> HIDE DEF w1, w2, w3, w4
<1> QED  BY <1>3, <1>4, <1>5, <1>6, <1>8, <1>9, <1>10, Powers

LEMMA NibbleReads ==
  ASSUME NEW v \in 0..15
  PROVE  Value(Bits(v)) = v /\ (0 \in Bits(v) <=> v % 2 = 1)
<1>1. PICK w \in SUBSET (0..3) : w = Bits(v)
  BY NibbleBits
<1>2. ASSUME NEW i \in 0..3, NEW p \in Nat, p = 2^i
      PROVE  i \in w <=> (v \div p) % 2 = 1
  BY <1>1, <1>2 DEF Bits
<1>3. /\ 0 \in w <=> (v \div 1) % 2 = 1
      /\ 1 \in w <=> (v \div 2) % 2 = 1
      /\ 2 \in w <=> (v \div 4) % 2 = 1
      /\ 3 \in w <=> (v \div 8) % 2 = 1
  <2>1. 1 = 2^0 /\ 2 = 2^1 /\ 4 = 2^2 /\ 8 = 2^3
    BY Powers
  <2> QED  BY <1>2, <2>1
<1>4. v = BitOf(w, 0, 1) + BitOf(w, 1, 2) + BitOf(w, 2, 4) + BitOf(w, 3, 8)
  BY <1>3 DEF BitOf
<1>5. Value(w) = v
  BY <1>4, NibbleValue
<1> QED  BY <1>1, <1>3, <1>5

(* The bits each checksum bit is the parity of.                            *)
Mask(m) == ChecksumMasks[m + 1]

LowBit(v, i) ==
  \/ i = 0 /\ (v \div 1) % 2 = 1
  \/ i = 1 /\ (v \div 2) % 2 = 1
  \/ i = 2 /\ (v \div 4) % 2 = 1
  \/ i = 3 /\ (v \div 8) % 2 = 1
  \/ i = 4 /\ (v \div 16) % 2 = 1
  \/ i = 5 /\ (v \div 32) % 2 = 1
  \/ i = 6 /\ (v \div 64) % 2 = 1
  \/ i = 7 /\ (v \div 128) % 2 = 1
  \/ i = 8 /\ (v \div 256) % 2 = 1
  \/ i = 9 /\ (v \div 512) % 2 = 1
  \/ i = 10 /\ (v \div 1024) % 2 = 1
  \/ i = 11 /\ (v \div 2048) % 2 = 1

LEMMA BitAt ==
  ASSUME NEW v \in Nat, NEW i \in WordBits
  PROVE  \E p : IsPower(i, p) /\ (i \in Bits(v) <=> (v \div p) % 2 = 1)
<1>1. i \in 0..16
  BY DEF WordBits
<1>2. PICK p : p = 2^i
  OBVIOUS
<1>3. IsPower(i, p)
  BY <1>1, <1>2, PowerTable
<1>4. i \in Bits(v) <=> (v \div p) % 2 = 1
  BY <1>2 DEF Bits, WordBits
<1> QED  BY <1>3, <1>4

LEMMA LowBits ==
  ASSUME NEW v \in Nat, v < 2^12, NEW i \in WordBits
  PROVE  i \in Bits(v) <=> LowBit(v, i)
<1>1. 12 \in 0..16
  OBVIOUS
<1>2. Bits(v) \in SUBSET (0..(12 - 1))
  BY <1>1, BitsBelow
<1>3. PICK p : IsPower(i, p) /\ (i \in Bits(v) <=> (v \div p) % 2 = 1)
  BY BitAt
<1>4. CASE i \in 0..11
  <2>1. i \in {0, 1, 2, 3, 4, 5, 6, 7, 8, 9, 10, 11}
    BY <1>4
  <2> QED  BY <1>3, <2>1 DEF IsPower, LowBit
<1>5. CASE i \notin 0..11
  BY <1>2, <1>5 DEF LowBit
<1> QED  BY <1>4, <1>5

HasLowBits(v, w) == w \subseteq 0..11 /\ \A i \in WordBits : i \in w <=> LowBit(v, i)

LEMMA LowMask ==
  ASSUME NEW v \in Nat, v < 2^12, NEW w, HasLowBits(v, w)
  PROVE  Bits(v) = w
<1>1. PICK u : u = Bits(v)
  OBVIOUS
<1>2. u \subseteq WordBits
  BY <1>1 DEF Bits, WordBits
<1>3. w \subseteq WordBits
  BY DEF HasLowBits, WordBits
<1>4. \A i \in WordBits : i \in u <=> i \in w
  BY <1>1, LowBits DEF HasLowBits
<1>5. ASSUME NEW i PROVE i \in u <=> i \in w
  <2>1. CASE i \in WordBits
    BY <1>4, <2>1
  <2>2. CASE i \notin WordBits
    BY <1>2, <1>3, <2>2
  <2> QED  BY <2>1, <2>2
<1>6. u = w
  BY <1>5
<1> QED  BY <1>1, <1>6

LEMMA Masks ==
  /\ Mask(0) = {0, 5, 8, 9, 10, 11}
  /\ Mask(1) = {1, 4, 6, 8, 9, 10}
  /\ Mask(2) = {2, 4, 7, 9, 11}
  /\ Mask(3) = {3, 5, 6, 7, 8}
  /\ Mask(4) = {0, 1, 2, 3}
<1>1. Bits(3873) = {0, 5, 8, 9, 10, 11}
  <2>1. ASSUME NEW i \in WordBits PROVE i \in {0, 5, 8, 9, 10, 11} <=> LowBit(3873, i)
    BY DEF LowBit, WordBits
  <2>2. HasLowBits(3873, {0, 5, 8, 9, 10, 11})
    BY <2>1 DEF HasLowBits
  <2>3. 3873 \in Nat /\ 3873 < 2^12
    BY Powers
  <2> QED  BY <2>2, <2>3, LowMask
<1>2. Bits(1874) = {1, 4, 6, 8, 9, 10}
  <2>1. ASSUME NEW i \in WordBits PROVE i \in {1, 4, 6, 8, 9, 10} <=> LowBit(1874, i)
    BY DEF LowBit, WordBits
  <2>2. HasLowBits(1874, {1, 4, 6, 8, 9, 10})
    BY <2>1 DEF HasLowBits
  <2>3. 1874 \in Nat /\ 1874 < 2^12
    BY Powers
  <2> QED  BY <2>2, <2>3, LowMask
<1>3. Bits(2708) = {2, 4, 7, 9, 11}
  <2>1. ASSUME NEW i \in WordBits PROVE i \in {2, 4, 7, 9, 11} <=> LowBit(2708, i)
    BY DEF LowBit, WordBits
  <2>2. HasLowBits(2708, {2, 4, 7, 9, 11})
    BY <2>1 DEF HasLowBits
  <2>3. 2708 \in Nat /\ 2708 < 2^12
    BY Powers
  <2> QED  BY <2>2, <2>3, LowMask
<1>4. Bits(488) = {3, 5, 6, 7, 8}
  <2>1. ASSUME NEW i \in WordBits PROVE i \in {3, 5, 6, 7, 8} <=> LowBit(488, i)
    BY DEF LowBit, WordBits
  <2>2. HasLowBits(488, {3, 5, 6, 7, 8})
    BY <2>1 DEF HasLowBits
  <2>3. 488 \in Nat /\ 488 < 2^12
    BY Powers
  <2> QED  BY <2>2, <2>3, LowMask
<1>5. Bits(15) = {0, 1, 2, 3}
  <2>1. ASSUME NEW i \in WordBits PROVE i \in {0, 1, 2, 3} <=> LowBit(15, i)
    BY DEF LowBit, WordBits
  <2>2. HasLowBits(15, {0, 1, 2, 3})
    BY <2>1 DEF HasLowBits
  <2>3. 15 \in Nat /\ 15 < 2^12
    BY Powers
  <2> QED  BY <2>2, <2>3, LowMask
<1> QED  BY <1>1, <1>2, <1>3, <1>4, <1>5 DEF Mask, ChecksumMasks

(* Every data bit is in two checksum bits at least, and no two data bits   *)
(* are in the same ones.                                                   *)
LEMMA MasksDiffer ==
  /\ \A p \in 0..11 : \E m, n \in 0..4 : m # n /\ p \in Mask(m) /\ p \in Mask(n)
  /\ \A p, q \in 0..11 : p # q => \E m \in 0..4 : ~(p \in Mask(m) <=> q \in Mask(m))
<1>1. ASSUME NEW p \in 0..11
      PROVE  \E m, n \in 0..4 : m # n /\ p \in Mask(m) /\ p \in Mask(n)
  <2>1. /\ p \in {0} => p \in Mask(0) /\ p \in Mask(4)
        /\ p \in {1} => p \in Mask(1) /\ p \in Mask(4)
        /\ p \in {2} => p \in Mask(2) /\ p \in Mask(4)
        /\ p \in {3} => p \in Mask(3) /\ p \in Mask(4)
        /\ p \in {4} => p \in Mask(1) /\ p \in Mask(2)
        /\ p \in {5} => p \in Mask(0) /\ p \in Mask(3)
        /\ p \in {6} => p \in Mask(1) /\ p \in Mask(3)
        /\ p \in {7} => p \in Mask(2) /\ p \in Mask(3)
        /\ p \in {8, 9, 10} => p \in Mask(0) /\ p \in Mask(1)
        /\ p \in {11} => p \in Mask(0) /\ p \in Mask(2)
    BY Masks
  <2>2. p \in {0, 1, 2, 3, 4, 5, 6, 7, 8, 9, 10, 11}
    OBVIOUS
  <2>3. 0 \in 0..4 /\ 1 \in 0..4 /\ 2 \in 0..4 /\ 3 \in 0..4 /\ 4 \in 0..4
        /\ 0 # 1 /\ 0 # 2 /\ 0 # 3 /\ 0 # 4 /\ 1 # 2 /\ 1 # 3 /\ 1 # 4 /\ 2 # 3 /\ 2 # 4 /\ 3 # 4
    OBVIOUS
  <2> QED  BY <2>1, <2>2, <2>3
<1>2. ASSUME NEW p \in 0..11, NEW q \in 0..11, \A m \in 0..4 : p \in Mask(m) <=> q \in Mask(m)
      PROVE  p = q
  <2>1. /\ p \in Mask(0) <=> q \in Mask(0)
        /\ p \in Mask(1) <=> q \in Mask(1)
        /\ p \in Mask(2) <=> q \in Mask(2)
        /\ p \in Mask(3) <=> q \in Mask(3)
        /\ p \in Mask(4) <=> q \in Mask(4)
    BY <1>2
  <2> QED  BY <2>1, Masks
<1> QED  BY <1>1, <1>2

LEMMA MaskFinite ==
  ASSUME NEW m \in 0..4
  PROVE  Mask(m) \subseteq 0..11 /\ IsFiniteSet(Mask(m))
<1>1. m \in {0, 1, 2, 3, 4}
  OBVIOUS
<1>2. Mask(m) \subseteq 0..11
  BY <1>1, Masks
<1>3. IsFiniteSet(0..11)
  <2>1. PICK n \in Nat : n = 11
    OBVIOUS
  <2>2. IsFiniteSet(0..n)
    BY FS_Interval
  <2> QED  BY <2>1, <2>2
<1> QED  BY <1>2, <1>3, FS_Subset

(* A data bit flips the parities it is part of.                            *)
OddIn(m, A) == Parity(Mask(m) \intersect A) = 1

LEMMA MaskFlips ==
  ASSUME NEW m \in 0..4, NEW A, NEW B, NEW p, Xor(A, B) = {p}
  PROVE  (OddIn(m, A) <=> OddIn(m, B)) <=> p \notin Mask(m)
<1>1. IsFiniteSet(Mask(m))
  BY MaskFinite
<1>2. ASSUME NEW S, NEW T, p \in S, p \notin T, Xor(S, T) = {p}
      PROVE  (OddIn(m, S) <=> OddIn(m, T)) <=> p \notin Mask(m)
  <2>1. CASE p \notin Mask(m)
    <3>1. Mask(m) \intersect S = Mask(m) \intersect T
      BY <1>2, <2>1 DEF Xor
    <3> QED  BY <2>1, <3>1 DEF OddIn
  <2>2. CASE p \in Mask(m)
    <3>1. PICK x, y : x = Mask(m) \intersect T /\ y = Mask(m) \intersect S
      OBVIOUS
    <3>2. IsFiniteSet(x) /\ p \notin x
      BY <1>1, <1>2, <3>1, FS_Subset
    <3>3. y = x \union {p}
      BY <1>2, <2>2, <3>1 DEF Xor
    <3>4. Parity(x) \in {0, 1} /\ Parity(y) = 1 - Parity(x)
      BY <3>2, <3>3, ParityFlips
    <3>5. OddIn(m, S) <=> ~OddIn(m, T)
      BY <3>1, <3>4 DEF OddIn
    <3> QED  BY <2>2, <3>5
  <2> QED  BY <2>1, <2>2
<1>3. CASE p \in A
  <2>1. p \notin B
    BY <1>3 DEF Xor
  <2> QED  BY <1>2, <1>3, <2>1
<1>4. CASE p \notin A
  <2>1. p \in B /\ Xor(B, A) = {p}
    BY <1>4 DEF Xor
  <2> QED  BY <1>2, <1>4, <2>1
<1> QED  BY <1>3, <1>4

(* The data bits of a header.                                              *)
Data(b) == UNION {{4 * i + x : x \in b[i]} : i \in 0..2}

LEMMA ChecksumOdd ==
  ASSUME NEW b
  PROVE  Checksum(b) = {m \in 0..4 : OddIn(m, Data(b))}
BY DEF Checksum, OddIn, Data, Mask

LEMMA DataBits ==
  ASSUME NEW b, b[0] \subseteq 0..3, b[1] \subseteq 0..3, b[2] \subseteq 0..3
  PROVE  /\ Data(b) \subseteq 0..11
         /\ \A i \in 0..2, x \in 0..3 : 4 * i + x \in Data(b) <=> x \in b[i]
<1>1. ASSUME NEW i \in 0..2 PROVE b[i] \subseteq 0..3
  <2>1. i \in {0, 1, 2}
    OBVIOUS
  <2> QED  BY <2>1
<1>2. ASSUME NEW d
      PROVE  d \in Data(b) <=> \E j \in 0..2 : \E y \in b[j] : d = 4 * j + y
  BY DEF Data
<1>3. Data(b) \subseteq 0..11
  <2>1. ASSUME NEW d \in Data(b) PROVE d \in 0..11
    <3>1. PICK j \in 0..2 : \E y \in b[j] : d = 4 * j + y
      BY <1>2
    <3>2. PICK y \in b[j] : d = 4 * j + y
      BY <3>1
    <3>3. y \in 0..3
      BY <1>1
    <3> QED  BY <3>2, <3>3
  <2> QED  BY <2>1
<1>4. ASSUME NEW i \in 0..2, NEW x \in 0..3
      PROVE  4 * i + x \in Data(b) <=> x \in b[i]
  <2>1. ASSUME 4 * i + x \in Data(b) PROVE x \in b[i]
    <3>1. PICK j \in 0..2 : \E y \in b[j] : 4 * i + x = 4 * j + y
      BY <1>2, <2>1
    <3>2. PICK y \in b[j] : 4 * i + x = 4 * j + y
      BY <3>1
    <3>3. y \in 0..3
      BY <1>1
    <3>4. j = i /\ y = x
      <4>1. PICK u \in 0..3 : u = y
        BY <3>3
      <4>2. 4 * i + x = 4 * j + u
        BY <3>2, <4>1
      <4>3. i \in {0, 1, 2} /\ j \in {0, 1, 2}
        OBVIOUS
      <4>4. j = i /\ u = x
        BY <4>2, <4>3
      <4> QED  BY <4>1, <4>4
    <3> QED  BY <3>2, <3>4
  <2>2. ASSUME x \in b[i] PROVE 4 * i + x \in Data(b)
    BY <1>2, <2>2
  <2> QED  BY <2>1, <2>2
<1> QED  BY <1>3, <1>4

(* Wrong bits in one column of the nibbles are wrong data bits.            *)
LEMMA DataErrors ==
  ASSUME NEW a, a[0] \subseteq 0..3, a[1] \subseteq 0..3, a[2] \subseteq 0..3,
         NEW b, b[0] \subseteq 0..3, b[1] \subseteq 0..3, b[2] \subseteq 0..3,
         NEW k \in 0..3,
         Xor(a[0], b[0]) \subseteq {k}, Xor(a[1], b[1]) \subseteq {k}, Xor(a[2], b[2]) \subseteq {k}
  PROVE  \A d : d \in Xor(Data(a), Data(b)) <=> \E i \in 0..2 : a[i] # b[i] /\ d = 4 * i + k
<1>1. Data(a) \subseteq 0..11 /\ \A i \in 0..2, x \in 0..3 : 4 * i + x \in Data(a) <=> x \in a[i]
  BY DataBits
<1>2. Data(b) \subseteq 0..11 /\ \A i \in 0..2, x \in 0..3 : 4 * i + x \in Data(b) <=> x \in b[i]
  BY DataBits
<1>3. ASSUME NEW i \in 0..2
      PROVE  a[i] \subseteq 0..3 /\ b[i] \subseteq 0..3 /\ Xor(a[i], b[i]) \subseteq {k}
  <2>1. i \in {0, 1, 2}
    OBVIOUS
  <2> QED  BY <2>1
<1>4. ASSUME NEW i \in 0..2
      PROVE  a[i] # b[i] <=> ~(k \in a[i] <=> k \in b[i])
  <2>1. ASSUME NEW x, x # k PROVE x \in a[i] <=> x \in b[i]
    BY <1>3, <2>1 DEF Xor
  <2>2. (k \in a[i] <=> k \in b[i]) => a[i] = b[i]
    BY <2>1
  <2> QED  BY <2>2
<1>5. ASSUME NEW d \in Xor(Data(a), Data(b))
      PROVE  \E i \in 0..2 : a[i] # b[i] /\ d = 4 * i + k
  <2>1. d \in 0..11 /\ ~(d \in Data(a) <=> d \in Data(b))
    BY <1>1, <1>2 DEF Xor
  <2>2. PICK i \in 0..2, x \in 0..3 : d = 4 * i + x
    <3>1. d \div 4 \in 0..2 /\ d % 4 \in 0..3 /\ d = 4 * (d \div 4) + (d % 4)
      BY <2>1
    <3> QED  BY <3>1
  <2>3. ~(x \in a[i] <=> x \in b[i])
    BY <1>1, <1>2, <2>1, <2>2
  <2>4. x = k
    BY <1>3, <2>3 DEF Xor
  <2> QED  BY <2>2, <2>3, <2>4
<1>6. ASSUME NEW i \in 0..2, a[i] # b[i]
      PROVE  4 * i + k \in Xor(Data(a), Data(b))
  <2>1. ~(k \in a[i] <=> k \in b[i])
    BY <1>4, <1>6
  <2> QED  BY <1>1, <1>2, <2>1 DEF Xor
<1> QED  BY <1>5, <1>6

(* The check nibbles as one word.                                          *)
CheckWord(b) == {x + 4 : x \in b[3]} \union b[4]

LEMMA CheckWordErrors ==
  ASSUME NEW a, a[3] \subseteq 0..3, a[4] \subseteq 0..3,
         NEW b, b[3] \subseteq 0..3, b[4] \subseteq 0..3, NEW k \in 0..3,
         Xor(a[3], b[3]) \subseteq {k}, Xor(a[4], b[4]) \subseteq {k}
  PROVE  /\ a[3] = b[3] => Xor(CheckWord(a), CheckWord(b)) \subseteq {k}
         /\ a[4] = b[4] => Xor(CheckWord(a), CheckWord(b)) \subseteq {k + 4}
         /\ a[3] = b[3] /\ a[4] = b[4] => CheckWord(a) = CheckWord(b)
<1>1. ASSUME a[3] = b[3] PROVE Xor(CheckWord(a), CheckWord(b)) \subseteq {k}
  BY <1>1 DEF CheckWord, Xor
<1>2. ASSUME a[4] = b[4] PROVE Xor(CheckWord(a), CheckWord(b)) \subseteq {k + 4}
  BY <1>2 DEF CheckWord, Xor
<1>3. a[3] = b[3] /\ a[4] = b[4] => CheckWord(a) = CheckWord(b)
  BY DEF CheckWord
<1> QED  BY <1>1, <1>2, <1>3

(* Two headers with right checksums that differ in one column and in two   *)
(* nibbles at most have the same data.                                     *)
LEMMA ChecksumCatches ==
  ASSUME NEW a, NEW b, NEW k \in 0..3,
         \A i \in 0..4 : a[i] \subseteq 0..3 /\ b[i] \subseteq 0..3 /\ Xor(a[i], b[i]) \subseteq {k},
         CheckWord(a) = Checksum(a), CheckWord(b) = Checksum(b),
         NEW c0 \in {0, 1}, NEW c1 \in {0, 1}, NEW c2 \in {0, 1}, NEW c3 \in {0, 1},
         NEW c4 \in {0, 1},
         c0 = 0 <=> a[0] = b[0], c1 = 0 <=> a[1] = b[1], c2 = 0 <=> a[2] = b[2],
         c3 = 0 <=> a[3] = b[3], c4 = 0 <=> a[4] = b[4],
         c0 + (c1 + (c2 + (c3 + c4))) <= 2
  PROVE  a[0] = b[0] /\ a[1] = b[1] /\ a[2] = b[2]
<1> DEFINE dif(i) == a[i] # b[i]
           E == Xor(Data(a), Data(b))
<1>1. /\ a[0] \subseteq 0..3 /\ a[1] \subseteq 0..3 /\ a[2] \subseteq 0..3
      /\ a[3] \subseteq 0..3 /\ a[4] \subseteq 0..3
      /\ b[0] \subseteq 0..3 /\ b[1] \subseteq 0..3 /\ b[2] \subseteq 0..3
      /\ b[3] \subseteq 0..3 /\ b[4] \subseteq 0..3
      /\ Xor(a[0], b[0]) \subseteq {k} /\ Xor(a[1], b[1]) \subseteq {k} /\ Xor(a[2], b[2]) \subseteq {k}
      /\ Xor(a[3], b[3]) \subseteq {k} /\ Xor(a[4], b[4]) \subseteq {k}
  OBVIOUS
<1>2. \A d : d \in E <=> \E i \in 0..2 : dif(i) /\ d = 4 * i + k
  BY <1>1, DataErrors
<1>3. /\ ~dif(3) => Xor(CheckWord(a), CheckWord(b)) \subseteq {k}
      /\ ~dif(4) => Xor(CheckWord(a), CheckWord(b)) \subseteq {k + 4}
      /\ ~dif(3) /\ ~dif(4) => CheckWord(a) = CheckWord(b)
  BY <1>1, CheckWordErrors
<1>4. /\ dif(0) <=> c0 = 1
      /\ dif(1) <=> c1 = 1
      /\ dif(2) <=> c2 = 1
      /\ dif(3) <=> c3 = 1
      /\ dif(4) <=> c4 = 1
  OBVIOUS
<1>5. ASSUME NEW m \in 0..4
      PROVE  m \in Xor(CheckWord(a), CheckWord(b)) <=> ~(OddIn(m, Data(a)) <=> OddIn(m, Data(b)))
  BY ChecksumOdd DEF Xor
<1> HIDE DEF dif, E
(* One wrong data bit changes two checksum bits.                           *)
<1>6. ASSUME NEW i \in 0..2, dif(i), \A j \in 0..2 : dif(j) => j = i, ~dif(3) \/ ~dif(4)
      PROVE  FALSE
  <2>1. PICK p \in 0..11 : p = 4 * i + k
    OBVIOUS
  <2>2. E = {p}
    BY <1>2, <1>6, <2>1
  <2>3. PICK m, n \in 0..4 : m # n /\ p \in Mask(m) /\ p \in Mask(n)
    BY MasksDiffer
  <2>4. m \in Xor(CheckWord(a), CheckWord(b)) /\ n \in Xor(CheckWord(a), CheckWord(b))
    BY <1>5, <2>2, <2>3, MaskFlips DEF E
  <2> QED  BY <1>3, <1>6, <2>3, <2>4
(* Two of them change at least one, which needs a wrong check nibble.      *)
<1>7. ASSUME NEW i \in 0..2, NEW j \in 0..2, i # j, dif(i), dif(j),
             \A l \in 0..2 : dif(l) => l = i \/ l = j, ~dif(3), ~dif(4)
      PROVE  FALSE
  <2>1. PICK p \in 0..11, q \in 0..11 : p = 4 * i + k /\ q = 4 * j + k /\ p # q
    <3>1. 4 * i + k \in 0..11 /\ 4 * j + k \in 0..11 /\ 4 * i + k # 4 * j + k
      BY <1>7
    <3> QED  BY <3>1
  <2>2. E = {p, q}
    BY <1>2, <1>7, <2>1
  <2> DEFINE C == Xor(Data(a), {p})
  <2>3. Xor(Data(a), C) = {p} /\ Xor(C, Data(b)) = {q}
    BY <2>1, <2>2 DEF E, Xor
  <2>4. PICK m \in 0..4 : ~(p \in Mask(m) <=> q \in Mask(m))
    BY <2>1, MasksDiffer
  <2> HIDE DEF C
  <2>5. /\ (OddIn(m, Data(a)) <=> OddIn(m, C)) <=> p \notin Mask(m)
        /\ (OddIn(m, C) <=> OddIn(m, Data(b))) <=> q \notin Mask(m)
    BY <2>3, MaskFlips
  <2>6. m \in Xor(CheckWord(a), CheckWord(b))
    BY <1>5, <2>4, <2>5
  <2>7. Xor(CheckWord(a), CheckWord(b)) = {}
    BY <1>3, <1>7 DEF Xor
  <2> QED  BY <2>6, <2>7
<1>8. ASSUME NEW i \in 0..2 PROVE i \in {0, 1, 2}
  OBVIOUS
<1>9. ~dif(0) /\ ~dif(1) /\ ~dif(2)
  <2>1. 0 \in 0..2 /\ 1 \in 0..2 /\ 2 \in 0..2
    OBVIOUS
  <2>2. c0 + c1 + c2 \in 0..3 /\ c0 + c1 + c2 + c3 + c4 <= 2
    OBVIOUS
  <2>3. CASE dif(0) /\ ~dif(1) /\ ~dif(2)
    BY <1>4, <1>6, <1>8, <2>1, <2>2, <2>3
  <2>4. CASE ~dif(0) /\ dif(1) /\ ~dif(2)
    BY <1>4, <1>6, <1>8, <2>1, <2>2, <2>4
  <2>5. CASE ~dif(0) /\ ~dif(1) /\ dif(2)
    BY <1>4, <1>6, <1>8, <2>1, <2>2, <2>5
  <2>6. CASE dif(0) /\ dif(1) /\ ~dif(2)
    BY <1>4, <1>7, <1>8, <2>1, <2>2, <2>6
  <2>7. CASE dif(0) /\ ~dif(1) /\ dif(2)
    BY <1>4, <1>7, <1>8, <2>1, <2>2, <2>7
  <2>8. CASE ~dif(0) /\ dif(1) /\ dif(2)
    BY <1>4, <1>7, <1>8, <2>1, <2>2, <2>8
  <2>9. CASE dif(0) /\ dif(1) /\ dif(2)
    BY <1>4, <2>2, <2>9
  <2> QED  BY <2>3, <2>4, <2>5, <2>6, <2>7, <2>8, <2>9
<1> QED  BY <1>9 DEF dif

(* A header read from its own nibbles is the header.                       *)
LEMMA HeaderReads ==
  ASSUME NEW h \in HeaderCases, NEW b, \A i \in 0..4 : b[i] = HeaderNibbles(h)[i]
  PROVE  LET got == ReadHeader(b)
         IN  [length |-> got.length, crc |-> got.crc, CR |-> got.CR] = h
<1>1. h \in [length : 0..255, crc : BOOLEAN, CR : 0..7]
  BY CasesAssumption
<1>2. PICK l \in 0..255, c \in {0, 1}, r \in 0..7 :
        l = h.length /\ c = (IF h.crc THEN 1 ELSE 0) /\ r = h.CR
  BY <1>1
<1>3. /\ b[0] = Bits(l \div 16) /\ b[1] = Bits(l % 16) /\ b[2] = Bits(2 * r + c)
  BY <1>2 DEF HeaderNibbles
<1>4. l \div 16 \in 0..15 /\ l % 16 \in 0..15 /\ 2 * r + c \in 0..15
      /\ 16 * (l \div 16) + (l % 16) = l /\ (2 * r + c) \div 2 = r /\ (2 * r + c) % 2 = c
  OBVIOUS
<1>5. /\ Value(b[0]) = l \div 16 /\ Value(b[1]) = l % 16 /\ Value(b[2]) = 2 * r + c
      /\ 0 \in b[2] <=> c = 1
  BY <1>3, <1>4, NibbleReads
<1>6. 16 * Value(b[0]) + Value(b[1]) = h.length /\ Value(b[2]) \div 2 = h.CR
  BY <1>2, <1>4, <1>5
<1>7. 0 \in b[2] <=> h.crc
  BY <1>1, <1>2, <1>5
<1>8. (0 \in b[2]) \in BOOLEAN /\ h.crc \in BOOLEAN
  BY <1>1
<1>9. (0 \in b[2]) = h.crc
  BY <1>7, <1>8, Zenon
<1>10. h = [length |-> h.length, crc |-> h.crc, CR |-> h.CR]
  BY <1>1
<1>11. /\ ReadHeader(b).length = h.length /\ ReadHeader(b).CR = h.CR
  BY <1>6 DEF ReadHeader
<1>12. ReadHeader(b).crc = h.crc
  <2>1. ReadHeader(b).crc = (0 \in b[2])
    BY DEF ReadHeader
  <2> QED  BY <1>9, <2>1, Zenon
<1> QED  BY <1>10, <1>11, <1>12, Zenon

LEMMA DataSame ==
  ASSUME NEW a, NEW b, a[0] = b[0], a[1] = b[1], a[2] = b[2]
  PROVE  Checksum(a) = Checksum(b)
<1>1. \A i \in 0..2 : a[i] = b[i]
  <2>1. \A i \in 0..2 : i \in {0, 1, 2}
    OBVIOUS
  <2> QED  BY <2>1
<1>2. Data(a) = Data(b)
  BY <1>1 DEF Data
<1> QED  BY <1>2, ChecksumOdd

LEMMA HeaderValid ==
  ASSUME NEW h \in HeaderCases, NEW b, \A i \in 0..4 : b[i] = HeaderNibbles(h)[i]
  PROVE  CheckWord(b) = Checksum(b)
<1> DEFINE first == [i \in 0..2 |->
                  CASE i = 0 -> Bits(h.length \div 16)
                    [] i = 1 -> Bits(h.length % 16)
                    [] i = 2 -> Bits(2 * h.CR + (IF h.crc THEN 1 ELSE 0))]
           sum == Checksum(first)
<1>1. ASSUME NEW i \in 0..4
      PROVE  HeaderNibbles(h)[i] = IF i < 3 THEN first[i]
                                   ELSE IF i = 3 THEN {x - 4 : x \in sum \ 0..3}
                                   ELSE sum \intersect 0..3
  BY DEF HeaderNibbles
<1> HIDE DEF first, sum
<1>2. /\ b[0] = first[0] /\ b[1] = first[1] /\ b[2] = first[2]
      /\ b[3] = {x - 4 : x \in sum \ 0..3} /\ b[4] = sum \intersect 0..3
  <2>1. 0 \in 0..4 /\ 1 \in 0..4 /\ 2 \in 0..4 /\ 3 \in 0..4 /\ 4 \in 0..4
    OBVIOUS
  <2> QED  BY <1>1, <2>1
<1>3. Checksum(b) = sum
  BY <1>2, DataSame DEF sum
<1>4. sum \subseteq 0..4
  BY ChecksumOdd DEF sum
<1>5. {x + 4 : x \in {x - 4 : x \in sum \ 0..3}} = sum \ 0..3
  <2>1. ASSUME NEW y PROVE y \in {x + 4 : x \in {x - 4 : x \in sum \ 0..3}} <=> y \in sum \ 0..3
    <3>1. ASSUME NEW x \in sum PROVE (x - 4) + 4 = x
      BY <1>4
    <3> QED  BY <3>1
  <2> QED  BY <2>1
<1>6. CheckWord(b) = (sum \ 0..3) \union (sum \intersect 0..3)
  BY <1>2, <1>5 DEF CheckWord
<1>7. (sum \ 0..3) \union (sum \intersect 0..3) = sum
  OBVIOUS
<1> QED  BY <1>3, <1>6, <1>7

LEMMA HeaderBlock ==
  ASSUME sent \in Blocks, NEW h \in sent.header
  PROVE  /\ h \in HeaderCases /\ 0..4 \subseteq Rows
         /\ \A i \in 0..4 : sent.nibbles[i] = HeaderNibbles(h)[i]
<1>1. SF \in 7..16
  BY SFAssumption
<1>2. CASE \E g \in HeaderCases :
             sent = [rows |-> SF - 2, CR |-> 4, header |-> {g},
                  nibbles |-> [i \in 0..(SF - 3) |-> IF i < 5 THEN HeaderNibbles(g)[i] ELSE {}]]
  <2>1. PICK g \in HeaderCases :
             sent = [rows |-> SF - 2, CR |-> 4, header |-> {g},
                  nibbles |-> [i \in 0..(SF - 3) |-> IF i < 5 THEN HeaderNibbles(g)[i] ELSE {}]]
    BY <1>2
  <2>2. sent.rows = SF - 2 /\ sent.header = {g}
    BY <2>1
  <2>3. sent.nibbles = [i \in 0..(SF - 3) |-> IF i < 5 THEN HeaderNibbles(g)[i] ELSE {}]
    BY <2>1
  <2>4. h = g
    BY <2>2
  <2>5. \A i \in 0..4 : i \in 0..(SF - 3) /\ i \in 0..(SF - 2 - 1) /\ i < 5
    BY <1>1
  <2> QED  BY <2>2, <2>3, <2>4, <2>5 DEF Rows
<1>3. CASE \E p \in PayloadCases :
             sent = [rows |-> p.rows, CR |-> p.CR, header |-> {}, nibbles |-> p.nibbles]
  <2>1. sent.header = {}
    BY <1>3
  <2> QED  BY <2>1
<1> QED  BY <1>2, <1>3 DEF Blocks

LEMMA SumStep ==
  ASSUME NEW S, IsFiniteSet(S), NEW h \in [S -> Nat], NEW f, SumFn(S, h, f),
         NEW s \in SUBSET S, NEW x \in s
  PROVE  f[s] = h[x] + f[s \ {x}]
BY SumLaws

LEMMA SumOfHeaderErrors ==
  ASSUME NEW c \in [0..4 -> Nat],
         \A r \in 0..4 : c[r] = Cardinality(Xor(item[r], sent.nibbles[r]))
  PROVE  HeaderBitsWrong = c[0] + (c[1] + (c[2] + (c[3] + c[4])))
<1> DEFINE Rec(g) == g = [s \in SUBSET (0..4) |->
                            IF s = {} THEN 0
                            ELSE Cardinality(Xor(item[Chosen(s)], sent.nibbles[Chosen(s)]))
                                   + g[s \ {Chosen(s)}]]
           it == CHOOSE g : Rec(g)
           S == 0..4
<1>1. HeaderBitsWrong = it[S]
  BY DEF HeaderBitsWrong, MapThenSumSet, MapThenFoldSet, Chosen
<1>2. ASSUME NEW g PROVE Rec(g) <=> SumFn(S, c, g)
  <2>1. \A s \in SUBSET (0..4) : s # {} =>
           c[Chosen(s)] = Cardinality(Xor(item[Chosen(s)], sent.nibbles[Chosen(s)]))
    BY ChosenIn
  <2> QED  BY <2>1 DEF SumFn
<1>3. IsFiniteSet(S) /\ c \in [S -> Nat]
  <2>1. PICK n \in Nat : n = 4
    OBVIOUS
  <2>2. IsFiniteSet(0..n)
    BY FS_Interval
  <2> QED  BY <2>1, <2>2
<1>4. 0 \in S /\ 1 \in S \ {0} /\ 2 \in (S \ {0}) \ {1} /\ 3 \in ((S \ {0}) \ {1}) \ {2}
      /\ 4 \in (((S \ {0}) \ {1}) \ {2}) \ {3}
      /\ ((((S \ {0}) \ {1}) \ {2}) \ {3}) \ {4} = {}
  OBVIOUS
<1> HIDE DEF S
<1>5. \E g : Rec(g)
  <2>1. \E g : SumFn(S, c, g)
    BY <1>3, SumExists
  <2> HIDE DEF Rec
  <2> QED  BY <1>2, <2>1
<1>6. Rec(it)
  <2> HIDE DEF Rec
  <2> QED  BY <1>5
<1>7. SumFn(S, c, it)
  <2> HIDE DEF Rec, it
  <2> QED  BY <1>2, <1>6
<1> HIDE DEF it, Rec
<1>8. ASSUME NEW s \in SUBSET S, NEW x \in s PROVE it[s] = c[x] + it[s \ {x}]
  <2>1. PICK d, f : d = c /\ f = it
    OBVIOUS
  <2>2. IsFiniteSet(S) /\ d \in [S -> Nat] /\ SumFn(S, d, f)
    BY <1>3, <1>7, <2>1
  <2>3. f[s] = d[x] + f[s \ {x}]
    BY <2>2, SumStep
  <2> QED  BY <2>1, <2>3
<1>9. it[{}] = 0
  BY <1>3, <1>7, SumLaws
<1>10. it[S] = c[0] + it[S \ {0}]
  BY <1>4, <1>8
<1>11. it[S \ {0}] = c[1] + it[(S \ {0}) \ {1}]
  BY <1>4, <1>8
<1>12. it[(S \ {0}) \ {1}] = c[2] + it[((S \ {0}) \ {1}) \ {2}]
  BY <1>4, <1>8
<1>13. it[((S \ {0}) \ {1}) \ {2}] = c[3] + it[(((S \ {0}) \ {1}) \ {2}) \ {3}]
  BY <1>4, <1>8
<1>14. it[(((S \ {0}) \ {1}) \ {2}) \ {3}] = c[4] + 0
  BY <1>4, <1>8, <1>9
<1>15. c[4] + 0 = c[4]
  BY <1>3, <1>4
<1> QED  BY <1>1, <1>10, <1>11, <1>12, <1>13, <1>14, <1>15

(* For every header and spreading factor: of a header block of which one   *)
(* symbol was struck, the receiver reads the header sent or refuses it,    *)
(* unless the stroke changed three of its bits or more.                    *)
THEOREM StruckHeaderRefused == Spec => []HeaderErrorsDetected
<1>1. ASSUME BlockInv, stage = "received", NEW h \in sent.header,
             ReadHeader(item).valid, HeaderBitsWrong <= 2
      PROVE  LET got == ReadHeader(item)
             IN  [length |-> got.length, crc |-> got.crc, CR |-> got.CR] = h
  <2>1. Decoded /\ sent \in Blocks
    BY <1>1 DEF BlockInv
  <2>2. /\ h \in HeaderCases /\ 0..4 \subseteq Rows
        /\ \A i \in 0..4 : sent.nibbles[i] = HeaderNibbles(h)[i]
    BY <1>1, <2>1, HeaderBlock
  <2>3. PICK a, b : a = item /\ b = sent.nibbles
    OBVIOUS
  <2>4. ASSUME NEW i \in 0..4 PROVE a[i] \subseteq 0..3 /\ b[i] \subseteq 0..3
    BY <2>1, <2>2, <2>3, SentTypes DEF Decoded, NibbleBlocks
  <2>5. SUFFICES a[0] = b[0] /\ a[1] = b[1] /\ a[2] = b[2]
    <3>1. ASSUME a[0] = b[0], a[1] = b[1], a[2] = b[2]
          PROVE  ReadHeader(a).length = ReadHeader(b).length
                 /\ ReadHeader(a).crc = ReadHeader(b).crc /\ ReadHeader(a).CR = ReadHeader(b).CR
      BY <3>1 DEF ReadHeader
    <3>2. LET got == ReadHeader(b)
          IN  [length |-> got.length, crc |-> got.crc, CR |-> got.CR] = h
      BY <2>2, <2>3, HeaderReads
    <3> QED  BY <2>3, <3>1, <3>2
  <2>6. CheckWord(a) = Checksum(a)
    BY <1>1, <2>3 DEF ReadHeader, CheckWord
  <2>7. CheckWord(b) = Checksum(b)
    BY <2>2, <2>3, HeaderValid
  <2>8. 0 \in 0..4 /\ 1 \in 0..4 /\ 2 \in 0..4 /\ 3 \in 0..4 /\ 4 \in 0..4
    OBVIOUS
  <2>9. CASE \A i \in 0..4 : a[i] = b[i]
    BY <2>8, <2>9
  <2>10. CASE \E i \in 0..4 : a[i] # b[i]
    <3>1. struck # <<>>
      BY <2>1, <2>3, <2>10 DEF Decoded
    <3>2. PICK k : k = struck[1]
      OBVIOUS
    <3>3. ASSUME NEW i \in 0..4 PROVE Xor(a[i], b[i]) \subseteq {k}
      BY <2>1, <2>2, <2>3, <3>1, <3>2 DEF Decoded
    <3>4. k \in 0..3
      <4>1. PICK i \in 0..4 : a[i] # b[i]
        BY <2>10
      <4>2. PICK x : ~(x \in a[i] <=> x \in b[i])
        BY <4>1
      <4>3. x \in Xor(a[i], b[i])
        BY <4>2 DEF Xor
      <4>4. x = k
        BY <3>3, <4>3
      <4> QED  BY <2>4, <4>2, <4>4
    <3> DEFINE c == [i \in 0..4 |-> Cardinality(Xor(a[i], b[i]))]
    <3>5. ASSUME NEW i \in 0..4
          PROVE  c[i] \in {0, 1} /\ (c[i] = 0 <=> a[i] = b[i])
      <4>1. Xor(a[i], b[i]) \subseteq {k}
        BY <3>3
      <4>2. Cardinality(Xor(a[i], b[i])) \in {0, 1}
            /\ (Cardinality(Xor(a[i], b[i])) = 0 <=> Xor(a[i], b[i]) = {})
        BY <4>1, SubsetOfOne
      <4>3. Xor(a[i], b[i]) = {} <=> a[i] = b[i]
        BY DEF Xor
      <4> QED  BY <4>2, <4>3
    <3>6. c \in [0..4 -> Nat]
          /\ \A r \in 0..4 : c[r] = Cardinality(Xor(item[r], sent.nibbles[r]))
      BY <2>3, <3>5
    <3> HIDE DEF c
    <3>7. HeaderBitsWrong = c[0] + (c[1] + (c[2] + (c[3] + c[4])))
      BY <3>6, SumOfHeaderErrors
    <3>8. PICK c0 \in {0, 1}, c1 \in {0, 1}, c2 \in {0, 1}, c3 \in {0, 1}, c4 \in {0, 1} :
            c0 = c[0] /\ c1 = c[1] /\ c2 = c[2] /\ c3 = c[3] /\ c4 = c[4]
      BY <2>8, <3>5
    <3>9. c0 + (c1 + (c2 + (c3 + c4))) <= 2
      BY <1>1, <3>7, <3>8
    <3>10. /\ c0 = 0 <=> a[0] = b[0]
           /\ c1 = 0 <=> a[1] = b[1]
           /\ c2 = 0 <=> a[2] = b[2]
           /\ c3 = 0 <=> a[3] = b[3]
           /\ c4 = 0 <=> a[4] = b[4]
      BY <2>8, <3>5, <3>8
    <3>11. \A i \in 0..4 : a[i] \subseteq 0..3 /\ b[i] \subseteq 0..3 /\ Xor(a[i], b[i]) \subseteq {k}
      BY <2>4, <3>3
    <3> QED  BY <2>6, <2>7, <3>4, <3>9, <3>10, <3>11, ChecksumCatches
  <2> QED  BY <2>9, <2>10
<1>2. BlockInv => HeaderErrorsDetected
  BY <1>1 DEF HeaderErrorsDetected
<1> QED  BY <1>2, BlockInvariant, PTL

-----------------------------------------------------------------------------
-----------------------------------------------------------------------------
(* The stream of code blocks.                                              *)
(* A stream of blocks: g[p] is the unit after p others, and the block of a *)
(* unit u has L[u] of them.                                                *)
IsStream(g, L) ==
  /\ g \in [Nat -> Place]
  /\ g[0] = <<1, 0, 0>>
  /\ \A p \in Nat : g[p + 1] = Follows(g[p], L[g[p]])

SymbolLengths == [u \in Place |-> CodeLength(u[1], u[2])]
RowLengths == [u \in Place |-> RowsOf(u[2])]

(* Iterating a function on and on gives a function on the numbers.         *)
Iterates(g, n, a, step) == g[0] = a /\ \A i \in 0..(n - 1) : g[i + 1] = step[g[i]]

LEMMA IterateTo ==
  ASSUME NEW n \in Nat, NEW S, NEW a \in S, NEW step \in [S -> S]
  PROVE  \E g \in [0..n -> S] : Iterates(g, n, a, step)
<1>1. PICK t : t = [i \in 1..n |-> step]
  OBVIOUS
<1>2. t \in [1..n -> [S -> S]]
  BY <1>1
<1>3. PICK g \in [0..n -> S] : SolvesRecursion(g, n, a, t)
  BY <1>2, RecursionExists
<1>4. \A i \in 0..n : g[i] = IF i = 0 THEN a ELSE t[i][g[i - 1]]
  BY <1>3 DEF SolvesRecursion
<1>5. g[0] = a
  BY <1>4
<1>6. ASSUME NEW i \in 0..(n - 1) PROVE g[i + 1] = step[g[i]]
  <2>1. i + 1 \in 0..n /\ i + 1 # 0 /\ i + 1 \in 1..n /\ (i + 1) - 1 = i
    OBVIOUS
  <2>2. g[i + 1] = t[i + 1][g[i]]
    BY <1>4, <2>1
  <2> QED  BY <1>1, <2>1, <2>2
<1> QED  BY <1>5, <1>6 DEF Iterates

LEMMA IterateUnique ==
  ASSUME NEW n \in Nat, NEW m \in Nat, n <= m, NEW a, NEW step, NEW g, NEW h,
         Iterates(g, n, a, step), Iterates(h, m, a, step)
  PROVE  g[n] = h[n]
<1> DEFINE T == {i \in 0..n : g[i] = h[i]}
<1>1. 0 \in T
  BY DEF Iterates
<1>2. ASSUME NEW i \in 0..n, i \in T, i < n PROVE i + 1 \in T
  BY <1>2 DEF Iterates
<1>3. 0..n \subseteq T
  <2> HIDE DEF T
  <2> QED  BY <1>1, <1>2, InductTo
<1> QED  BY <1>3

LEMMA IterationExists ==
  ASSUME NEW S, NEW a \in S, NEW step \in [S -> S]
  PROVE  \E g \in [Nat -> S] : g[0] = a /\ \A p \in Nat : g[p + 1] = step[g[p]]
<1> DEFINE Is(n, g) == g \in [0..n -> S] /\ Iterates(g, n, a, step)
<1>1. PICK c : c = [n \in Nat |-> CHOOSE g : Is(n, g)]
  OBVIOUS
<1>2. ASSUME NEW n \in Nat PROVE Is(n, c[n])
  <2>1. \E g : Is(n, g)
    BY IterateTo
  <2>2. c[n] = CHOOSE g : Is(n, g)
    BY <1>1
  <2> HIDE DEF Is
  <2> QED  BY <2>1, <2>2
<1>3. PICK d : d = [n \in Nat |-> c[n][n]]
  OBVIOUS
<1>4. \A n \in Nat : d[n] = c[n][n] /\ d[n] \in S
  BY <1>2, <1>3
<1>5. d \in [Nat -> S]
  BY <1>3, <1>4
<1>6. d[0] = a
  BY <1>2, <1>4 DEF Iterates
<1>7. ASSUME NEW p \in Nat PROVE d[p + 1] = step[d[p]]
  <2>1. p + 1 \in Nat /\ p <= p + 1 /\ p \in 0..((p + 1) - 1)
    OBVIOUS
  <2>2. c[p + 1][p + 1] = step[c[p + 1][p]]
    BY <1>2, <2>1 DEF Iterates
  <2>3. Iterates(c[p], p, a, step) /\ Iterates(c[p + 1], p + 1, a, step)
    BY <1>2, <2>1
  <2>4. c[p][p] = c[p + 1][p]
    BY <2>1, <2>3, IterateUnique
  <2> QED  BY <1>4, <2>1, <2>2, <2>4
<1> QED  BY <1>5, <1>6, <1>7

LEMMA FollowsPlace ==
  ASSUME NEW u \in Place, NEW n
  PROVE  Follows(u, n) \in Place
<1>1. u[1] \in Nat /\ u[2] \in Nat /\ u[3] \in Nat
  BY DEF Place
<1> QED  BY <1>1 DEF Follows, Place

LEMMA IterateIs ==
  ASSUME NEW F, NEW step \in [Place -> Place],
         F = CHOOSE g : g = [p \in Nat |-> IF p = 0 THEN <<1, 0, 0>> ELSE step[g[p - 1]]]
  PROVE  /\ F \in [Nat -> Place] /\ F[0] = <<1, 0, 0>>
         /\ \A p \in Nat : F[p + 1] = step[F[p]]
<1> DEFINE Unfolds(g) == g = [p \in Nat |-> IF p = 0 THEN <<1, 0, 0>> ELSE step[g[p - 1]]]
<1>1. <<1, 0, 0>> \in Place
  BY DEF Place
<1>2. PICK g \in [Nat -> Place] : g[0] = <<1, 0, 0>> /\ \A p \in Nat : g[p + 1] = step[g[p]]
  <2>1. PICK a \in Place : a = <<1, 0, 0>>
    BY <1>1
  <2>2. \E h \in [Nat -> Place] : h[0] = a /\ \A p \in Nat : h[p + 1] = step[h[p]]
    BY IterationExists
  <2> QED  BY <2>1, <2>2
<1>3. Unfolds(g)
  <2>1. ASSUME NEW p \in Nat PROVE g[p] = IF p = 0 THEN <<1, 0, 0>> ELSE step[g[p - 1]]
    <3>1. CASE p = 0
      BY <1>2, <3>1
    <3>2. CASE p # 0
      <4>1. p - 1 \in Nat /\ (p - 1) + 1 = p
        BY <3>2
      <4> QED  BY <1>2, <3>2, <4>1
    <3> QED  BY <3>1, <3>2
  <2> QED  BY <2>1
<1>4. Unfolds(F)
  <2>1. F = CHOOSE h : Unfolds(h)
    OBVIOUS
  <2> HIDE DEF Unfolds
  <2> QED  BY <1>3, <2>1
<1>5. \A p \in Nat : F[p] = IF p = 0 THEN <<1, 0, 0>> ELSE step[F[p - 1]]
  BY <1>4
<1>6. F[0] = <<1, 0, 0>>
  BY <1>5
<1>7. ASSUME NEW p \in Nat PROVE F[p + 1] = step[F[p]]
  <2>1. p + 1 \in Nat /\ p + 1 # 0 /\ (p + 1) - 1 = p
    OBVIOUS
  <2> QED  BY <1>5, <2>1
<1>8. \A p \in Nat : F[p] \in Place
  <2>1. SUFFICES ASSUME NEW n \in Nat PROVE F[n] \in Place
    OBVIOUS
  <2> DEFINE T == {i \in 0..n : F[i] \in Place}
  <2>2. 0 \in T
    BY <1>1, <1>6
  <2>3. ASSUME NEW i \in 0..n, i \in T, i < n PROVE i + 1 \in T
    BY <1>7, <2>3
  <2>4. 0..n \subseteq T
    <3> HIDE DEF T
    <3> QED  BY <2>2, <2>3, InductTo
  <2> QED  BY <2>4
<1>9. F = [p \in Nat |-> F[p]]
  BY <1>4
<1> QED  BY <1>6, <1>7, <1>8, <1>9

LEMMA SymbolStream == IsStream(SymbolDue, SymbolLengths)
<1>1. NextSymbol \in [Place -> Place]
  BY FollowsPlace DEF NextSymbol
<1>2. PICK step \in [Place -> Place] : step = NextSymbol
  BY <1>1
<1>3. SymbolDue = CHOOSE g : g = [p \in Nat |-> IF p = 0 THEN <<1, 0, 0>> ELSE step[g[p - 1]]]
  BY <1>2 DEF SymbolDue
<1>4. /\ SymbolDue \in [Nat -> Place] /\ SymbolDue[0] = <<1, 0, 0>>
      /\ \A p \in Nat : SymbolDue[p + 1] = step[SymbolDue[p]]
  BY <1>3, IterateIs
<1>5. \A u \in Place : step[u] = Follows(u, SymbolLengths[u])
  BY <1>2 DEF NextSymbol, SymbolLengths
<1> QED  BY <1>4, <1>5 DEF IsStream

LEMMA RowStream == IsStream(RowDue, RowLengths)
<1>1. NextRow \in [Place -> Place]
  BY FollowsPlace DEF NextRow
<1>2. PICK step \in [Place -> Place] : step = NextRow
  BY <1>1
<1>3. RowDue = CHOOSE g : g = [p \in Nat |-> IF p = 0 THEN <<1, 0, 0>> ELSE step[g[p - 1]]]
  BY <1>2 DEF RowDue
<1>4. /\ RowDue \in [Nat -> Place] /\ RowDue[0] = <<1, 0, 0>>
      /\ \A p \in Nat : RowDue[p + 1] = step[RowDue[p]]
  BY <1>3, IterateIs
<1>5. \A u \in Place : step[u] = Follows(u, RowLengths[u])
  BY <1>2 DEF NextRow, RowLengths
<1> QED  BY <1>4, <1>5 DEF IsStream

LEMMA FramesTyped ==
  ASSUME scenario \in Scenarios
  PROVE  /\ frames \in Seq([CR : 0..4, blocks : Nat]) /\ frames # <<>>
         /\ Len(frames) \in Nat \ {0} /\ DOMAIN frames = 1..Len(frames)
         /\ \A f \in 1..Len(frames) : NBlocks(f) \in Nat /\ frames[f].CR \in 0..4
         /\ scenario.ldr \in BOOLEAN
<1>1. /\ {scenario.ldr, scenario.paced} \subseteq BOOLEAN
      /\ frames \in Seq([CR : 0..4, blocks : Nat]) \ {<<>>}
  BY ScenariosAssumption DEF frames
<1>2. PICK s : s = frames
  OBVIOUS
<1>3. /\ s \in Seq([CR : 0..4, blocks : Nat]) /\ s # <<>> /\ Len(s) \in Nat \ {0}
      /\ DOMAIN s = 1..Len(s) /\ \A f \in 1..Len(s) : s[f] \in [CR : 0..4, blocks : Nat]
  <2>1. PICK B : B = [CR : 0..4, blocks : Nat]
    OBVIOUS
  <2>2. s \in Seq(B) /\ s # <<>>
    BY <1>1, <1>2, <2>1
  <2>3. /\ Len(s) \in Nat \ {0} /\ DOMAIN s = 1..Len(s)
        /\ \A f \in 1..Len(s) : s[f] \in B
    BY <2>2
  <2> QED  BY <2>1, <2>2, <2>3
<1>4. \A f \in 1..Len(s) : s[f].blocks \in Nat /\ s[f].CR \in 0..4
  BY <1>3
<1>5. \A f \in 1..Len(frames) : NBlocks(f) \in Nat /\ frames[f].CR \in 0..4
  BY <1>2, <1>4 DEF NBlocks
<1> QED  BY <1>1, <1>2, <1>3, <1>5

(* The order of a stream.                                                  *)
Earlier(u, v) ==
  \/ u[1] < v[1]
  \/ u[1] = v[1] /\ u[2] < v[2]
  \/ u[1] = v[1] /\ u[2] = v[2] /\ u[3] < v[3]

LEMMA FollowsLater ==
  ASSUME NEW u \in Place, NEW n
  PROVE  Earlier(u, Follows(u, n))
<1>1. PICK a \in Nat, b \in Nat, c \in Nat : u = <<a, b, c>>
  BY DEF Place
<1>2. PICK v : v = Follows(u, n)
  OBVIOUS
<1>3. v = <<a, b, c + 1>> \/ v = <<a, b + 1, 0>> \/ v = <<a + 1, 0, 0>>
  BY <1>1, <1>2 DEF Follows
<1>4. Earlier(u, v)
  BY <1>1, <1>3 DEF Earlier
<1> QED  BY <1>2, <1>4

LEMMA EarlierTransitive ==
  ASSUME NEW u \in Place, NEW v \in Place, NEW w \in Place, Earlier(u, v), Earlier(v, w)
  PROVE  Earlier(u, w)
<1>1. /\ u[1] \in Nat /\ u[2] \in Nat /\ u[3] \in Nat
      /\ v[1] \in Nat /\ v[2] \in Nat /\ v[3] \in Nat
      /\ w[1] \in Nat /\ w[2] \in Nat /\ w[3] \in Nat
  BY DEF Place
<1> QED  BY <1>1 DEF Earlier

LEMMA StreamRises ==
  ASSUME NEW g, NEW L, IsStream(g, L), NEW p \in Nat, NEW q \in Nat, p < q
  PROVE  Earlier(g[p], g[q])
<1> DEFINE T == {i \in 0..q : p < i => Earlier(g[p], g[i])}
<1>1. 0 \in T
  OBVIOUS
<1>2. ASSUME NEW i \in 0..q, i \in T, i < q PROVE i + 1 \in T
  <2>1. i + 1 \in 0..q /\ i \in Nat /\ i + 1 \in Nat
    BY <1>2
  <2>2. g[p] \in Place /\ g[i] \in Place /\ g[i + 1] \in Place /\ g[i + 1] = Follows(g[i], L[g[i]])
    BY <2>1 DEF IsStream
  <2>3. Earlier(g[i], g[i + 1])
    BY <2>2, FollowsLater
  <2>4. ASSUME p < i + 1 PROVE Earlier(g[p], g[i + 1])
    <3>1. CASE p = i
      BY <2>3, <3>1
    <3>2. CASE p # i
      <4>1. Earlier(g[p], g[i])
        BY <1>2, <2>1, <2>4, <3>2
      <4> QED  BY <2>2, <2>3, <4>1, EarlierTransitive
    <3> QED  BY <3>1, <3>2
  <2> QED  BY <2>1, <2>4
<1>3. 0..q \subseteq T
  <2> HIDE DEF T
  <2> QED  BY <1>1, <1>2, InductTo
<1> QED  BY <1>3

(* Along a block.                                                          *)
NextBlock(f, b) == IF b < NBlocks(f) THEN <<f, b + 1, 0>> ELSE <<f + 1, 0, 0>>

BlockOfLength(L, f, b, n) == \A k \in Nat : L[<<f, b, k>>] = n

RunsAlong(g, p, f, b, n) ==
  /\ \A k \in 0..(n - 1) : g[p + k] = <<f, b, k>>
  /\ g[p + n] = NextBlock(f, b)

LEMMA BlockRun ==
  ASSUME NEW g, NEW L, IsStream(g, L), NEW p \in Nat, NEW f \in Nat, NEW b \in Nat,
         NEW n \in Nat \ {0}, g[p] = <<f, b, 0>>, BlockOfLength(L, f, b, n)
  PROVE  RunsAlong(g, p, f, b, n)
<1> DEFINE T == {k \in 0..(n - 1) : g[p + k] = <<f, b, k>>}
<1>1. 0 \in T
  OBVIOUS
<1>2. ASSUME NEW k \in 0..(n - 1), g[p + k] = <<f, b, k>>
      PROVE  g[p + k + 1] = Follows(<<f, b, k>>, n)
  <2>1. p + k \in Nat /\ k \in Nat
    OBVIOUS
  <2>2. L[<<f, b, k>>] = n
    BY <2>1 DEF BlockOfLength
  <2> QED  BY <1>2, <2>1, <2>2 DEF IsStream
<1>3. ASSUME NEW k \in 0..(n - 1), k \in T, k < n - 1 PROVE k + 1 \in T
  <2>1. g[p + (k + 1)] = Follows(<<f, b, k>>, n)
    BY <1>2, <1>3
  <2>2. Follows(<<f, b, k>>, n) = <<f, b, k + 1>>
    BY <1>3 DEF Follows
  <2> QED  BY <1>3, <2>1, <2>2
<1>4. 0..(n - 1) \subseteq T
  <2>1. n - 1 \in Nat
    OBVIOUS
  <2>2. PICK m \in Nat : m = n - 1
    BY <2>1
  <2> HIDE DEF T
  <2>3. 0..m \subseteq T
    BY <1>1, <1>3, <2>2, InductTo
  <2> QED  BY <2>2, <2>3
<1>5. \A k \in 0..(n - 1) : g[p + k] = <<f, b, k>>
  BY <1>4
<1>6. g[p + n] = NextBlock(f, b)
  <2>1. PICK k \in 0..(n - 1) : k = n - 1
    OBVIOUS
  <2>2. g[p + k + 1] = Follows(<<f, b, k>>, n)
    BY <1>2, <1>5
  <2>3. p + k + 1 = p + n
    BY <2>1
  <2>4. Follows(<<f, b, k>>, n) = NextBlock(f, b)
    BY <2>1 DEF Follows, NextBlock
  <2> QED  BY <2>2, <2>3, <2>4
<1> QED  BY <1>5, <1>6 DEF RunsAlong

(* Along blocks of one frame that are alike: a header block, or payload    *)
(* blocks.                                                                 *)
Alike(L, f, b, n) ==
  \A c \in Nat, k \in Nat : c = b \/ (b >= 1 /\ c >= 1) => L[<<f, c, k>>] = n

RunsTo(g, p, f, b, n, m) ==
  /\ \A i \in 0..(m - 1), k \in 0..(n - 1) : g[p + i * n + k] = <<f, b + i, k>>
  /\ g[p + m * n] = NextBlock(f, b + m - 1)

LEMMA BlocksRun ==
  ASSUME NEW g, NEW L, IsStream(g, L), NEW p \in Nat, NEW f \in Nat, NEW b \in Nat,
         NEW n \in Nat \ {0}, g[p] = <<f, b, 0>>, Alike(L, f, b, n), NBlocks(f) \in Nat,
         NEW m \in Nat \ {0}, b + m - 1 <= NBlocks(f), m > 1 => b >= 1
  PROVE  RunsTo(g, p, f, b, n, m)
<1> DEFINE T == {i \in 0..(m - 1) : g[p + i * n] = <<f, b + i, 0>>}
<1>1. 0 \in T
  OBVIOUS
<1>2. ASSUME NEW i \in 0..(m - 1), g[p + i * n] = <<f, b + i, 0>>
      PROVE  /\ \A k \in 0..(n - 1) : g[p + i * n + k] = <<f, b + i, k>>
             /\ g[p + (i + 1) * n] = NextBlock(f, b + i)
  <2>1. PICK q \in Nat, c \in Nat : q = p + i * n /\ c = b + i
    BY TimesNext
  <2>2. BlockOfLength(L, f, c, n)
    BY <2>1 DEF Alike, BlockOfLength
  <2>3. g[q] = <<f, c, 0>>
    BY <1>2, <2>1
  <2>4. RunsAlong(g, q, f, c, n)
    BY <2>2, <2>3, BlockRun
  <2>5. q + n = p + (i + 1) * n
    BY <2>1, TimesNext
  <2> QED  BY <2>1, <2>4, <2>5 DEF RunsAlong
<1>3. ASSUME NEW i \in 0..(m - 1), i \in T, i < m - 1 PROVE i + 1 \in T
  <2>1. g[p + (i + 1) * n] = NextBlock(f, b + i)
    BY <1>2, <1>3
  <2>2. NextBlock(f, b + i) = <<f, b + (i + 1), 0>>
    BY <1>3 DEF NextBlock
  <2> QED  BY <1>3, <2>1, <2>2
<1>4. \A i \in 0..(m - 1) : g[p + i * n] = <<f, b + i, 0>>
  <2>1. PICK e \in Nat : e = m - 1
    OBVIOUS
  <2> HIDE DEF T
  <2>2. 0..e \subseteq T
    BY <1>1, <1>3, <2>1, InductTo
  <2>3. \A i \in 0..(m - 1) : i \in T
    BY <2>1, <2>2
  <2> QED  BY <2>3 DEF T
<1>5. g[p + m * n] = NextBlock(f, b + m - 1)
  <2>1. PICK i \in 0..(m - 1) : i = m - 1
    OBVIOUS
  <2>2. g[p + (i + 1) * n] = NextBlock(f, b + i)
    BY <1>2, <1>4
  <2> QED  BY <2>1, <2>2
<1> QED  BY <1>2, <1>4, <1>5 DEF RunsTo

(* Blocks none of which but the first is tagged are such.                  *)
LEMMA UntaggedAlike ==
  ASSUME NEW g, NEW L, IsStream(g, L), NEW p \in Nat, NEW f \in Nat, NEW b \in Nat,
         NEW n \in Nat \ {0}, g[p] = <<f, b, 0>>, Alike(L, f, b, n), NBlocks(f) \in Nat,
         b <= NBlocks(f), NEW m \in Nat \ {0}, \A i \in 1..(m - 1) : ~Tagged(g[p + i * n])
  PROVE  b + m - 1 <= NBlocks(f) /\ (m > 1 => b >= 1)
<1> DEFINE T == {i \in 0..(m - 1) : b + i <= NBlocks(f) /\ (i > 0 => b >= 1)}
<1>1. 0 \in T
  OBVIOUS
<1>2. ASSUME NEW i \in 0..(m - 1), i \in T, i < m - 1 PROVE i + 1 \in T
  <2>1. PICK e \in Nat \ {0} : e = i + 1
    OBVIOUS
  <2>2. b + e - 1 <= NBlocks(f) /\ (e > 1 => b >= 1)
    BY <1>2, <2>1
  <2>3. g[p + e * n] = NextBlock(f, b + e - 1)
    <3>1. RunsTo(g, p, f, b, n, e)
      BY <2>2, BlocksRun
    <3> QED  BY <3>1 DEF RunsTo
  <2>4. ~Tagged(g[p + e * n])
    <3>1. e \in 1..(m - 1)
      BY <1>2, <2>1
    <3> QED  BY <3>1
  <2>5. ~Tagged(NextBlock(f, b + e - 1))
    BY <2>3, <2>4
  <2>6. b + e - 1 < NBlocks(f) /\ b + e - 1 + 1 \notin {0, 1}
    BY <2>5 DEF NextBlock, Tagged
  <2> QED  BY <1>2, <2>1, <2>2, <2>6
<1>3. m - 1 \in T
  <2>1. PICK e \in Nat : e = m - 1
    OBVIOUS
  <2> HIDE DEF T
  <2>2. 0..e \subseteq T
    BY <1>1, <1>2, <2>1, InductTo
  <2> QED  BY <2>1, <2>2
<1> QED  BY <1>3

LEMMA LengthsTyped ==
  ASSUME scenario \in Scenarios, NEW f \in 1..Len(frames), NEW b \in Nat
  PROVE  /\ RowsOf(b) \in {SF, SFPayload, SF - 2} /\ RowsOf(b) \in Nat /\ RowsOf(b) >= SF - 2
         /\ CodeLength(f, b) \in 4..8
         /\ Alike(SymbolLengths, f, b, CodeLength(f, b))
         /\ Alike(RowLengths, f, b, RowsOf(b))
<1>1. SF \in 7..16 /\ frames[f].CR \in 0..4 /\ f \in Nat
  BY SFAssumption, FramesTyped
<1>2. CodeLength(f, b) \in 4..8
  BY <1>1 DEF CodeLength
<1>3. RowsOf(b) \in {SF, SFPayload, SF - 2} /\ RowsOf(b) \in Nat /\ RowsOf(b) >= SF - 2
  BY <1>1 DEF RowsOf, SFPayload
<1>4. ASSUME NEW c \in Nat, NEW k \in Nat, c = b \/ (b >= 1 /\ c >= 1)
      PROVE  /\ SymbolLengths[<<f, c, k>>] = CodeLength(f, b)
             /\ RowLengths[<<f, c, k>>] = RowsOf(b)
  <2>1. <<f, c, k>> \in Place
    BY <1>1 DEF Place
  <2>2. b = 0 <=> c = 0
    BY <1>4
  <2>3. CodeLength(f, c) = CodeLength(f, b)
    BY <2>2 DEF CodeLength
  <2>4. RowsOf(c) = RowsOf(b)
    BY <2>2 DEF RowsOf
  <2>5. SymbolLengths[<<f, c, k>>] = CodeLength(f, c)
    BY <2>1 DEF SymbolLengths
  <2>6. RowLengths[<<f, c, k>>] = RowsOf(c)
    BY <2>1 DEF RowLengths
  <2> QED  BY <2>3, <2>4, <2>5, <2>6
<1> QED  BY <1>2, <1>3, <1>4 DEF Alike

Sized(L) ==
  \A f \in 1..Len(frames), b \in Nat : \E n \in Nat \ {0} : Alike(L, f, b, n)

LEMMA BothSized ==
  ASSUME scenario \in Scenarios
  PROVE  Sized(SymbolLengths) /\ Sized(RowLengths)
<1>1. ASSUME NEW f \in 1..Len(frames), NEW b \in Nat
      PROVE  /\ \E n \in Nat \ {0} : Alike(SymbolLengths, f, b, n)
             /\ \E n \in Nat \ {0} : Alike(RowLengths, f, b, n)
  <2>1. PICK n, m : n = CodeLength(f, b) /\ m = RowsOf(b)
    OBVIOUS
  <2>2. n \in Nat \ {0} /\ m \in Nat \ {0}
    <3>1. n \in 4..8
      BY <2>1, LengthsTyped
    <3>2. m \in Nat /\ m >= SF - 2
      BY <2>1, LengthsTyped
    <3>3. n \in Nat \ {0}
      BY <3>1
    <3>4. m # 0
      BY <3>2, SFAssumption
    <3> QED  BY <3>2, <3>3, <3>4
  <2>3. Alike(SymbolLengths, f, b, n) /\ Alike(RowLengths, f, b, m)
    BY <2>1, LengthsTyped
  <2> QED  BY <2>2, <2>3
<1> QED  BY <1>1 DEF Sized

(* A unit of a stream is one of a block, a block one of its frame.         *)
InBlock(u, L) ==
  /\ u[1] >= 1
  /\ u[1] \in 1..Len(frames) => u[2] <= NBlocks(u[1]) /\ u[3] < L[u]

LEMMA StreamInBlocks ==
  ASSUME scenario \in Scenarios, NEW g, NEW L, IsStream(g, L), Sized(L), NEW p \in Nat
  PROVE  InBlock(g[p], L)
<1> DEFINE T == {i \in 0..p : InBlock(g[i], L)}
<1>1. 0 \in T
  <2>1. 1 \in 1..Len(frames) /\ NBlocks(1) \in Nat
    BY FramesTyped
  <2>2. PICK n \in Nat \ {0} : Alike(L, 1, 0, n)
    BY <2>1 DEF Sized
  <2>3. L[<<1, 0, 0>>] = n
    BY <2>2 DEF Alike
  <2>4. g[0] = <<1, 0, 0>>
    BY DEF IsStream
  <2>5. PICK u : u = g[0]
    OBVIOUS
  <2>6. u = <<1, 0, 0>> /\ L[u] = n
    BY <2>3, <2>4, <2>5
  <2>7. InBlock(u, L)
    BY <2>1, <2>2, <2>6 DEF InBlock
  <2> QED  BY <2>5, <2>7
<1>2. ASSUME NEW i \in 0..p, i \in T, i < p PROVE i + 1 \in T
  <2>1. PICK f \in Nat, b \in Nat, k \in Nat : g[i] = <<f, b, k>>
    <3>1. g[i] \in Place
      BY <1>2 DEF IsStream
    <3> QED  BY <3>1 DEF Place
  <2>2. PICK u : u = g[i]
    OBVIOUS
  <2>3. u = <<f, b, k>> /\ InBlock(u, L)
    BY <1>2, <2>1, <2>2
  <2>4. PICK v : v = g[i + 1]
    OBVIOUS
  <2>5. v = Follows(u, L[u])
    BY <1>2, <2>2, <2>4 DEF IsStream
  <2>6. CASE f \in 1..Len(frames)
    <3>1. PICK n \in Nat \ {0} : Alike(L, f, b, n)
      BY <2>6 DEF Sized
    <3>2. L[u] = n /\ L[<<f, b, k + 1>>] = n
      BY <2>3, <3>1 DEF Alike
    <3>3. b <= NBlocks(f) /\ k < n /\ NBlocks(f) \in Nat
      BY <2>3, <2>6, <3>2, FramesTyped DEF InBlock
    <3>4. CASE k + 1 < n
      <4>1. v = <<f, b, k + 1>>
        BY <2>3, <2>5, <3>2, <3>4 DEF Follows
      <4>2. L[v] = n
        BY <3>2, <4>1
      <4>3. InBlock(v, L)
        BY <3>3, <3>4, <4>1, <4>2, <2>6 DEF InBlock
      <4> QED  BY <1>2, <2>4, <4>3
    <3>5. CASE ~(k + 1 < n) /\ b < NBlocks(f)
      <4>1. v = <<f, b + 1, 0>>
        BY <2>3, <2>5, <3>2, <3>5 DEF Follows
      <4>2. PICK m \in Nat \ {0} : Alike(L, f, b + 1, m)
        BY <2>6 DEF Sized
      <4>3. L[v] = m
        BY <4>1, <4>2 DEF Alike
      <4>4. InBlock(v, L)
        BY <3>3, <3>5, <4>1, <4>2, <4>3, <2>6 DEF InBlock
      <4> QED  BY <1>2, <2>4, <4>4
    <3>6. CASE ~(k + 1 < n) /\ ~(b < NBlocks(f))
      <4>1. v = <<f + 1, 0, 0>>
        BY <2>3, <2>5, <3>2, <3>6 DEF Follows
      <4>2. ASSUME f + 1 \in 1..Len(frames)
            PROVE  NBlocks(f + 1) \in Nat /\ L[v] > 0
        <5>1. PICK m \in Nat \ {0} : Alike(L, f + 1, 0, m)
          BY <4>2 DEF Sized
        <5>2. L[v] = m
          BY <4>1, <5>1 DEF Alike
        <5> QED  BY <4>2, <5>1, <5>2, FramesTyped
      <4>3. InBlock(v, L)
        BY <4>1, <4>2 DEF InBlock
      <4> QED  BY <1>2, <2>4, <4>3
    <3> QED  BY <3>4, <3>5, <3>6
  <2>7. CASE f \notin 1..Len(frames)
    <3>1. f > Len(frames) /\ Len(frames) \in Nat
      BY <2>3, <2>7, FramesTyped DEF InBlock
    <3>2. v[1] > Len(frames) /\ v[1] \in Nat
      BY <2>3, <2>5, <3>1 DEF Follows
    <3>3. InBlock(v, L)
      BY <3>1, <3>2 DEF InBlock
    <3> QED  BY <1>2, <2>4, <3>3
  <2> QED  BY <2>6, <2>7
<1>3. 0..p \subseteq T
  <2> HIDE DEF T
  <2> QED  BY <1>1, <1>2, InductTo
<1> QED  BY <1>3

LEMMA BeforeEnd ==
  ASSUME scenario \in Scenarios, NEW g, NEW L, IsStream(g, L), Sized(L),
         NEW p \in Nat, NEW q \in Nat, p <= q, InFrames(g[q])
  PROVE  InFrames(g[p]) /\ (p < q => g[p][1] \in 1..Len(frames))
<1>1. Len(frames) \in Nat /\ DOMAIN frames = 1..Len(frames)
  BY FramesTyped
<1>2. PICK u \in Place, v \in Place : u = g[p] /\ v = g[q]
  BY DEF IsStream
<1>3. u[1] \in Nat /\ u[2] \in Nat /\ u[3] \in Nat /\ v[1] \in Nat
  BY DEF Place
<1>4. InBlock(u, L)
  BY <1>2, StreamInBlocks
<1>5. ASSUME p < q PROVE u[1] \in 1..Len(frames)
  <2>1. Earlier(u, v)
    BY <1>2, <1>5, StreamRises
  <2>2. v[1] \in 1..Len(frames) \/ v = <<Len(frames) + 1, 0, 0>>
    BY <1>1, <1>2 DEF InFrames, AllDone
  <2>3. u[1] <= Len(frames)
    BY <1>1, <1>3, <2>1, <2>2 DEF Earlier
  <2> QED  BY <1>1, <1>3, <1>4, <2>3 DEF InBlock
<1> QED  BY <1>1, <1>2, <1>5 DEF InFrames

(* Slots of a ring.                                                        *)
LEMMA RemainderBelow ==
  ASSUME NEW q \in Nat, NEW N \in Nat, N > 0, NEW r \in 0..(N - 1)
  PROVE  (r - q * N) % N = r
BY SMTT(30)

LEMMA RingSlot ==
  ASSUME NEW N \in Nat, N > 0, NEW m \in Nat, NEW i \in 0..(N - 1)
  PROVE  (((m + i) % N) - m) % N = i /\ (m + i) % N \in 0..(N - 1)
<1>1. PICK x \in Nat : x = m + i
  OBVIOUS
<1>2. x \div N \in Nat /\ x % N \in 0..(N - 1) /\ x = (x \div N) * N + (x % N)
  BY DivMod
<1>3. PICK q \in Nat, r \in 0..(N - 1) : q = x \div N /\ r = x % N
  BY <1>2
<1>4. PICK d : d = q * N
  OBVIOUS
<1>5. d \in Nat /\ m + i = d + r
  BY <1>1, <1>2, <1>3, <1>4, TimesNext
<1>6. r - m = i - d
  BY <1>5
<1>7. (i - d) % N = i
  BY <1>4, RemainderBelow
<1>8. (m + i) % N = r
  BY <1>1, <1>3
<1>9. (((m + i) % N) - m) % N = (i - d) % N
  BY <1>6, <1>8, Zenon
<1>10. (m + i) % N \in 0..(N - 1)
  BY <1>8, Zenon
<1> QED  BY <1>7, <1>9, <1>10, Zenon

LEMMA SlotPlaceOf ==
  ASSUME NEW N \in Nat, N > 0, NEW m \in Nat, NEW s \in 0..(N - 1),
         NEW q \in Nat, NEW r \in 0..(N - 1), m = q * N + r
  PROVE  (s - m) % N \in 0..(N - 1) /\ (m + ((s - m) % N)) % N = s
<1>1. PICK d, e, c : d = q * N /\ e = q + 1 /\ c = e * N
  OBVIOUS
<1>2. d \in Nat /\ e \in Nat /\ m = d + r /\ c = d + N
  BY <1>1, TimesNext
<1>3. CASE s >= r
  <2>1. PICK t \in 0..(N - 1) : t = s - r
    BY <1>3
  <2>2. s - m = t - q * N /\ m + t = q * N + s
    BY <1>1, <1>2, <2>1
  <2>3. (t - q * N) % N = t
    BY RemainderBelow
  <2>4. (q * N + s) % N = s
    BY RemainderOf
  <2> QED  BY <2>2, <2>3, <2>4
<1>4. CASE s < r
  <2>1. PICK t \in 0..(N - 1) : t = s - r + N
    BY <1>4
  <2>2. s - m = t - c /\ m + t = c + s
    BY <1>2, <2>1
  <2>3. (t - c) % N = t
    BY <1>1, <1>2, RemainderBelow
  <2>4. (c + s) % N = s
    BY <1>1, <1>2, RemainderOf
  <2> QED  BY <2>2, <2>3, <2>4
<1> QED  BY <1>3, <1>4

LEMMA SlotPlace ==
  ASSUME NEW N \in Nat, N > 0, NEW m \in Nat, NEW s \in 0..(N - 1)
  PROVE  (s - m) % N \in 0..(N - 1) /\ (m + ((s - m) % N)) % N = s
<1>1. m \div N \in Nat /\ m % N \in 0..(N - 1) /\ m = (m \div N) * N + (m % N)
  BY DivMod
<1>2. PICK q \in Nat, r \in 0..(N - 1) : q = m \div N /\ r = m % N
  BY <1>1
<1>3. m = q * N + r
  BY <1>1, <1>2
<1> QED  BY <1>3, SlotPlaceOf

-----------------------------------------------------------------------------
(* The inductive invariant of the stream.                                  *)
Fits(t, u) == t.SF = RowsOf(u[2]) /\ t.codeLength = CodeLength(u[1], u[2])

Before(v, w) == v[1] < w[1] \/ (v[1] = w[1] /\ v[2] < w[2])

BlockIn(u) == <<u[1], u[2]>>

Parameters == [SF : {SF, SFPayload, SF - 2}, codeLength : 4..8]
TxParameters ==
  [SF : {SF, SFPayload, SF - 2}, codeLength : 4..8, changedParams : BOOLEAN]

Typed ==
  /\ scenario \in Scenarios
  /\ written \in (0..Len(frames)) \X {0, 1}
  /\ written[2] = 0 => written[1] \in 1..Len(frames) /\ NBlocks(written[1]) > 0
  /\ in \in Seq(Place) /\ air \in Seq(SUBSET Place)
  /\ tx \in TxParameters /\ rx \in Parameters
  /\ symbols \in [0..(SymbolSlots - 1) -> SUBSET Place]
  /\ nibbles \in [0..(NibbleSlots - 1) -> SUBSET Place]
  /\ made \in Nat /\ taken \in 0..made /\ out \in Nat /\ lastCall \in 0..out
  /\ fresh \subseteq Nat \X Nat /\ overrun \in BOOLEAN

(* What waits in front of Interleave goes on where the symbols made end,   *)
(* and ends where the controller goes on.                                  *)
NextWritten ==
  IF written[2] = 1 THEN <<written[1] + 1, 0, 0>> ELSE <<written[1], 1, 0>>

RowsFrom(q) ==
  /\ RowDue[q] = SymbolDue[made] /\ RowDue[q][3] = 0
  /\ \A i \in 1..Len(in) : in[i] = RowDue[q + i - 1]
  /\ RowDue[q + Len(in)] = NextWritten

RowsInPlace == \E q \in Nat : RowsFrom(q)

(* Interleave has the parameters of the next block unless its tag is still *)
(* to be read.                                                             *)
TxKnows ==
  /\ tx.changedParams \/ ~Tagged(SymbolDue[made]) => Fits(tx, SymbolDue[made])
  /\ scenario.ldr /\ tx.SF = SF => made = 0

(* A slot or item that should hold the one symbol holds it, and nothing    *)
(* else if its block was the first of its call.                            *)
Holds(slot, due) == due \in slot /\ (slot # {due} => BlockIn(due) \notin fresh)

BufferExplained ==
  ~overrun =>
    /\ made - taken < SymbolSlots
    /\ \A p \in taken..(made - 1) :
         /\ Holds(Slot(p), SymbolDue[p])
         /\ Slot(p) # {SymbolDue[p]} => p >= SymbolSlots
    /\ \A s \in 0..(SymbolSlots - 1) : s >= made => symbols[s] = {}

FreshMade == \A w \in fresh : Before(w, SymbolDue[made])

(* What waits in front of deinterleave is of one header or payload, whose  *)
(* parameters it has, and goes on where its nibbles end.                   *)
First == taken - Len(air)

Arrives(j, due) == Holds(air[j], due) /\ Fits(rx, due) /\ (j > 1 => ~Tagged(due))

AirInPlace ==
  /\ Len(air) <= taken
  /\ SymbolDue[First][3] = 0 /\ RowDue[out] = SymbolDue[First]
  /\ \A j \in 1..Len(air) : Arrives(j, SymbolDue[First + j - 1])
  /\ taken > 0 => Fits(rx, SymbolDue[taken - 1])

NibblesExplained ==
  /\ NibblesReceived
  /\ RowDue[lastCall][3] = 0
  /\ \A s \in 0..(NibbleSlots - 1) : s >= out => nibbles[s] = {}

StreamInv ==
  /\ Typed /\ RowsInPlace /\ TxKnows /\ BufferExplained /\ FreshMade
  /\ AirInPlace /\ NibblesExplained

(* A step does not change the scenario, nor what is due when.              *)
LEMMA ScenarioSame ==
  ASSUME scenario' = scenario
  PROVE  /\ SymbolDue' = SymbolDue /\ RowDue' = RowDue /\ frames' = frames
         /\ SFPayload' = SFPayload
         /\ \A f : NBlocks(f)' = NBlocks(f)
         /\ \A f, b : CodeLength(f, b)' = CodeLength(f, b)
         /\ \A b : RowsOf(b)' = RowsOf(b)
<1>1. frames' = frames /\ SFPayload' = SFPayload
  BY DEF frames, SFPayload
<1>2. \A f : NBlocks(f)' = NBlocks(f)
  BY <1>1 DEF NBlocks
<1>3. \A f, b : CodeLength(f, b)' = CodeLength(f, b)
  BY <1>1 DEF CodeLength
<1>4. \A b : RowsOf(b)' = RowsOf(b)
  BY <1>1 DEF RowsOf
<1>5. SymbolDue' = SymbolDue
  BY DEF SymbolDue, NextSymbol, Follows, NBlocks, CodeLength, frames
<1>6. RowDue' = RowDue
  BY DEF RowDue, NextRow, Follows, NBlocks, RowsOf, SFPayload, frames
<1> QED  BY <1>1, <1>2, <1>3, <1>4, <1>5, <1>6

LEMMA StreamStarts ==
  ASSUME StreamInit
  PROVE  StreamInv
<1>1. /\ scenario \in Scenarios /\ written = <<0, 1>> /\ in = <<>> /\ made = 0 /\ taken = 0
      /\ tx = [SF |-> SF, codeLength |-> frames[1].CR + 4, changedParams |-> FALSE]
      /\ symbols = [s \in 0..(SymbolSlots - 1) |-> {}]
      /\ fresh = {} /\ air = <<>> /\ out = 0 /\ lastCall = 0 /\ overrun = FALSE
      /\ rx = [SF |-> SF, codeLength |-> frames[1].CR + 4]
      /\ nibbles = [s \in 0..(NibbleSlots - 1) |-> {}]
  BY DEF StreamInit
<1>2. 1 \in 1..Len(frames) /\ frames[1].CR \in 0..4 /\ Len(frames) \in Nat
  BY <1>1, FramesTyped
<1>3. frames[1].CR + 4 \in 4..8
  BY <1>2
<1>4. Typed
  <2>1. tx \in TxParameters /\ rx \in Parameters
    BY <1>1, <1>3 DEF TxParameters, Parameters
  <2>2. written \in (0..Len(frames)) \X {0, 1} /\ written[2] # 0
    BY <1>1, <1>2
  <2>3. in \in Seq(Place) /\ air \in Seq(SUBSET Place)
    BY <1>1
  <2>4. symbols \in [0..(SymbolSlots - 1) -> SUBSET Place]
    BY <1>1
  <2>5. nibbles \in [0..(NibbleSlots - 1) -> SUBSET Place]
    BY <1>1
  <2>6. made \in Nat /\ out \in Nat /\ fresh \subseteq Nat \X Nat /\ overrun \in BOOLEAN
    BY <1>1
  <2>7. taken \in 0..made /\ lastCall \in 0..out
    BY <1>1
  <2> QED  BY <1>1, <2>1, <2>2, <2>3, <2>4, <2>5, <2>6, <2>7 DEF Typed
<1>5. SymbolDue[0] = <<1, 0, 0>> /\ RowDue[0] = <<1, 0, 0>>
  BY SymbolStream, RowStream DEF IsStream
<1>6. RowsInPlace
  <2>1. NextWritten = <<1, 0, 0>>
    BY <1>1 DEF NextWritten
  <2>2. Len(in) = 0 /\ 0 + 0 = 0
    BY <1>1
  <2>3. RowsFrom(0)
    BY <1>1, <1>5, <2>1, <2>2 DEF RowsFrom
  <2> QED  BY <2>3 DEF RowsInPlace
<1>7. TxKnows
  BY <1>1, <1>5 DEF TxKnows, Tagged
<1>8. BufferExplained
  <2>1. made - taken < SymbolSlots
    BY <1>1, SlotsAssumption
  <2>2. taken..(made - 1) = {}
    BY <1>1
  <2> QED  BY <1>1, <2>1, <2>2 DEF BufferExplained
<1>9. FreshMade
  BY <1>1 DEF FreshMade
<1>10. AirInPlace
  <2>1. Len(air) = 0
    BY <1>1
  <2>2. First = 0
    <3>1. taken = 0
      BY <1>1
    <3> QED  BY <2>1, <3>1 DEF First
  <2> QED  BY <1>1, <1>5, <2>1, <2>2 DEF AirInPlace
<1>11. NibblesExplained
  <2>1. lastCall..(out - 1) = {}
    BY <1>1
  <2> QED  BY <1>1, <1>5, <2>1 DEF NibblesExplained, NibblesReceived
<1> QED  BY <1>4, <1>6, <1>7, <1>8, <1>9, <1>10, <1>11 DEF StreamInv

(* What a step leaves alone.                                               *)
LEMMA RowsKept ==
  ASSUME RowsInPlace, scenario' = scenario, UNCHANGED <<made, in, written>>
  PROVE  RowsInPlace'
<1>1. PICK q \in Nat : RowsFrom(q)
  BY DEF RowsInPlace
<1>2. NextWritten' = NextWritten
  BY DEF NextWritten
<1>3. RowsFrom(q)'
  BY <1>1, <1>2, ScenarioSame DEF RowsFrom
<1> QED  BY <1>3 DEF RowsInPlace

LEMMA FitsSame ==
  ASSUME scenario' = scenario, NEW t, NEW u, Fits(t, u)
  PROVE  Fits(t, u)'
BY ScenarioSame DEF Fits

LEMMA TxKept ==
  ASSUME TxKnows, scenario' = scenario, UNCHANGED <<made, tx>>
  PROVE  TxKnows'
BY ScenarioSame DEF TxKnows, Fits, Tagged

LEMMA BufferKept ==
  ASSUME BufferExplained, scenario' = scenario, UNCHANGED <<symbols, made, taken, fresh, overrun>>
  PROVE  BufferExplained'
BY ScenarioSame DEF BufferExplained, Holds, Slot

LEMMA FreshKept ==
  ASSUME FreshMade, scenario' = scenario, UNCHANGED <<made, fresh>>
  PROVE  FreshMade'
BY ScenarioSame DEF FreshMade

LEMMA AirKept ==
  ASSUME AirInPlace, scenario' = scenario, UNCHANGED <<air, taken, out, rx, fresh>>
  PROVE  AirInPlace'
BY ScenarioSame DEF AirInPlace, Arrives, Holds, Fits, First, Tagged

LEMMA NibblesKept ==
  ASSUME NibblesExplained, scenario' = scenario, UNCHANGED <<nibbles, out, lastCall, fresh>>
  PROVE  NibblesExplained'
BY ScenarioSame DEF NibblesExplained, NibblesReceived

-----------------------------------------------------------------------------
(* The controller's two calls.                                             *)
LEMMA RowsAdded ==
  ASSUME Typed, RowsInPlace, scenario' = scenario, made' = made,
         NEW rows \in Seq(Place), NEW q \in Nat, RowsFrom(q), in' = in \o rows,
         \A i \in 1..Len(rows) : rows[i] = RowDue[q + Len(in) + i - 1],
         RowDue[q + Len(in) + Len(rows)] = NextWritten'
  PROVE  RowsInPlace' /\ in' \in Seq(Place)
<1>1. in \in Seq(Place)
  BY DEF Typed
<1>2. /\ in' \in Seq(Place) /\ Len(in') = Len(in) + Len(rows)
      /\ \A i \in 1..Len(in) : in'[i] = in[i]
      /\ \A i \in 1..Len(rows) : in'[Len(in) + i] = rows[i]
  BY <1>1, ConcatAt
<1>3. Len(in) \in Nat /\ Len(rows) \in Nat
  BY <1>1
<1>4. ASSUME NEW i \in 1..Len(in') PROVE in'[i] = RowDue[q + i - 1]
  <2>1. CASE i <= Len(in)
    <3>1. i \in 1..Len(in)
      BY <2>1, <1>3
    <3> QED  BY <1>2, <3>1 DEF RowsFrom
  <2>2. CASE i > Len(in)
    <3>1. PICK j \in 1..Len(rows) : i = Len(in) + j
      <4>1. i - Len(in) \in 1..Len(rows) /\ i = Len(in) + (i - Len(in))
        BY <1>2, <1>3, <2>2
      <4> QED  BY <4>1
    <3>2. q + Len(in) + j - 1 = q + i - 1
      BY <1>3, <3>1
    <3>3. in'[i] = rows[j]
      BY <1>2, <3>1
    <3>4. rows[j] = RowDue[q + Len(in) + j - 1]
      OBVIOUS
    <3> QED  BY <3>2, <3>3, <3>4
  <2> QED  BY <1>2, <1>3, <2>1, <2>2
<1>5. q + Len(in') = q + Len(in) + Len(rows)
  BY <1>2, <1>3
<1>6. RowDue' = RowDue /\ SymbolDue' = SymbolDue
  BY ScenarioSame
<1>7. RowsFrom(q)'
  BY <1>4, <1>5, <1>6 DEF RowsFrom
<1> QED  BY <1>2, <1>7 DEF RowsInPlace

LEMMA UnitsAre ==
  ASSUME NEW f \in Nat, NEW b \in Nat, NEW n \in Nat
  PROVE  /\ Units(f, b, n) \in Seq(Place) /\ Len(Units(f, b, n)) = n
         /\ \A i \in 1..n : Units(f, b, n)[i] = <<f, b, i - 1>>
<1>1. Units(f, b, n) = [i \in 1..n |-> <<f, b, i - 1>>]
  BY DEF Units
<1>2. \A i \in 1..n : <<f, b, i - 1>> \in Place
  BY DEF Place
<1>3. [i \in 1..n |-> <<f, b, i - 1>>] \in [1..n -> Place]
  BY <1>2
<1>4. PICK u \in [1..n -> Place] : u = Units(f, b, n)
  BY <1>1, <1>3
<1>5. u \in Seq(Place) /\ Len(u) = n
  BY FunctionIsSeq
<1>6. \A i \in 1..n : u[i] = <<f, b, i - 1>>
  BY <1>1, <1>4
<1> QED  BY <1>4, <1>5, <1>6

LEMMA SourceKeeps ==
  ASSUME StreamInv, scenario' = scenario, UNCHANGED <<txVars, taken, air, rxVars>>
  PROVE  /\ TxKnows' /\ BufferExplained' /\ FreshMade' /\ AirInPlace' /\ NibblesExplained'
         /\ (written' \in (0..Len(frames)) \X {0, 1}
             /\ (written'[2] = 0 => written'[1] \in 1..Len(frames) /\ NBlocks(written'[1]) > 0)
             /\ in' \in Seq(Place)
             => Typed')
<1>1. UNCHANGED <<tx, symbols, made, fresh, overrun, taken, air, rx, nibbles, out, lastCall>>
  BY DEF txVars, rxVars
<1>2. TxKnows' /\ BufferExplained' /\ FreshMade' /\ AirInPlace' /\ NibblesExplained'
  BY <1>1, TxKept, BufferKept, FreshKept, AirKept, NibblesKept DEF StreamInv
<1>3. ASSUME written' \in (0..Len(frames)) \X {0, 1},
             written'[2] = 0 => written'[1] \in 1..Len(frames) /\ NBlocks(written'[1]) > 0,
             in' \in Seq(Place)
      PROVE  Typed'
  <2>1. TxParameters' = TxParameters /\ Parameters' = Parameters
    BY ScenarioSame DEF TxParameters, Parameters
  <2> QED  BY <1>1, <1>3, <2>1, ScenarioSame DEF StreamInv, Typed
<1> QED  BY <1>2, <1>3

LEMMA WriteHeaderStep ==
  ASSUME StreamInv, WriteHeader
  PROVE  StreamInv'
<1> DEFINE f == written[1] + 1
<1>1. /\ written[2] = 1 /\ f \in DOMAIN frames
      /\ written' = <<f, IF NBlocks(f) = 0 THEN 1 ELSE 0>>
      /\ in' = in \o Units(f, 0, RowsOf(0))
      /\ UNCHANGED <<scenario, txVars, taken, air, rxVars>>
  BY DEF WriteHeader
<1>2. Typed /\ RowsInPlace /\ scenario \in Scenarios
  BY DEF StreamInv, Typed
<1>3. f \in 1..Len(frames) /\ NBlocks(f) \in Nat /\ Len(frames) \in Nat /\ f \in Nat
  BY <1>1, <1>2, FramesTyped
<1> HIDE DEF f
<1>4. PICK q \in Nat : RowsFrom(q)
  BY <1>2 DEF RowsInPlace
<1>5. PICK p \in Nat, n \in Nat : p = q + Len(in) /\ n = RowsOf(0)
  <2>1. RowsOf(0) \in Nat
    BY <1>2, <1>3, LengthsTyped
  <2>2. Len(in) \in Nat
    BY <1>2 DEF Typed
  <2> QED  BY <2>1, <2>2
<1>6. n > 0
  BY <1>2, <1>3, <1>5, LengthsTyped, SFAssumption
<1>7. RowDue[p] = <<f, 0, 0>>
  BY <1>1, <1>4, <1>5 DEF RowsFrom, NextWritten, f
<1>8. RunsAlong(RowDue, p, f, 0, n)
  <2>1. BlockOfLength(RowLengths, f, 0, n)
    <3>1. Alike(RowLengths, f, 0, RowsOf(0))
      BY <1>2, <1>3, LengthsTyped
    <3> QED  BY <1>5, <3>1 DEF Alike, BlockOfLength
  <2> QED  BY <1>3, <1>6, <1>7, <2>1, RowStream, BlockRun
<1>9. NextWritten' = NextBlock(f, 0)
  BY <1>1, <1>3 DEF NextWritten, NextBlock
<1>10. PICK rows : rows = Units(f, 0, n)
  OBVIOUS
<1>11. rows \in Seq(Place) /\ Len(rows) = n /\ \A i \in 1..n : rows[i] = <<f, 0, i - 1>>
  BY <1>3, <1>10, UnitsAre
<1>12. \A i \in 1..Len(rows) : rows[i] = RowDue[q + Len(in) + i - 1]
  <2>1. SUFFICES ASSUME NEW i \in 1..n PROVE rows[i] = RowDue[p + i - 1]
    BY <1>5, <1>11
  <2>2. PICK k \in 0..(n - 1) : k = i - 1
    OBVIOUS
  <2>3. p + k = p + i - 1
    BY <2>2
  <2>4. RowDue[p + k] = <<f, 0, k>>
    BY <1>8 DEF RunsAlong
  <2> QED  BY <1>11, <2>2, <2>3, <2>4
<1>13. RowDue[q + Len(in) + Len(rows)] = NextWritten'
  BY <1>5, <1>8, <1>9, <1>11 DEF RunsAlong
<1>14. scenario' = scenario /\ made' = made /\ in' = in \o rows
  BY <1>1, <1>5, <1>10 DEF txVars
<1>15. RowsInPlace' /\ in' \in Seq(Place)
  BY <1>2, <1>4, <1>11, <1>12, <1>13, <1>14, RowsAdded
<1>16. /\ written' \in (0..Len(frames)) \X {0, 1}
       /\ written'[2] = 0 => written'[1] \in 1..Len(frames) /\ NBlocks(written'[1]) > 0
  BY <1>1, <1>3
<1>17. UNCHANGED <<txVars, taken, air, rxVars>>
  BY <1>1
<1> QED  BY <1>14, <1>15, <1>16, <1>17, SourceKeeps DEF StreamInv

LEMMA WritePayloadStep ==
  ASSUME StreamInv, WritePayload
  PROVE  StreamInv'
<1> DEFINE f == written[1]
           m == NBlocks(f)
           n == SFPayload
<1>1. /\ written[2] = 0 /\ written' = <<f, 1>>
      /\ in' = in \o [i \in 1..(m * n) |-> <<f, 1 + (i - 1) \div n, (i - 1) % n>>]
      /\ UNCHANGED <<scenario, txVars, taken, air, rxVars>>
  BY DEF WritePayload
<1>2. Typed /\ RowsInPlace /\ scenario \in Scenarios
  BY DEF StreamInv, Typed
<1>3. f \in 1..Len(frames) /\ m \in Nat \ {0} /\ Len(frames) \in Nat /\ f \in Nat
  BY <1>1, <1>2, FramesTyped DEF Typed
<1>4. n \in Nat /\ n > 0 /\ RowsOf(1) = n
  <2>1. n = RowsOf(1)
    BY DEF RowsOf
  <2>2. RowsOf(1) \in Nat /\ RowsOf(1) >= SF - 2
    BY <1>2, <1>3, LengthsTyped
  <2> QED  BY <2>1, <2>2, SFAssumption
<1>5. Alike(RowLengths, f, 1, n)
  <2>1. Alike(RowLengths, f, 1, RowsOf(1))
    BY <1>2, <1>3, LengthsTyped
  <2> QED  BY <2>1, <1>4
<1>6. NextWritten = <<f, 1, 0>> /\ NextWritten' = <<f + 1, 0, 0>>
  BY <1>1 DEF NextWritten
<1>7. PICK rows : rows = [i \in 1..(m * n) |-> <<f, 1 + (i - 1) \div n, (i - 1) % n>>]
  OBVIOUS
<1>8. in' = in \o rows
  BY <1>1, <1>7
<1>9. NBlocks(f) = m
  OBVIOUS
<1> HIDE DEF f, m, n
<1>10. PICK q \in Nat : RowsFrom(q)
  BY <1>2 DEF RowsInPlace
<1>11. PICK p \in Nat : p = q + Len(in)
  <2>1. Len(in) \in Nat
    BY <1>2 DEF Typed
  <2> QED  BY <2>1
<1>12. RowDue[p] = <<f, 1, 0>>
  BY <1>6, <1>10, <1>11 DEF RowsFrom
<1>13. RunsTo(RowDue, p, f, 1, n, m)
  <2>1. 1 + m - 1 <= NBlocks(f)
    BY <1>3, <1>9
  <2> QED  BY <1>3, <1>4, <1>5, <1>9, <1>12, <2>1, RowStream, BlocksRun
<1>14. PICK t : t = m * n
  OBVIOUS
<1>15. t \in Nat
  BY <1>3, <1>4, <1>14, TimesNext
<1>16. ASSUME NEW i \in 1..t
       PROVE  /\ rows[i] \in Place
              /\ rows[i] = RowDue[p + i - 1]
  <2>1. PICK x \in Nat : x = i - 1
    OBVIOUS
  <2>2. x \div n \in Nat /\ x % n \in 0..(n - 1) /\ x = (x \div n) * n + (x % n)
    BY <1>4, DivMod
  <2>3. PICK c \in Nat, k \in 0..(n - 1) : c = x \div n /\ k = x % n
    BY <2>2
  <2>4. x = c * n + k
    BY <2>2, <2>3
  <2>5. c < m
    <3>1. SUFFICES ASSUME m <= c PROVE FALSE
      BY <1>3
    <3>2. m * n <= c * n
      BY <1>3, <1>4, <3>1, TimesMonotone
    <3>3. PICK y : y = c * n
      OBVIOUS
    <3>4. y \in Nat
      BY <1>4, <3>3, TimesNext
    <3>5. t <= y /\ x = y + k
      BY <1>14, <2>4, <3>2, <3>3
    <3> QED  BY <1>15, <2>1, <3>4, <3>5
  <2>6. RowDue[p + c * n + k] = <<f, 1 + c, k>>
    BY <1>3, <1>13, <2>5 DEF RunsTo
  <2>7. p + c * n + k = p + i - 1
    <3>1. PICK y : y = c * n
      OBVIOUS
    <3>2. y \in Nat
      BY <1>4, <3>1, TimesNext
    <3>3. i - 1 = y + k
      BY <2>1, <2>4, <3>1
    <3> QED  BY <1>4, <3>1, <3>2, <3>3
  <2>8. rows[i] = <<f, 1 + (i - 1) \div n, (i - 1) % n>>
    BY <1>7, <1>14
  <2>9. rows[i] = <<f, 1 + c, k>>
    BY <2>1, <2>3, <2>8
  <2>10. rows[i] \in Place
    BY <1>3, <1>4, <2>9 DEF Place
  <2> QED  BY <2>6, <2>7, <2>9, <2>10
<1>17. rows \in Seq(Place) /\ Len(rows) = t
  <2>1. DOMAIN rows = 1..t /\ rows = [i \in 1..t |-> rows[i]]
    BY <1>7, <1>14
  <2>2. rows \in [1..t -> Place]
    BY <1>16, <2>1
  <2> QED  BY <1>15, <2>2, FunctionIsSeq
<1>18. \A i \in 1..Len(rows) : rows[i] = RowDue[q + Len(in) + i - 1]
  BY <1>11, <1>16, <1>17
<1>19. RowDue[q + Len(in) + Len(rows)] = NextWritten'
  <2>1. RowDue[p + m * n] = NextBlock(f, 1 + m - 1)
    BY <1>13 DEF RunsTo
  <2>2. NextBlock(f, 1 + m - 1) = <<f + 1, 0, 0>>
    BY <1>3, <1>9 DEF NextBlock
  <2> QED  BY <1>6, <1>11, <1>14, <1>17, <2>1, <2>2
<1>20. scenario' = scenario /\ made' = made
  BY <1>1 DEF txVars
<1>21. RowsInPlace' /\ in' \in Seq(Place)
  BY <1>2, <1>8, <1>10, <1>17, <1>18, <1>19, <1>20, RowsAdded
<1>22. /\ written' \in (0..Len(frames)) \X {0, 1}
       /\ written'[2] = 0 => written'[1] \in 1..Len(frames) /\ NBlocks(written'[1]) > 0
  BY <1>1, <1>3
<1>23. UNCHANGED <<txVars, taken, air, rxVars>>
  BY <1>1
<1> QED  BY <1>20, <1>21, <1>22, <1>23, SourceKeeps DEF StreamInv

-----------------------------------------------------------------------------
(* A call of Interleave: where it starts and where it stops.               *)
LEMMA NextInFrames ==
  ASSUME Typed
  PROVE  InFrames(NextWritten)
<1>1. /\ written \in (0..Len(frames)) \X {0, 1}
      /\ written[2] = 0 => written[1] \in 1..Len(frames)
  BY DEF Typed
<1>2. Len(frames) \in Nat /\ DOMAIN frames = 1..Len(frames)
  BY FramesTyped DEF Typed
<1>3. CASE written[2] = 1
  <2>1. NextWritten = <<written[1] + 1, 0, 0>> /\ written[1] + 1 \in 1..(Len(frames) + 1)
    BY <1>1, <1>2, <1>3 DEF NextWritten
  <2> QED  BY <1>2, <2>1 DEF InFrames, AllDone
<1>4. CASE written[2] # 1
  <2>1. NextWritten = <<written[1], 1, 0>> /\ written[1] \in 1..Len(frames)
    BY <1>1, <1>4 DEF NextWritten
  <2> QED  BY <1>2, <2>1 DEF InFrames
<1> QED  BY <1>3, <1>4

LEMMA CallStart ==
  ASSUME Typed, RowsInPlace, Len(in) > 0
  PROVE  \E q \in Nat, f \in 1..Len(frames), b \in Nat :
           /\ RowsFrom(q) /\ SymbolDue[made] = <<f, b, 0>> /\ in[1] = <<f, b, 0>>
           /\ RowDue[q] = <<f, b, 0>> /\ b <= NBlocks(f)
<1>1. PICK q \in Nat : RowsFrom(q)
  BY DEF RowsInPlace
<1>2. scenario \in Scenarios /\ in \in Seq(Place)
  BY DEF Typed
<1>3. PICK n \in Nat : n = Len(in)
  BY <1>2
<1>4. n > 0 /\ in[1] = RowDue[q]
  <2>1. 1 \in 1..Len(in) /\ q + 1 - 1 = q
    BY <1>3
  <2> QED  BY <1>1, <1>3, <2>1 DEF RowsFrom
<1>5. PICK u \in Place : u = RowDue[q]
  BY RowStream DEF IsStream
<1>6. PICK f \in Nat, b \in Nat, k \in Nat : u = <<f, b, k>>
  BY DEF Place
<1>7. k = 0 /\ SymbolDue[made] = u
  BY <1>1, <1>5, <1>6 DEF RowsFrom
<1>8. InFrames(RowDue[q + n])
  <2>1. RowDue[q + n] = NextWritten
    BY <1>1, <1>3 DEF RowsFrom
  <2> QED  BY <2>1, NextInFrames
<1>9. u[1] \in 1..Len(frames)
  <2>1. q + n \in Nat /\ q <= q + n /\ q < q + n
    BY <1>4
  <2> QED  BY <1>2, <1>5, <1>8, <2>1, RowStream, BothSized, BeforeEnd
<1>10. InBlock(u, RowLengths)
  BY <1>2, <1>5, RowStream, BothSized, StreamInBlocks
<1>11. b <= NBlocks(f)
  BY <1>6, <1>9, <1>10 DEF InBlock
<1>12. /\ f \in 1..Len(frames) /\ SymbolDue[made] = <<f, b, 0>> /\ in[1] = <<f, b, 0>>
       /\ RowDue[q] = <<f, b, 0>>
  BY <1>4, <1>5, <1>6, <1>7, <1>9
<1> QED  BY <1>1, <1>11, <1>12

Stops(i) == Tagged(in[i * tx.SF + 1]) /\ (i # 0 \/ ~tx.changedParams)

LEMMA StopsThere ==
  ASSUME NEW n \in Nat
  PROVE  /\ StopAt(n) \in 0..n
         /\ \A i \in 0..(StopAt(n) - 1) : ~Stops(i)
         /\ StopAt(n) < n => Stops(StopAt(n))
<1>1. PICK T : T = {i \in 0..(n - 1) : Stops(i)}
  OBVIOUS
<1>2. StopAt(n) = IF T = {} THEN n ELSE Min(T)
  BY <1>1 DEF StopAt, Stops
<1>3. CASE T = {}
  BY <1>1, <1>2, <1>3
<1>4. CASE T # {}
  <2>1. \E x \in T : \A y \in T : x <= y
    BY <1>1, <1>4, NatMin
  <2>2. Min(T) \in T /\ \A y \in T : Min(T) <= y
    BY <2>1 DEF Min
  <2>3. PICK x \in T : x = StopAt(n) /\ \A y \in T : x <= y
    BY <1>2, <1>4, <2>2
  <2>4. x \in 0..(n - 1) /\ Stops(x)
    BY <1>1, <2>3
  <2>5. ASSUME NEW i \in 0..(x - 1) PROVE ~Stops(i)
    BY <1>1, <2>3, <2>4
  <2> QED  BY <2>3, <2>4, <2>5
<1> QED  BY <1>3, <1>4

(* What it makes of rows that are in place.                                *)
Makes(q, f, b, m) ==
  /\ RunsTo(RowDue, q, f, b, tx.SF, m) /\ RunsTo(SymbolDue, made, f, b, tx.codeLength, m)
  /\ b + m - 1 <= NBlocks(f) /\ (m > 1 => b >= 1)

LEMMA TxTyped ==
  ASSUME Typed
  PROVE  tx.SF \in Nat \ {0} /\ tx.codeLength \in 4..8 /\ tx.changedParams \in BOOLEAN
<1>1. tx.SF \in {SF, SFPayload, SF - 2} /\ tx.codeLength \in 4..8 /\ tx.changedParams \in BOOLEAN
  BY DEF Typed, TxParameters
<1>2. {SF, SFPayload, SF - 2} \subseteq Nat \ {0}
  BY SFAssumption DEF SFPayload
<1> QED  BY <1>1, <1>2

LEMMA CallMakes ==
  ASSUME Typed, NEW q \in Nat, NEW f \in 1..Len(frames), NEW b \in Nat, RowsFrom(q),
         SymbolDue[made] = <<f, b, 0>>, b <= NBlocks(f), Fits(tx, <<f, b, 0>>),
         NEW m \in Nat \ {0}, m * tx.SF <= Len(in), \A i \in 1..(m - 1) : ~Stops(i)
  PROVE  Makes(q, f, b, m)
<1>1. scenario \in Scenarios /\ made \in Nat /\ in \in Seq(Place)
  BY DEF Typed
<1>2. f \in Nat /\ NBlocks(f) \in Nat
  BY <1>1, FramesTyped
<1>3. PICK S, L : S = tx.SF /\ L = tx.codeLength
  OBVIOUS
<1>4. S \in Nat \ {0} /\ L \in Nat \ {0} /\ S = RowsOf(b) /\ L = CodeLength(f, b)
  BY <1>3, TxTyped DEF Fits
<1>5. Alike(RowLengths, f, b, S) /\ Alike(SymbolLengths, f, b, L)
  <2>1. Alike(RowLengths, f, b, RowsOf(b)) /\ Alike(SymbolLengths, f, b, CodeLength(f, b))
    BY <1>1, LengthsTyped
  <2> QED  BY <1>4, <2>1
<1>6. RowDue[q] = <<f, b, 0>>
  BY DEF RowsFrom
<1>7. ASSUME NEW i \in 1..(m - 1) PROVE ~Tagged(RowDue[q + i * S])
  <2>1. ~Tagged(in[i * S + 1])
    BY <1>3, <1>7 DEF Stops
  <2>2. PICK x, y : x = i * S /\ y = m * S
    OBVIOUS
  <2>3. x \in Nat /\ y \in Nat /\ x + S <= y /\ y <= Len(in)
    <3>1. PICK e \in Nat : e = i + 1
      OBVIOUS
    <3>2. e * S <= m * S
      BY <1>4, <1>7, <3>1, TimesMonotone
    <3>3. x \in Nat /\ e * S = x + S
      BY <1>4, <2>2, <3>1, TimesNext
    <3>4. y \in Nat /\ y <= Len(in)
      BY <1>3, <1>4, <2>2, TimesNext
    <3> QED  BY <2>2, <3>2, <3>3, <3>4
  <2>4. x + 1 \in 1..Len(in) /\ q + (x + 1) - 1 = q + x
    BY <1>1, <1>4, <2>3
  <2>5. in[x + 1] = RowDue[q + x]
    BY <2>4 DEF RowsFrom
  <2> QED  BY <2>1, <2>2, <2>5
<1>8. b + m - 1 <= NBlocks(f) /\ (m > 1 => b >= 1)
  BY <1>2, <1>4, <1>5, <1>6, <1>7, RowStream, UntaggedAlike
<1>9. RunsTo(RowDue, q, f, b, S, m)
  BY <1>2, <1>4, <1>5, <1>6, <1>8, RowStream, BlocksRun
<1>10. RunsTo(SymbolDue, made, f, b, L, m)
  BY <1>1, <1>2, <1>4, <1>5, <1>8, SymbolStream, BlocksRun
<1> QED  BY <1>3, <1>8, <1>9, <1>10 DEF Makes

LEMMA Excerpt ==
  ASSUME NEW S, NEW s \in Seq(S), NEW x \in Nat, NEW n \in Nat, x + n <= Len(s)
  PROVE  LET r == SubSeq(s, x + 1, x + n)
         IN  /\ r \in Seq(S) /\ Len(r) = n
             /\ \A k \in 1..n : r[k] = s[x + k]
OBVIOUS

LEMMA PartOf ==
  ASSUME NEW S \in Nat, NEW m \in Nat, NEW i \in 0..(m - 1)
  PROVE  /\ i * S \in Nat /\ m * S \in Nat /\ (i + 1) * S = i * S + S
         /\ i * S + S <= m * S
<1>1. PICK e \in Nat : e = i + 1
  OBVIOUS
<1>2. i \in Nat /\ e <= m
  BY <1>1
<1>3. i * S \in Nat /\ m * S \in Nat /\ e * S = i * S + S
  BY <1>1, <1>2, TimesNext
<1>4. e * S <= m * S
  BY <1>2, TimesMonotone
<1> QED  BY <1>1, <1>3, <1>4

LEMMA BlockMade ==
  ASSUME Typed, NEW q \in Nat, NEW f \in 1..Len(frames), NEW b \in Nat, RowsFrom(q),
         Fits(tx, <<f, b, 0>>), NEW m \in Nat \ {0}, m * tx.SF <= Len(in),
         Makes(q, f, b, m), NEW i \in 0..(m - 1)
  PROVE  BlockOf(RowsAt(i)) = <<f, b + i>>
<1>1. scenario \in Scenarios /\ in \in Seq(Place) /\ f \in Nat
  BY FramesTyped DEF Typed
<1>2. PICK S : S = tx.SF
  OBVIOUS
<1>3. S \in Nat \ {0} /\ S = RowsOf(b) /\ tx.codeLength = CodeLength(f, b)
  BY <1>2, TxTyped DEF Fits
<1>4. PICK x, y, c : x = i * S /\ y = m * S /\ c = b + i
  OBVIOUS
<1>5. x \in Nat /\ y \in Nat /\ (i + 1) * S = x + S /\ x + S <= y /\ y <= Len(in)
  BY <1>2, <1>3, <1>4, PartOf
<1>6. c \in Nat /\ (b = 0 <=> c = 0)
  BY <1>4 DEF Makes
<1>7. RowsOf(c) = S /\ CodeLength(f, c) = tx.codeLength
  BY <1>3, <1>6 DEF RowsOf, CodeLength
<1>8. PICK r : r = RowsAt(i)
  OBVIOUS
<1>9. r = SubSeq(in, x + 1, x + S)
  BY <1>2, <1>4, <1>5, <1>8 DEF RowsAt
<1>10. r \in Seq(Place) /\ Len(r) = S /\ \A k \in 1..S : r[k] = in[x + k]
  <2>1. x + S <= Len(in) /\ S \in Nat /\ x \in Nat
    BY <1>1, <1>3, <1>5
  <2>2. in \in Seq(Place)
    BY <1>1
  <2> QED  BY <1>9, <2>1, <2>2, Excerpt
<1>11. ASSUME NEW k \in 1..S PROVE r[k] = <<f, c, k - 1>>
  <2>1. x + k \in 1..Len(in) /\ q + (x + k) - 1 = q + x + (k - 1) /\ k - 1 \in 0..(S - 1)
    BY <1>1, <1>3, <1>5
  <2>2. in[x + k] = RowDue[q + (x + k) - 1]
    BY <2>1 DEF RowsFrom
  <2>3. RowDue[q + i * S + (k - 1)] = <<f, b + i, k - 1>>
    BY <1>2, <2>1 DEF Makes, RunsTo
  <2> QED  BY <1>4, <1>10, <2>1, <2>2, <2>3
<1>12. PICK w : w = Units(f, c, S)
  OBVIOUS
<1>13. w \in Seq(Place) /\ Len(w) = S /\ \A k \in 1..S : w[k] = <<f, c, k - 1>>
  <2>1. f \in Nat /\ c \in Nat /\ S \in Nat
    BY <1>1, <1>3, <1>6
  <2> QED  BY <1>12, <2>1, UnitsAre
<1>14. r = w
  BY <1>10, <1>11, <1>13, SameSeq
<1>15. r[1] = <<f, c, 0>>
  BY <1>3, <1>11
<1>16. r[1][1] = f /\ r[1][2] = c
  BY <1>15
<1>17. BlockOf(r) = <<f, c>>
  BY <1>7, <1>12, <1>14, <1>16 DEF BlockOf
<1> QED  BY <1>4, <1>8, <1>17

LEMMA RemainderOfLap ==
  ASSUME NEW N \in Nat, N > 0, NEW p \in Nat
  PROVE  (p + N) % N = p % N
<1>1. p \div N \in Nat /\ p % N \in 0..(N - 1) /\ p = (p \div N) * N + (p % N)
  BY DivMod
<1>2. PICK q \in Nat, r \in 0..(N - 1) : q = p \div N /\ r = p % N
  BY <1>1
<1>3. PICK e \in Nat : e = q + 1
  OBVIOUS
<1>4. p = q * N + r /\ e * N = q * N + N
  BY <1>1, <1>2, <1>3, TimesNext
<1>5. p + N = e * N + r
  <2>1. PICK x \in Nat : x = q * N
    BY TimesNext
  <2> QED  BY <1>4, <2>1
<1>6. (e * N + r) % N = r
  BY RemainderOf
<1> QED  BY <1>2, <1>5, <1>6

LEMMA UnreadSlot ==
  ASSUME NEW N \in Nat, N > 0, NEW m \in Nat, NEW p \in Nat, p < m, m - p <= N
  PROVE  ((p % N) - m) % N = N - (m - p)
<1>1. PICK i \in 0..(N - 1) : i = N - (m - p)
  OBVIOUS
<1>2. (((m + i) % N) - m) % N = i
  BY RingSlot
<1>3. m + i = p + N
  BY <1>1
<1>4. (m + i) % N = p % N
  BY <1>3, RemainderOfLap
<1> QED  BY <1>1, <1>2, <1>4

LEMMA MaxOne ==
  ASSUME NEW n \in Nat
  PROVE  Max({n, 1}) = IF n = 0 THEN 1 ELSE n
<1>1. PICK x : x = IF n = 0 THEN 1 ELSE n
  OBVIOUS
<1>2. x \in {n, 1} /\ \A y \in {n, 1} : x >= y
  BY <1>1
<1>3. \A z \in {n, 1} : (\A y \in {n, 1} : z >= y) => z = x
  BY <1>1
<1>4. Max({n, 1}) \in {n, 1} /\ \A y \in {n, 1} : Max({n, 1}) >= y
  BY <1>2 DEF Max
<1> QED  BY <1>1, <1>3, <1>4

(* The slot of the symbol after i others that a call starts with.          *)
LEMMA FillAt ==
  ASSUME Typed, NEW n \in Nat, NEW i \in 0..(SymbolSlots - 1), NEW s,
         s = (made + i) % SymbolSlots, NEW L, L = tx.codeLength
  PROVE  /\ s \in 0..(SymbolSlots - 1)
         /\ Fill(n)[s] =
              IF i >= Max({n, 1}) * L THEN symbols[s]
              ELSE Cleared(symbols[s], i) \union
                   (IF i \div L < n THEN {BlockOf(RowsAt(i \div L)) \o <<i % L>>} ELSE {})
<1>1. SymbolSlots \in Nat /\ SymbolSlots > 0 /\ made \in Nat
  BY SlotsAssumption DEF Typed
<1>2. s \in 0..(SymbolSlots - 1) /\ (s - made) % SymbolSlots = i
  BY <1>1, RingSlot
<1>3. DOMAIN symbols = 0..(SymbolSlots - 1)
  BY DEF Typed
<1>4. s \in DOMAIN symbols
  BY <1>2, <1>3
<1> QED  BY <1>2, <1>4, Zenon DEF Fill

LEMMA FillNothing ==
  ASSUME Typed, NEW i \in 0..(SymbolSlots - 1), NEW s, s = (made + i) % SymbolSlots
  PROVE  Fill(0)[s] = IF i >= tx.codeLength THEN symbols[s] ELSE {}
<1>1. PICK L : L = tx.codeLength
  OBVIOUS
<1>2. L \in 4..8
  BY <1>1, TxTyped
<1>3. Max({0, 1}) * L = L
  BY <1>2, MaxOne
<1>4. i \div L \in Nat
  BY <1>2, DivMod
<1>5. ~(i \div L < 0)
  BY <1>4
<1>6. Fill(0)[s] =
        IF i >= L THEN symbols[s]
        ELSE Cleared(symbols[s], i) \union
             (IF i \div L < 0 THEN {BlockOf(RowsAt(i \div L)) \o <<i % L>>} ELSE {})
  <2>1. Fill(0)[s] =
          IF i >= Max({0, 1}) * L THEN symbols[s]
          ELSE Cleared(symbols[s], i) \union
               (IF i \div L < 0 THEN {BlockOf(RowsAt(i \div L)) \o <<i % L>>} ELSE {})
    BY <1>1, FillAt
  <2> QED  BY <1>3, <2>1, Zenon
<1>7. ~(i >= L) => Cleared(symbols[s], i) = {}
  BY <1>1, <1>2 DEF Cleared
<1>8. CASE i >= L
  BY <1>1, <1>6, <1>8, Zenon
<1>9. CASE ~(i >= L)
  <2>1. Fill(0)[s] = Cleared(symbols[s], i) \union {}
    BY <1>5, <1>6, <1>9, Zenon
  <2> QED  BY <1>1, <1>7, <1>9, <2>1
<1> QED  BY <1>8, <1>9

LEMMA PairAndOne ==
  ASSUME NEW a \in Nat, NEW b \in Nat, NEW c \in Nat
  PROVE  <<a, b>> \o <<c>> = <<a, b, c>>
<1>1. <<a, b>> \in Seq(Nat)
  OBVIOUS
<1>8. <<c>> \in Seq(Nat)
  OBVIOUS
<1>9. <<a, b, c>> \in Seq(Nat)
  OBVIOUS
<1> PICK s \in Seq(Nat) : s = <<a, b>>
  BY <1>1
<1> PICK t \in Seq(Nat) : t = <<c>>
  BY <1>8
<1> PICK r \in Seq(Nat) : r = <<a, b, c>>
  BY <1>9
<1>2. /\ s \o t \in Seq(Nat) /\ Len(s \o t) = Len(s) + Len(t)
      /\ \A i \in 1..Len(s) : (s \o t)[i] = s[i]
      /\ \A i \in 1..Len(t) : (s \o t)[Len(s) + i] = t[i]
  BY ConcatAt
<1>3. Len(s) = 2 /\ Len(t) = 1 /\ Len(r) = 3
  OBVIOUS
<1>4. PICK w \in Seq(Nat) : w = s \o t
  BY <1>2
<1>5. Len(w) = 3 /\ w[1] = s[1] /\ w[2] = s[2] /\ w[3] = t[1]
  BY <1>2, <1>3, <1>4
<1>6. \A i \in 1..Len(w) : w[i] = r[i]
  BY <1>3, <1>5
<1>7. w = r
  BY <1>3, <1>5, <1>6, SameSeq
<1> QED  BY <1>4, <1>7

LEMMA FillMade ==
  ASSUME Typed, NEW q \in Nat, NEW f \in 1..Len(frames), NEW b \in Nat, RowsFrom(q),
         Fits(tx, <<f, b, 0>>), NEW m \in Nat \ {0}, m * tx.SF <= Len(in), Makes(q, f, b, m),
         NEW i \in 0..(SymbolSlots - 1), NEW s, s = (made + i) % SymbolSlots
  PROVE  /\ i >= m * tx.codeLength => Fill(m)[s] = symbols[s]
         /\ i < m * tx.codeLength =>
              /\ Fill(m)[s] = Cleared(symbols[s], i) \union {SymbolDue[made + i]}
              /\ SymbolDue[made + i][1] = f
              /\ i >= tx.codeLength => SymbolDue[made + i][2] > b
<1>1. PICK L : L = tx.codeLength
  OBVIOUS
<1>2. L \in 4..8
  BY <1>1, TxTyped
<1>3. Max({m, 1}) = m
  BY MaxOne
<1>4. PICK c, k : c = i \div L /\ k = i % L
  OBVIOUS
<1>5. c \in Nat /\ k \in 0..(L - 1) /\ i = c * L + k
  BY <1>2, <1>4, DivMod
<1>6. Fill(m)[s] =
        IF i >= m * L THEN symbols[s]
        ELSE Cleared(symbols[s], i) \union
             (IF c < m THEN {BlockOf(RowsAt(c)) \o <<k>>} ELSE {})
  <2>1. Fill(m)[s] =
          IF i >= Max({m, 1}) * L THEN symbols[s]
          ELSE Cleared(symbols[s], i) \union
               (IF i \div L < m THEN {BlockOf(RowsAt(i \div L)) \o <<i % L>>} ELSE {})
    BY <1>1, FillAt
  <2> QED  BY <1>3, <1>4, <2>1, Zenon
<1>7. ASSUME i < m * L
      PROVE  /\ Fill(m)[s] = Cleared(symbols[s], i) \union {SymbolDue[made + i]}
             /\ SymbolDue[made + i][1] = f
             /\ i >= L => SymbolDue[made + i][2] > b
  <2>1. c < m
    <3>1. SUFFICES ASSUME m <= c PROVE FALSE
      BY <1>5
    <3>2. m * L <= c * L
      BY <1>2, <1>5, <3>1, TimesMonotone
    <3>3. PICK y \in Nat, z \in Nat : y = c * L /\ z = m * L
      BY <1>2, <1>5, TimesNext
    <3> QED  BY <1>2, <1>5, <1>7, <3>2, <3>3
  <2>2. BlockOf(RowsAt(c)) = <<f, b + c>>
    <3>1. c \in 0..(m - 1)
      BY <1>5, <2>1
    <3> QED  BY <3>1, BlockMade
  <2>3. BlockOf(RowsAt(c)) \o <<k>> = <<f, b + c, k>>
    <3>1. PICK x \in Nat : x = b + c
      BY <1>5
    <3>2. f \in Nat /\ k \in Nat
      BY <1>2, <1>5, FramesTyped DEF Typed
    <3>3. <<f, x>> \o <<k>> = <<f, x, k>>
      BY <3>2, PairAndOne
    <3> QED  BY <2>2, <3>1, <3>3
  <2>4. SymbolDue[made + i] = <<f, b + c, k>>
    <3>1. c \in 0..(m - 1)
      BY <1>5, <2>1
    <3>2. SymbolDue[made + c * L + k] = <<f, b + c, k>>
      BY <1>1, <1>5, <3>1 DEF Makes, RunsTo
    <3>3. made + c * L + k = made + i
      <4>1. PICK y \in Nat : y = c * L
        BY <1>2, <1>5, TimesNext
      <4>2. made \in Nat
        BY DEF Typed
      <4> QED  BY <1>2, <1>5, <4>1, <4>2
    <3> QED  BY <3>2, <3>3
  <2>5. i >= L => c > 0
    <3>1. c = 0 => i = k
      BY <1>2, <1>5
    <3> QED  BY <1>2, <1>5, <3>1
  <2>6. PICK z \in Nat : z = m * L
    BY <1>2, TimesNext
  <2>7. ~(i >= m * L)
    <3>1. i < z
      BY <1>7, <2>6
    <3>2. ~(i >= z)
      BY <1>5, <3>1
    <3> QED  BY <2>6, <3>2, Zenon
  <2>8. Fill(m)[s] = Cleared(symbols[s], i) \union {SymbolDue[made + i]}
    BY <1>6, <2>1, <2>3, <2>4, <2>7, Zenon
  <2>9. SymbolDue[made + i][1] = f /\ SymbolDue[made + i][2] = b + c
    BY <2>4
  <2> QED  BY <1>5, <2>5, <2>8, <2>9
<1>8. i >= m * L => Fill(m)[s] = symbols[s]
  BY <1>6, Zenon
<1> QED  BY <1>1, <1>7, <1>8

-----------------------------------------------------------------------------
(* The symbols before the first of a block are of blocks before it.        *)
LEMMA BlockBefore ==
  ASSUME NEW g, NEW L, IsStream(g, L), NEW p \in Nat, NEW m \in Nat, p < m, g[m][3] = 0
  PROVE  Before(g[p], g[m])
<1>1. Earlier(g[p], g[m])
  BY StreamRises
<1>2. g[p][3] \in Nat
  BY DEF IsStream, Place
<1> QED  BY <1>1, <1>2 DEF Earlier, Before

NewlyFresh == \A w \in fresh' : w \in fresh \/ w = BlockIn(SymbolDue[made])

LEMMA BeforeNotFresh ==
  ASSUME NewlyFresh, NEW v \in Place, SymbolDue[made] \in Place,
         Before(v, SymbolDue[made]), BlockIn(v) \notin fresh
  PROVE  BlockIn(v) \notin fresh'
<1>1. PICK u \in Place : u = SymbolDue[made]
  OBVIOUS
<1>2. u[1] \in Nat /\ u[2] \in Nat /\ v[1] \in Nat /\ v[2] \in Nat
  BY DEF Place
<1>3. BlockIn(v) # BlockIn(u)
  BY <1>1, <1>2 DEF Before, BlockIn
<1> QED  BY <1>1, <1>3 DEF NewlyFresh

LEMMA HoldsOn ==
  ASSUME NewlyFresh, NEW v \in Place, SymbolDue[made] \in Place,
         Before(v, SymbolDue[made]), NEW slot, Holds(slot, v)
  PROVE  Holds(slot, v)'
BY BeforeNotFresh DEF Holds, BlockIn

LEMMA AirFresh ==
  ASSUME StreamInv, scenario' = scenario, NewlyFresh, SymbolDue[made][3] = 0,
         UNCHANGED <<air, taken, out, rx>>
  PROVE  AirInPlace'
<1>1. Typed /\ AirInPlace
  BY DEF StreamInv
<1>2. made \in Nat /\ taken \in Nat /\ taken <= made /\ Len(air) \in Nat
  BY <1>1 DEF Typed
<1>3. \A p \in Nat : SymbolDue[p] \in Place
  BY SymbolStream DEF IsStream
<1>4. First' = First /\ First + Len(air) = taken /\ First \in Nat
  BY <1>1, <1>2 DEF First, AirInPlace
<1>5. ASSUME NEW j \in 1..Len(air), NEW due, due = SymbolDue[First + j - 1]
      PROVE  Arrives(j, due)'
  <2>1. Holds(air[j], due) /\ Fits(rx, due) /\ (j > 1 => ~Tagged(due))
    BY <1>1, <1>5 DEF AirInPlace, Arrives
  <2>2. PICK p \in Nat : p = First + j - 1 /\ p < made
    BY <1>2, <1>4
  <2>3. Before(due, SymbolDue[made])
    BY <1>2, <1>5, <2>2, SymbolStream, BlockBefore
  <2>4. due \in Place /\ SymbolDue[made] \in Place
    BY <1>2, <1>3, <1>5, <2>2
  <2>5. PICK slot : slot = air[j] /\ air' = air
    OBVIOUS
  <2>6. Holds(slot, due)'
    BY <2>1, <2>3, <2>4, <2>5, HoldsOn
  <2>7. Fits(rx, due)'
    BY <2>1, ScenarioSame DEF Fits
  <2>8. Holds(air[j], due)'
    BY <2>5, <2>6 DEF Holds
  <2> QED  BY <2>1, <2>7, <2>8 DEF Arrives, Tagged
<1>6. SymbolDue' = SymbolDue /\ RowDue' = RowDue
  BY ScenarioSame
<1>7. (taken > 0 => Fits(rx, SymbolDue[taken - 1]))'
  <2>1. taken > 0 => Fits(rx, SymbolDue[taken - 1])
    BY <1>1 DEF AirInPlace
  <2> QED  BY <1>6, <2>1, ScenarioSame DEF Fits
<1>8. (/\ Len(air) <= taken
       /\ SymbolDue[First][3] = 0 /\ RowDue[out] = SymbolDue[First])'
  BY <1>1, <1>4, <1>6 DEF AirInPlace
<1>9. (\A j \in 1..Len(air) : Arrives(j, SymbolDue[First + j - 1]))'
  <2>1. SUFFICES ASSUME NEW j \in 1..Len(air) PROVE Arrives(j, SymbolDue[First + j - 1])'
    OBVIOUS
  <2>2. PICK due : due = SymbolDue[First + j - 1]
    OBVIOUS
  <2>3. Arrives(j, due)'
    BY <1>5, <2>2
  <2>4. due = (SymbolDue[First + j - 1])'
    BY <1>4, <1>6, <2>2
  <2> QED  BY <2>3, <2>4 DEF Arrives, Holds, Fits, Tagged
<1> QED  BY <1>7, <1>8, <1>9 DEF AirInPlace

LEMMA NibblesFresh ==
  ASSUME StreamInv, scenario' = scenario, NewlyFresh, SymbolDue[made][3] = 0,
         UNCHANGED <<nibbles, out, lastCall>>
  PROVE  NibblesExplained'
<1>1. Typed /\ AirInPlace /\ NibblesExplained
  BY DEF StreamInv
<1>2. /\ made \in Nat /\ taken \in Nat /\ taken <= made /\ Len(air) \in Nat
      /\ out \in Nat /\ lastCall \in Nat
  BY <1>1 DEF Typed
<1>3. First \in Nat /\ First <= made /\ SymbolDue[First][3] = 0 /\ RowDue[out] = SymbolDue[First]
  BY <1>1, <1>2 DEF First, AirInPlace
<1>4. SymbolDue' = SymbolDue /\ RowDue' = RowDue /\ \A f, b : CodeLength(f, b)' = CodeLength(f, b)
  BY ScenarioSame
<1>5. ASSUME NEW p \in lastCall..(out - 1), BlockIn(RowDue[p]) \notin fresh
      PROVE  BlockIn(RowDue[p]) \notin fresh'
  <2>1. PICK u \in Place, v \in Place, w \in Place :
          u = RowDue[p] /\ v = RowDue[out] /\ w = SymbolDue[made]
    <3>1. p \in Nat
      BY <1>2, <1>5
    <3>2. RowDue[p] \in Place /\ RowDue[out] \in Place
      BY <1>2, <3>1, RowStream DEF IsStream
    <3>3. SymbolDue[made] \in Place
      BY <1>2, SymbolStream DEF IsStream
    <3> QED  BY <3>2, <3>3
  <2>2. v[3] = 0
    BY <1>3, <2>1
  <2>3. Before(u, v)
    <3>1. p \in Nat /\ p < out
      BY <1>2, <1>5
    <3> QED  BY <1>2, <2>1, <2>2, <3>1, RowStream, BlockBefore
  <2>4. v = w \/ Before(v, w)
    <3>1. CASE First = made
      BY <1>3, <2>1, <3>1
    <3>2. CASE First # made
      <4>1. First < made
        BY <1>2, <1>3, <3>2
      <4> QED  BY <1>2, <1>3, <2>1, <4>1, SymbolStream, BlockBefore
    <3> QED  BY <3>1, <3>2
  <2>5. Before(u, w)
    <3>1. /\ u[1] \in Nat /\ u[2] \in Nat /\ v[1] \in Nat /\ v[2] \in Nat
          /\ w[1] \in Nat /\ w[2] \in Nat
      BY DEF Place
    <3> QED  BY <2>3, <2>4, <3>1 DEF Before
  <2> QED  BY <1>5, <2>1, <2>5, BeforeNotFresh
<1>6. NibblesReceived
  BY <1>1 DEF NibblesExplained
<1>7. NibblesReceived'
  BY <1>4, <1>5, <1>6 DEF NibblesReceived, BlockIn
<1>8. (RowDue[lastCall][3] = 0)' /\ (\A s \in 0..(NibbleSlots - 1) : s >= out => nibbles[s] = {})'
  BY <1>1, <1>4 DEF NibblesExplained
<1> QED  BY <1>7, <1>8 DEF NibblesExplained

-----------------------------------------------------------------------------
(* The call as a whole.                                                    *)
LEMMA CeilPositive ==
  ASSUME NEW a \in Nat \ {0}, NEW d \in Nat \ {0}
  PROVE  Ceil(a, d) \in Nat \ {0}
<1>1. PICK x \in Nat : x = a + d - 1
  OBVIOUS
<1>2. PICK q, r : q = x \div d /\ r = x % d
  OBVIOUS
<1>3. q \in Nat /\ r \in 0..(d - 1) /\ x = q * d + r
  BY <1>2, DivMod
<1>4. q # 0
  <2>1. SUFFICES ASSUME q = 0 PROVE FALSE
    OBVIOUS
  <2>2. x = r
    BY <1>3, <2>1
  <2> QED  BY <1>1, <1>3, <2>2
<1>5. Ceil(a, d) = q
  BY <1>1, <1>2 DEF Ceil
<1> QED  BY <1>3, <1>4, <1>5

Called(n, m) ==
  /\ m = StopAt(n) /\ ~overrun /\ n * tx.SF <= Len(in)
  /\ symbols' = Fill(m) /\ made' = made + m * tx.codeLength
  /\ fresh' = fresh \union (IF m > 0 THEN {BlockOf(RowsAt(0))} ELSE {})
  /\ overrun' = (Max({m, 1}) * tx.codeLength > Free)
  /\ in' = SubSeq(in, m * tx.SF + 1, Len(in))
  /\ tx' = ParamsAfter(n)
  /\ UNCHANGED <<scenario, written, taken, air, rx, nibbles, out, lastCall>>

LEMMA CallFacts ==
  ASSUME Typed, InterleaveWork
  PROVE  \E n \in Nat \ {0} : \E m \in 0..n : Called(n, m)
<1>1. PICK noutput \in 1..Free :
        LET n    == Ceil(noutput, tx.codeLength)
            stop == StopAt(n)
        IN  /\ ~overrun
            /\ Len(in) >= n * tx.SF
            /\ symbols' = Fill(stop)
            /\ made' = made + stop * tx.codeLength
            /\ fresh' = fresh \union (IF stop > 0 THEN {BlockOf(RowsAt(0))} ELSE {})
            /\ overrun' = (Max({stop, 1}) * tx.codeLength > Free)
            /\ in' = SubSeq(in, stop * tx.SF + 1, Len(in))
            /\ tx' = ParamsAfter(n)
            /\ UNCHANGED <<scenario, written, taken, air, rxVars>>
  BY DEF InterleaveWork
<1>2. PICK n, m : n = Ceil(noutput, tx.codeLength) /\ m = StopAt(n)
  OBVIOUS
<1>3. noutput \in Nat \ {0} /\ tx.codeLength \in Nat \ {0} /\ tx.SF \in Nat
  <2>1. tx.codeLength \in 4..8 /\ tx.SF \in Nat
    BY TxTyped
  <2>2. Free \in Int
    BY SlotsAssumption DEF Free, Typed
  <2> QED  BY <2>1, <2>2
<1>4. n \in Nat \ {0}
  BY <1>2, <1>3, CeilPositive
<1>5. m \in 0..n
  BY <1>2, <1>4, StopsThere
<1>6. n * tx.SF <= Len(in)
  <2>1. Len(in) >= n * tx.SF
    BY <1>1, <1>2
  <2>2. PICK y \in Nat : y = n * tx.SF
    BY <1>3, <1>4, TimesNext
  <2>3. Len(in) \in Nat
    BY DEF Typed
  <2> QED  BY <2>1, <2>2, <2>3
<1>7. Called(n, m)
  BY <1>1, <1>2, <1>6, Zenon DEF Called, rxVars
<1> QED  BY <1>4, <1>5, <1>7

LEMMA UnreadUntouched ==
  ASSUME Typed, NEW n \in Nat, Max({n, 1}) * tx.codeLength <= Free, made - taken < SymbolSlots,
         NEW p \in taken..(made - 1)
  PROVE  Fill(n)[p % SymbolSlots] = Slot(p)
<1>1. SymbolSlots \in Nat /\ SymbolSlots > 0 /\ made \in Nat /\ taken \in 0..made
  BY SlotsAssumption DEF Typed
<1>2. p \in Nat /\ p < made /\ made - p <= SymbolSlots
  BY <1>1
<1>3. PICK s : s = p % SymbolSlots
  OBVIOUS
<1>4. (s - made) % SymbolSlots = SymbolSlots - (made - p)
  BY <1>1, <1>2, <1>3, UnreadSlot
<1>5. PICK c : c = Max({n, 1}) * tx.codeLength
  OBVIOUS
<1>6. c \in Nat
  <2>1. Max({n, 1}) \in Nat /\ tx.codeLength \in Nat
    BY MaxOne, TxTyped
  <2> QED  BY <1>5, <2>1, TimesNext
<1>7. SymbolSlots - (made - p) >= c
  BY <1>1, <1>2, <1>5, <1>6 DEF Free
<1>8. s \in DOMAIN symbols
  <2>1. s \in 0..(SymbolSlots - 1)
    BY <1>1, <1>2, <1>3, DivMod
  <2> QED  BY <2>1 DEF Typed
<1>9. Fill(n)[s] = symbols[s]
  BY <1>4, <1>5, <1>7, <1>8, Zenon DEF Fill
<1> QED  BY <1>3, <1>9 DEF Slot

LEMMA CallTyped ==
  ASSUME StreamInv, NEW n \in Nat \ {0}, NEW m \in 0..n, Called(n, m),
         \A s \in 0..(SymbolSlots - 1) : Fill(m)[s] \subseteq Place,
         tx' \in TxParameters, fresh' \subseteq Nat \X Nat
  PROVE  Typed'
<1>1. Typed
  BY DEF StreamInv
<1>2. UNCHANGED <<scenario, written, taken, air, rx, nibbles, out, lastCall>>
  BY DEF Called
<1>3. TxParameters' = TxParameters /\ Parameters' = Parameters /\ frames' = frames
  BY <1>2, ScenarioSame DEF TxParameters, Parameters
<1>4. in' \in Seq(Place)
  <2>1. PICK x, y : x = m * tx.SF /\ y = n * tx.SF
    OBVIOUS
  <2>2. tx.SF \in Nat
    BY <1>1, TxTyped
  <2>3. x \in Nat /\ y \in Nat /\ x <= y
    BY <2>1, <2>2, TimesMonotone, TimesNext
  <2>4. in \in Seq(Place) /\ y <= Len(in) /\ in' = SubSeq(in, x + 1, Len(in))
    BY <1>1, <2>1 DEF Typed, Called
  <2>5. x \in 0..Len(in)
    BY <2>3, <2>4
  <2> QED  BY <2>4, <2>5, DropFirst
<1>5. symbols' \in [0..(SymbolSlots - 1) -> SUBSET Place]
  <2>1. symbols' = Fill(m) /\ DOMAIN symbols = 0..(SymbolSlots - 1)
    BY <1>1 DEF Called, Typed
  <2>2. DOMAIN Fill(m) = 0..(SymbolSlots - 1) /\ Fill(m) = [s \in DOMAIN Fill(m) |-> Fill(m)[s]]
    BY <2>1 DEF Fill
  <2> QED  BY <2>1, <2>2
<1>6. made' \in Nat /\ taken' \in 0..made'
  <2>1. PICK x \in Nat : x = m * tx.codeLength
    <3>1. tx.codeLength \in Nat
      BY <1>1, TxTyped
    <3> QED  BY <3>1, TimesNext
  <2>2. made' = made + x
    BY <2>1 DEF Called
  <2> QED  BY <1>1, <1>2, <2>2 DEF Typed
<1>7. overrun' \in BOOLEAN
  BY DEF Called
<1> QED  BY <1>1, <1>2, <1>3, <1>4, <1>5, <1>6, <1>7, ScenarioSame DEF Typed

-----------------------------------------------------------------------------
(* A call that stops at the tag on its first block.                        *)
LEMMA StopsBuffer ==
  ASSUME StreamInv, NEW n \in Nat \ {0}, Called(n, 0)
  PROVE  BufferExplained'
<1>1. Typed /\ BufferExplained /\ ~overrun
  BY DEF StreamInv, Called
<1>2. made' = made /\ fresh' = fresh /\ taken' = taken /\ scenario' = scenario /\ symbols' = Fill(0)
  <2>1. PICK c : c = tx.codeLength
    OBVIOUS
  <2>2. c \in Nat /\ made \in Nat
    BY <1>1, <2>1, TxTyped DEF Typed
  <2>3. made' = made + 0 * c
    BY <2>1 DEF Called
  <2> QED  BY <2>2, <2>3 DEF Called
<1>3. SUFFICES ASSUME ~overrun'
               PROVE  /\ made - taken < SymbolSlots
                      /\ \A p \in taken..(made - 1) :
                           /\ Holds(Fill(0)[p % SymbolSlots], SymbolDue[p])
                           /\ Fill(0)[p % SymbolSlots] # {SymbolDue[p]} => p >= SymbolSlots
                      /\ \A s \in 0..(SymbolSlots - 1) : s >= made => Fill(0)[s] = {}
  BY <1>2, ScenarioSame DEF BufferExplained, Holds, Slot
<1>4. /\ made - taken < SymbolSlots
      /\ \A p \in taken..(made - 1) :
           /\ Holds(Slot(p), SymbolDue[p])
           /\ Slot(p) # {SymbolDue[p]} => p >= SymbolSlots
      /\ \A s \in 0..(SymbolSlots - 1) : s >= made => symbols[s] = {}
  BY <1>1 DEF BufferExplained
<1>5. Max({0, 1}) * tx.codeLength <= Free
  <2>1. PICK c : c = Max({0, 1}) * tx.codeLength
    OBVIOUS
  <2>2. c \in Nat
    <3>1. Max({0, 1}) \in Nat /\ tx.codeLength \in Nat
      BY <1>1, MaxOne, TxTyped
    <3> QED  BY <2>1, <3>1, TimesNext
  <2>3. Free \in Int
    BY <1>1, SlotsAssumption DEF Free, Typed
  <2>4. ~(c > Free)
    BY <1>3, <2>1 DEF Called
  <2> QED  BY <2>1, <2>2, <2>3, <2>4
<1>6. \A p \in taken..(made - 1) : Fill(0)[p % SymbolSlots] = Slot(p)
  BY <1>1, <1>4, <1>5, UnreadUntouched
<1>7. ASSUME NEW s \in 0..(SymbolSlots - 1), s >= made PROVE Fill(0)[s] = {}
  <2>1. SymbolSlots \in Nat /\ SymbolSlots > 0 /\ made \in Nat
    BY <1>1, SlotsAssumption DEF Typed
  <2>2. PICK i : i = (s - made) % SymbolSlots
    OBVIOUS
  <2>3. i \in 0..(SymbolSlots - 1) /\ s = (made + i) % SymbolSlots
    BY <2>1, <2>2, SlotPlace
  <2>4. Fill(0)[s] = IF i >= tx.codeLength THEN symbols[s] ELSE {}
    BY <1>1, <2>3, FillNothing
  <2> QED  BY <1>4, <1>7, <2>4
<1> QED  BY <1>4, <1>6, <1>7

LEMMA RowSet ==
  ASSUME Typed, NEW f \in 1..Len(frames), NEW b \in Nat
  PROVE  /\ [SF |-> RowsOf(b), codeLength |-> CodeLength(f, b), changedParams |-> TRUE]
              \in TxParameters
         /\ [SF |-> RowsOf(b), codeLength |-> CodeLength(f, b)] \in Parameters
<1>1. RowsOf(b) \in {SF, SFPayload, SF - 2} /\ CodeLength(f, b) \in 4..8
  BY LengthsTyped DEF Typed
<1> QED  BY <1>1 DEF TxParameters, Parameters

LEMMA TagTaken ==
  ASSUME scenario \in Scenarios, NEW t, NEW u, t.SF = RowsOf(u[2]),
         scenario.ldr, t.SF = SF
  PROVE  FALSE
<1>1. RowsOf(u[2]) = SF - 2
  BY DEF RowsOf, SFPayload
<1>2. SF - 2 = SF
  BY <1>1
<1> QED  BY <1>2, SFAssumption

LEMMA InterleaveStops ==
  ASSUME StreamInv, NEW n \in Nat \ {0}, Called(n, 0)
  PROVE  StreamInv'
<1>1. Typed /\ RowsInPlace /\ scenario \in Scenarios
  BY DEF StreamInv, Typed
<1>2. 0 = StopAt(n) /\ n * tx.SF <= Len(in)
  BY DEF Called
<1>3. Stops(0)
  BY <1>2, StopsThere
<1>4. tx.SF \in Nat \ {0} /\ 0 * tx.SF = 0 /\ Len(in) > 0
  <2>1. PICK S \in Nat \ {0} : S = tx.SF
    BY <1>1, TxTyped
  <2>2. PICK e \in Nat : n = e + 1
    <3>1. n - 1 \in Nat /\ n = (n - 1) + 1
      OBVIOUS
    <3> QED  BY <3>1
  <2>3. e * S \in Nat /\ n * S = e * S + S
    BY <2>1, <2>2, TimesNext
  <2>4. Len(in) \in Nat
    BY <1>1 DEF Typed
  <2> QED  BY <1>2, <2>1, <2>3, <2>4
<1>5. PICK q \in Nat, f \in 1..Len(frames), b \in Nat :
        /\ RowsFrom(q) /\ SymbolDue[made] = <<f, b, 0>> /\ in[1] = <<f, b, 0>>
        /\ RowDue[q] = <<f, b, 0>> /\ b <= NBlocks(f)
  BY <1>1, <1>4, CallStart
<1>6. tx' = [SF |-> RowsOf(b), codeLength |-> CodeLength(f, b), changedParams |-> TRUE]
  <2>1. PICK row : row = in[0 * tx.SF + 1]
    OBVIOUS
  <2>2. row = <<f, b, 0>>
    BY <1>4, <1>5, <2>1
  <2>3. StopAt(n) < n
    BY <1>2
  <2>4. tx' = ParamsAfter(n)
    BY DEF Called
  <2>5. tx' = [SF |-> RowsOf(row[2]), codeLength |-> CodeLength(row[1], row[2]),
               changedParams |-> TRUE]
    BY <1>2, <2>1, <2>3, <2>4, Zenon DEF ParamsAfter
  <2> QED  BY <2>2, <2>5
<1>7. /\ made' = made /\ fresh' = fresh /\ scenario' = scenario /\ in' = in
      /\ UNCHANGED <<written, taken, air, rx, nibbles, out, lastCall>>
  <2>1. PICK c : c = tx.codeLength
    OBVIOUS
  <2>2. c \in Nat /\ made \in Nat /\ in \in Seq(Place)
    BY <1>1, <2>1, TxTyped DEF Typed
  <2>3. made' = made + 0 * c /\ in' = SubSeq(in, 0 * tx.SF + 1, Len(in))
    BY <2>1 DEF Called
  <2>4. in' = SubSeq(in, 1, Len(in))
    BY <1>4, <2>3
  <2>5. in' = in
    <3>1. in' \in Seq(Place) /\ Len(in') = Len(in) /\ \A i \in 1..Len(in) : in'[i] = in[i]
      BY <2>2, <2>4, TakeFirst
    <3> QED  BY <2>2, <3>1, SameSeq
  <2> QED  BY <2>2, <2>3, <2>5 DEF Called
<1>8. Typed'
  <2>1. ASSUME NEW s \in 0..(SymbolSlots - 1) PROVE Fill(0)[s] \subseteq Place
    <3>1. SymbolSlots \in Nat /\ SymbolSlots > 0 /\ made \in Nat
      BY <1>1, SlotsAssumption DEF Typed
    <3>2. PICK i : i = (s - made) % SymbolSlots
      OBVIOUS
    <3>3. i \in 0..(SymbolSlots - 1) /\ s = (made + i) % SymbolSlots
      BY <3>1, <3>2, SlotPlace
    <3>4. Fill(0)[s] = IF i >= tx.codeLength THEN symbols[s] ELSE {}
      BY <1>1, <3>3, FillNothing
    <3>5. symbols[s] \subseteq Place
      BY <1>1 DEF Typed
    <3> QED  BY <3>4, <3>5
  <2>2. tx' \in TxParameters
    BY <1>1, <1>5, <1>6, RowSet
  <2>3. fresh' \subseteq Nat \X Nat
    BY <1>1, <1>7 DEF Typed
  <2>4. 0 \in 0..n
    OBVIOUS
  <2> QED  BY <2>1, <2>2, <2>3, <2>4, CallTyped
<1>9. RowsInPlace'
  BY <1>1, <1>7, RowsKept
<1>10. TxKnows'
  <2>1. PICK u : u = <<f, b, 0>>
    OBVIOUS
  <2>2. Fits(tx', u)
    BY <1>6, <2>1 DEF Fits
  <2>3. ~(scenario.ldr /\ tx'.SF = SF)
    <3>1. tx'.SF = RowsOf(u[2])
      BY <2>2 DEF Fits
    <3> QED  BY <1>1, <3>1, TagTaken
  <2>4. SymbolDue'[made'] = u
    BY <1>5, <1>7, <2>1, ScenarioSame
  <2> QED  BY <1>7, <2>2, <2>3, <2>4, ScenarioSame DEF TxKnows, Fits
<1>11. BufferExplained'
  BY StopsBuffer
<1>12. FreshMade' /\ AirInPlace' /\ NibblesExplained'
  BY <1>7, FreshKept, AirKept, NibblesKept DEF StreamInv
<1> QED  BY <1>8, <1>9, <1>10, <1>11, <1>12 DEF StreamInv

-----------------------------------------------------------------------------
(* A call that makes blocks.                                               *)
Making(n, m, q, f, b) ==
  /\ Called(n, m) /\ RowsFrom(q) /\ SymbolDue[made] = <<f, b, 0>>
  /\ Fits(tx, <<f, b, 0>>) /\ m * tx.SF <= Len(in) /\ Makes(q, f, b, m)

LEMMA MakingFacts ==
  ASSUME StreamInv, NEW n \in Nat \ {0}, NEW m \in 1..n, Called(n, m)
  PROVE  \E q \in Nat, f \in 1..Len(frames), b \in Nat : Making(n, m, q, f, b)
<1>1. Typed /\ RowsInPlace /\ TxKnows /\ m \in Nat \ {0}
  BY DEF StreamInv
<1>2. PICK S \in Nat \ {0} : S = tx.SF
  BY <1>1, TxTyped
<1>3. PICK x, y : x = m * S /\ y = n * S
  OBVIOUS
<1>4. x \in Nat /\ y \in Nat /\ x <= y /\ x >= S
  <2>1. x <= y
    BY <1>1, <1>2, <1>3, TimesMonotone
  <2>2. 1 * S <= m * S
    BY <1>1, <1>2, TimesMonotone
  <2> QED  BY <1>1, <1>2, <1>3, <2>1, <2>2, TimesNext
<1>5. Len(in) \in Nat /\ x <= Len(in) /\ Len(in) > 0
  <2>1. y <= Len(in) /\ Len(in) \in Nat
    BY <1>1, <1>2, <1>3 DEF Called, Typed
  <2> QED  BY <1>2, <1>4, <2>1
<1>6. PICK q \in Nat, f \in 1..Len(frames), b \in Nat :
        /\ RowsFrom(q) /\ SymbolDue[made] = <<f, b, 0>> /\ in[1] = <<f, b, 0>>
        /\ RowDue[q] = <<f, b, 0>> /\ b <= NBlocks(f)
  BY <1>1, <1>5, CallStart
<1>7. \A i \in 0..(m - 1) : ~Stops(i)
  <2>1. m = StopAt(n)
    BY DEF Called
  <2> QED  BY <2>1, StopsThere
<1>8. Fits(tx, <<f, b, 0>>)
  <2>1. ~Stops(0)
    BY <1>1, <1>7
  <2>2. 0 * tx.SF + 1 = 1
    BY <1>2
  <2>3. ~Tagged(in[1]) \/ tx.changedParams
    BY <2>1, <2>2 DEF Stops
  <2>4. PICK u : u = <<f, b, 0>>
    OBVIOUS
  <2>5. Fits(tx, u)
    BY <1>1, <1>6, <2>3, <2>4 DEF TxKnows
  <2> QED  BY <2>4, <2>5
<1>9. Makes(q, f, b, m)
  <2>1. m * tx.SF <= Len(in) /\ \A i \in 1..(m - 1) : ~Stops(i)
    BY <1>1, <1>2, <1>3, <1>5, <1>7
  <2> QED  BY <1>1, <1>6, <1>8, <2>1, CallMakes
<1>10. m * tx.SF <= Len(in)
  BY <1>2, <1>3, <1>5
<1>11. Making(n, m, q, f, b)
  BY <1>6, <1>8, <1>9, <1>10 DEF Making
<1> QED  BY <1>6, <1>11

LEMMA MakingNext ==
  ASSUME Typed, NEW n \in Nat \ {0}, NEW m \in 1..n,
         NEW q \in Nat, NEW f \in 1..Len(frames), NEW b \in Nat, Making(n, m, q, f, b)
  PROVE  /\ made' \in Nat /\ SymbolDue[made'] = NextBlock(f, b + m - 1)
         /\ RowDue[q + m * tx.SF] = NextBlock(f, b + m - 1)
         /\ NextBlock(f, b + m - 1) \in {<<f, b + m, 0>>, <<f + 1, 0, 0>>}
<1>1. made' = made + m * tx.codeLength
  BY DEF Making, Called
<1>2. made' \in Nat
  <2>1. PICK L \in Nat : L = tx.codeLength
    BY TxTyped
  <2>2. m * L \in Nat /\ made \in Nat
    BY TimesNext DEF Typed
  <2> QED  BY <1>1, <2>1, <2>2
<1>3. /\ SymbolDue[made + m * tx.codeLength] = NextBlock(f, b + m - 1)
      /\ RowDue[q + m * tx.SF] = NextBlock(f, b + m - 1)
  BY DEF Making, Makes, RunsTo
<1>4. b + m - 1 + 1 = b + m
  OBVIOUS
<1> QED  BY <1>1, <1>2, <1>3, <1>4 DEF NextBlock

LEMMA MakingRows ==
  ASSUME Typed, NEW n \in Nat \ {0}, NEW m \in 1..n,
         NEW q \in Nat, NEW f \in 1..Len(frames), NEW b \in Nat, Making(n, m, q, f, b)
  PROVE  RowsInPlace'
<1>1. PICK S \in Nat \ {0} : S = tx.SF
  BY TxTyped
<1>2. PICK x : x = m * S
  OBVIOUS
<1>3. in \in Seq(Place) /\ x \in Nat /\ x <= Len(in)
  BY <1>1, <1>2, TimesNext DEF Making, Typed
<1>4. RowsFrom(q) /\ in' = SubSeq(in, x + 1, Len(in)) /\ scenario' = scenario /\ written' = written
  BY <1>1, <1>2 DEF Making, Called
<1>5. PICK e \in Nat : e = q + x
  BY <1>3
<1>6. /\ in' \in Seq(Place) /\ Len(in') = Len(in) - x
      /\ \A i \in 1..Len(in') : in'[i] = in[x + i]
  <2>1. x \in 0..Len(in)
    BY <1>3
  <2> QED  BY <1>3, <1>4, <2>1, DropFirst
<1>7. PICK v : v = NextBlock(f, b + m - 1)
  OBVIOUS
<1>8. SymbolDue[made'] = v /\ RowDue[e] = v /\ v[3] = 0
  <2>1. SymbolDue[made'] = v /\ RowDue[q + m * tx.SF] = v
    BY <1>7, MakingNext
  <2>2. v = <<f, b + m, 0>> \/ v = <<f + 1, 0, 0>>
    BY <1>7, MakingNext
  <2> QED  BY <1>1, <1>2, <1>5, <2>1, <2>2
<1>9. \A i \in 1..Len(in') : in'[i] = RowDue[e + i - 1]
  <2>1. SUFFICES ASSUME NEW i \in 1..Len(in') PROVE in'[i] = RowDue[e + i - 1]
    OBVIOUS
  <2>2. x + i \in 1..Len(in) /\ q + (x + i) - 1 = e + i - 1
    BY <1>3, <1>5, <1>6
  <2> QED  BY <1>4, <1>6, <2>2 DEF RowsFrom
<1>10. RowDue[e + Len(in')] = NextWritten
  <2>1. e + Len(in') = q + Len(in)
    BY <1>3, <1>5, <1>6
  <2> QED  BY <1>4, <2>1 DEF RowsFrom
<1>11. RowDue' = RowDue /\ SymbolDue' = SymbolDue /\ NextWritten' = NextWritten
  BY <1>4, ScenarioSame DEF NextWritten
<1>12. RowsFrom(e)'
  BY <1>8, <1>9, <1>10, <1>11 DEF RowsFrom
<1> QED  BY <1>12 DEF RowsInPlace

LEMMA MakingTx ==
  ASSUME StreamInv, NEW n \in Nat \ {0}, NEW m \in 1..n,
         NEW q \in Nat, NEW f \in 1..Len(frames), NEW b \in Nat, Making(n, m, q, f, b)
  PROVE  TxKnows' /\ tx' \in TxParameters
<1>1. Typed /\ scenario \in Scenarios
  BY DEF StreamInv, Typed
<1>2. PICK v : v = NextBlock(f, b + m - 1)
  OBVIOUS
<1>3. SymbolDue[made'] = v /\ RowDue[q + m * tx.SF] = v /\ v \in {<<f, b + m, 0>>, <<f + 1, 0, 0>>}
  <2>1. /\ SymbolDue[made'] = NextBlock(f, b + m - 1)
        /\ RowDue[q + m * tx.SF] = NextBlock(f, b + m - 1)
        /\ NextBlock(f, b + m - 1) \in {<<f, b + m, 0>>, <<f + 1, 0, 0>>}
    BY <1>1, MakingNext
  <2> QED  BY <1>2, <2>1, Zenon
<1>4. m = StopAt(n) /\ tx' = ParamsAfter(n) /\ scenario' = scenario
  BY DEF Making, Called
<1>5. SymbolDue' = SymbolDue
  BY <1>4, ScenarioSame
<1>6. CASE m < n
  <2>1. PICK row : row = in[m * tx.SF + 1]
    OBVIOUS
  <2>2. row = v
    <3>1. PICK S \in Nat \ {0} : S = tx.SF
      BY <1>1, TxTyped
    <3>2. PICK x, y : x = m * S /\ y = n * S
      OBVIOUS
    <3>3. x \in Nat /\ x + S <= y /\ y \in Nat
      <4>1. m \in 0..(n - 1)
        BY <1>6
      <4> QED  BY <3>1, <3>2, <4>1, PartOf
    <3>4. y <= Len(in) /\ RowsFrom(q) /\ Len(in) \in Nat
      BY <1>1, <3>1, <3>2 DEF Making, Called, Typed
    <3>5. x + 1 \in 1..Len(in) /\ q + (x + 1) - 1 = q + x
      BY <3>1, <3>3, <3>4
    <3>6. in[x + 1] = RowDue[q + x]
      BY <3>4, <3>5 DEF RowsFrom
    <3> QED  BY <1>3, <2>1, <3>1, <3>2, <3>6
  <2>3. tx' = [SF |-> RowsOf(row[2]), codeLength |-> CodeLength(row[1], row[2]),
               changedParams |-> TRUE]
    BY <1>4, <1>6, <2>1, Zenon DEF ParamsAfter
  <2>4. Fits(tx', v)
    BY <2>2, <2>3 DEF Fits
  <2>5. ~(scenario.ldr /\ tx'.SF = SF)
    <3>1. tx'.SF = RowsOf(v[2])
      BY <2>4 DEF Fits
    <3> QED  BY <1>1, <3>1, TagTaken
  <2>6. TxKnows'
    BY <1>3, <1>4, <1>5, <2>4, <2>5, ScenarioSame DEF TxKnows, Fits
  <2>7. tx' \in TxParameters
    <3>1. PICK c \in Nat, g \in Nat : v = <<g, c, 0>>
      BY <1>1, <1>3, FramesTyped
    <3>2. tx' = [SF |-> RowsOf(c), codeLength |-> CodeLength(g, c), changedParams |-> TRUE]
      BY <2>2, <2>3, <3>1
    <3>3. RowsOf(c) \in {SF, SFPayload, SF - 2}
      BY DEF RowsOf
    <3>4. CodeLength(g, c) \in 4..8
      <4>1. CASE c = 0
        BY <4>1 DEF CodeLength
      <4>2. CASE c # 0
        <5>1. v = <<f, b + m, 0>>
          BY <1>3, <3>1, <4>2
        <5>2. g = f
          BY <3>1, <5>1
        <5> QED  BY <1>1, <5>2, LengthsTyped
      <4> QED  BY <4>1, <4>2
    <3> QED  BY <3>2, <3>3, <3>4 DEF TxParameters
  <2> QED  BY <2>6, <2>7
<1>7. CASE ~(m < n)
  <2>1. tx' = [tx EXCEPT !.changedParams = FALSE]
    BY <1>4, <1>7, Zenon DEF ParamsAfter
  <2>2. tx \in TxParameters /\ Fits(tx, <<f, b, 0>>)
    BY <1>1 DEF Typed, Making
  <2>3. tx' \in TxParameters /\ tx'.SF = tx.SF /\ tx'.codeLength = tx.codeLength
        /\ tx'.changedParams = FALSE
    BY <2>1, <2>2 DEF TxParameters
  <2>4. tx.SF = RowsOf(b) /\ tx.codeLength = CodeLength(f, b)
    BY <2>2 DEF Fits
  <2>5. ~(scenario.ldr /\ tx'.SF = SF)
    <3>1. PICK u : u = <<f, b, 0>>
      OBVIOUS
    <3>2. tx.SF = RowsOf(u[2])
      BY <2>4, <3>1
    <3> QED  BY <1>1, <2>3, <3>2, TagTaken
  <2>6. ASSUME ~Tagged(v) PROVE Fits(tx', v)
    <3>1. v = <<f, b + m, 0>> /\ b + m \notin {0, 1}
      BY <1>3, <2>6 DEF Tagged
    <3>2. b >= 1
      <4>1. m > 1 => b >= 1
        BY DEF Making, Makes
      <4> QED  BY <3>1, <4>1
    <3>3. RowsOf(b + m) = RowsOf(b) /\ CodeLength(f, b + m) = CodeLength(f, b)
      BY <3>2 DEF RowsOf, CodeLength
    <3> QED  BY <2>3, <2>4, <3>1, <3>3 DEF Fits
  <2>7. TxKnows'
    BY <1>3, <1>4, <1>5, <2>3, <2>5, <2>6, ScenarioSame DEF TxKnows, Fits, Tagged
  <2> QED  BY <2>3, <2>7
<1> QED  BY <1>6, <1>7

LEMMA MakingFresh ==
  ASSUME StreamInv, NEW n \in Nat \ {0}, NEW m \in 1..n,
         NEW q \in Nat, NEW f \in 1..Len(frames), NEW b \in Nat, Making(n, m, q, f, b)
  PROVE  /\ fresh' = fresh \union {<<f, b>>} /\ fresh' \subseteq Nat \X Nat
         /\ NewlyFresh /\ FreshMade'
<1>1. Typed /\ FreshMade /\ SymbolDue[made] = <<f, b, 0>> /\ scenario' = scenario /\ f \in Nat
  BY FramesTyped DEF StreamInv, Typed, Making, Called
<1>2. fresh' = fresh \union {<<f, b>>}
  <2>1. BlockOf(RowsAt(0)) = <<f, b + 0>>
    <3>1. 0 \in 0..(m - 1) /\ m \in Nat \ {0}
      OBVIOUS
    <3>2. RowsFrom(q) /\ Fits(tx, <<f, b, 0>>) /\ m * tx.SF <= Len(in) /\ Makes(q, f, b, m)
      BY DEF Making
    <3> QED  BY <1>1, <3>1, <3>2, BlockMade
  <2>2. fresh' = fresh \union (IF m > 0 THEN {BlockOf(RowsAt(0))} ELSE {})
    BY DEF Making, Called
  <2>3. m > 0 /\ b + 0 = b
    OBVIOUS
  <2> QED  BY <2>1, <2>2, <2>3
<1>3. fresh' \subseteq Nat \X Nat
  BY <1>1, <1>2 DEF Typed
<1>4. NewlyFresh
  <2>1. BlockIn(SymbolDue[made]) = <<f, b>>
    BY <1>1 DEF BlockIn
  <2> QED  BY <1>2, <2>1 DEF NewlyFresh
<1>5. FreshMade'
  <2>1. PICK v : v = NextBlock(f, b + m - 1)
    OBVIOUS
  <2>2. SymbolDue'[made'] = v
    BY <1>1, <2>1, MakingNext, ScenarioSame
  <2>3. v = <<f, b + m, 0>> \/ v = <<f + 1, 0, 0>>
    <3>1. NextBlock(f, b + m - 1) \in {<<f, b + m, 0>>, <<f + 1, 0, 0>>}
      BY <1>1, MakingNext
    <3> QED  BY <2>1, <3>1, Zenon
  <2>4. ASSUME NEW w \in fresh' PROVE Before(w, v)
    <3>1. w \in fresh \/ w = <<f, b>>
      BY <1>2, <2>4
    <3>2. PICK x \in Nat, y \in Nat : w = <<x, y>>
      BY <1>3, <2>4
    <3>3. CASE w \in fresh
      <4>1. PICK u : u = SymbolDue[made]
        OBVIOUS
      <4>2. Before(w, u) /\ u = <<f, b, 0>>
        BY <1>1, <3>3, <4>1 DEF FreshMade
      <4>3. x < f \/ (x = f /\ y < b)
        BY <3>2, <4>2 DEF Before
      <4>4. x < v[1] \/ (x = v[1] /\ y < v[2])
        BY <1>1, <2>3, <4>3
      <4> QED  BY <3>2, <4>4 DEF Before
    <3>4. CASE w = <<f, b>>
      BY <1>1, <2>3, <3>4 DEF Before
    <3> QED  BY <3>1, <3>3, <3>4
  <2> QED  BY <2>2, <2>4 DEF FreshMade, Before
<1> QED  BY <1>2, <1>3, <1>4, <1>5

LEMMA WithinRing ==
  ASSUME NEW N \in Nat, N > 0, NEW x \in 0..(N - 1)
  PROVE  x % N = x
BY SMTT(30)

(* The slot of a symbol made, and of one that was unread before.           *)
LEMMA MadeSlot ==
  ASSUME StreamInv, NEW n \in Nat \ {0}, NEW m \in 1..n,
         NEW q \in Nat, NEW f \in 1..Len(frames), NEW b \in Nat, Making(n, m, q, f, b),
         NEW i \in 0..(SymbolSlots - 1), i < m * tx.codeLength,
         NEW s, s = (made + i) % SymbolSlots,
         \A r \in 0..(SymbolSlots - 1) : r >= made => symbols[r] = {},
         NEW due, due = SymbolDue[made + i]
  PROVE  /\ due \in Fill(m)[s]
         /\ Fill(m)[s] # {due} => BlockIn(due) \notin fresh' /\ made + i >= SymbolSlots
<1>1. Typed /\ FreshMade /\ SymbolDue[made] = <<f, b, 0>>
  BY DEF StreamInv, Making
<1>2. /\ Fill(m)[s] = Cleared(symbols[s], i) \union {due}
      /\ due[1] = f /\ (i >= tx.codeLength => due[2] > b)
  <2>1. RowsFrom(q) /\ Fits(tx, <<f, b, 0>>) /\ m * tx.SF <= Len(in) /\ Makes(q, f, b, m)
    BY DEF Making
  <2>2. m \in Nat \ {0}
    OBVIOUS
  <2> QED  BY <1>1, <2>1, <2>2, FillMade
<1>3. made \in Nat /\ tx.codeLength \in 4..8 /\ f \in Nat
  BY <1>1, TxTyped, FramesTyped DEF Typed
<1>4. ASSUME Fill(m)[s] # {due}
      PROVE  BlockIn(due) \notin fresh' /\ made + i >= SymbolSlots
  <2>1. Cleared(symbols[s], i) # {}
    BY <1>2, <1>4
  <2>2. i >= tx.codeLength /\ symbols[s] # {}
    BY <1>3, <2>1 DEF Cleared
  <2>3. BlockIn(due) \notin fresh'
    <3>1. fresh' = fresh \union {<<f, b>>}
      BY MakingFresh
    <3>2. BlockIn(due) = <<f, due[2]>> /\ due[2] # b
      <4>1. due[2] \in Nat
        <5>1. made + i \in Nat
          BY <1>3
        <5>2. due \in Place
          BY <5>1, SymbolStream DEF IsStream
        <5> QED  BY <5>2 DEF Place
      <4> QED  BY <1>2, <2>2, <4>1 DEF BlockIn
    <3>3. ASSUME BlockIn(due) \in fresh PROVE FALSE
      <4>1. PICK u : u = SymbolDue[made]
        OBVIOUS
      <4>2. PICK w : w = BlockIn(due)
        OBVIOUS
      <4>3. Before(w, u) /\ u = <<f, b, 0>>
        BY <1>1, <3>3, <4>1, <4>2 DEF FreshMade
      <4>4. w = <<f, due[2]>> /\ due[2] \in Nat /\ due[2] > b
        <5>1. made + i \in Nat
          BY <1>3
        <5>2. due \in Place
          BY <5>1, SymbolStream DEF IsStream
        <5>3. due[2] \in Nat
          BY <5>2 DEF Place
        <5> QED  BY <1>2, <2>2, <3>2, <4>2, <5>3
      <4> QED  BY <1>3, <4>3, <4>4 DEF Before
    <3> QED  BY <3>1, <3>2, <3>3
  <2>4. made + i >= SymbolSlots
    <3>5. PICK x \in Nat : x = made + i
      BY <1>3
    <3>6. SymbolSlots \in Nat
      BY SlotsAssumption
    <3>1. SUFFICES ASSUME x < SymbolSlots PROVE FALSE
      BY <3>5, <3>6
    <3>2. made + i \in 0..(SymbolSlots - 1)
      BY <3>1, <3>5, <3>6
    <3>3. s = made + i
      <4>1. PICK y \in 0..(SymbolSlots - 1) : y = made + i
        BY <3>2
      <4>2. SymbolSlots \in Nat /\ SymbolSlots > 0
        BY SlotsAssumption
      <4>3. y % SymbolSlots = y
        BY <4>2, WithinRing
      <4> QED  BY <4>1, <4>3
    <3>4. s >= made
      BY <1>3, <3>3
    <3> QED  BY <2>2, <3>2, <3>3, <3>4
  <2> QED  BY <2>3, <2>4
<1> QED  BY <1>2, <1>4

LEMMA MakingBuffer ==
  ASSUME StreamInv, NEW n \in Nat \ {0}, NEW m \in 1..n,
         NEW q \in Nat, NEW f \in 1..Len(frames), NEW b \in Nat, Making(n, m, q, f, b)
  PROVE  BufferExplained'
<1>1. Typed /\ BufferExplained /\ ~overrun /\ Called(n, m) /\ scenario' = scenario
  BY DEF StreamInv, Making, Called
<1>2. PICK c : c = m * tx.codeLength
  OBVIOUS
<1>3. /\ made' = made + c /\ taken' = taken /\ symbols' = Fill(m)
      /\ overrun' = (Max({m, 1}) * tx.codeLength > Free)
  BY <1>1, <1>2 DEF Called
<1>4. made \in Nat /\ taken \in 0..made /\ SymbolSlots \in Nat /\ SymbolSlots > 0 /\ c \in Nat
  <2>1. PICK L \in Nat : L = tx.codeLength
    BY <1>1, TxTyped
  <2>2. m * L \in Nat
    BY <2>1, TimesNext
  <2> QED  BY <1>1, <1>2, <2>1, <2>2, SlotsAssumption DEF Typed
<1>5. SUFFICES ASSUME ~overrun'
               PROVE  (/\ made - taken < SymbolSlots
                       /\ \A p \in taken..(made - 1) :
                            /\ Holds(Slot(p), SymbolDue[p])
                            /\ Slot(p) # {SymbolDue[p]} => p >= SymbolSlots
                       /\ \A s \in 0..(SymbolSlots - 1) : s >= made => symbols[s] = {})'
  BY DEF BufferExplained
<1>6. /\ made - taken < SymbolSlots
      /\ \A p \in taken..(made - 1) :
           /\ Holds(Slot(p), SymbolDue[p])
           /\ Slot(p) # {SymbolDue[p]} => p >= SymbolSlots
      /\ \A s \in 0..(SymbolSlots - 1) : s >= made => symbols[s] = {}
  BY <1>1 DEF BufferExplained
<1>7. Max({m, 1}) * tx.codeLength = c /\ c <= Free
  <2>1. Max({m, 1}) = m
    BY MaxOne
  <2>2. Max({m, 1}) * tx.codeLength = c
    BY <1>2, <2>1, Zenon
  <2>3. ~(c > Free)
    BY <1>3, <1>5, <2>2
  <2>4. Free \in Int
    BY <1>4 DEF Free
  <2> QED  BY <1>4, <2>2, <2>3, <2>4
<1>8. made + c - taken < SymbolSlots
  BY <1>4, <1>7 DEF Free
<1>9. NewlyFresh /\ SymbolDue[made] = <<f, b, 0>>
  BY MakingFresh DEF Making
<1>10. ASSUME NEW p \in taken..(made + c - 1), NEW slot, slot = Fill(m)[p % SymbolSlots],
              NEW due, due = SymbolDue[p]
       PROVE  Holds(slot, due)' /\ (slot # {due} => p >= SymbolSlots)
  <2>1. p \in Nat
    BY <1>4, <1>10
  <2>2. CASE p < made
    <3>1. p \in taken..(made - 1)
      BY <1>4, <1>10, <2>2
    <3>2. slot = Slot(p)
      <4>1. Max({m, 1}) * tx.codeLength <= Free
        BY <1>7
      <4>2. m \in Nat
        OBVIOUS
      <4> QED  BY <1>1, <1>6, <1>10, <3>1, <4>1, <4>2, UnreadUntouched
    <3>3. Holds(slot, due) /\ (slot # {due} => p >= SymbolSlots)
      BY <1>6, <1>10, <3>1, <3>2
    <3>4. due \in Place /\ SymbolDue[made] \in Place
      BY <1>4, <1>10, <2>1, SymbolStream DEF IsStream
    <3>5. SymbolDue[made][3] = 0
      BY <1>9
    <3>6. Before(due, SymbolDue[made])
      BY <1>4, <1>10, <2>1, <2>2, <3>5, SymbolStream, BlockBefore
    <3>7. Holds(slot, due)'
      BY <1>9, <3>3, <3>4, <3>6, HoldsOn
    <3> QED  BY <3>3, <3>7
  <2>3. CASE p >= made
    <3>1. PICK i \in Nat : i = p - made
      BY <1>4, <2>1, <2>3
    <3>2. i < c /\ i \in 0..(SymbolSlots - 1) /\ p = made + i
      BY <1>4, <1>8, <1>10, <3>1
    <3>3. PICK s : s = (made + i) % SymbolSlots
      OBVIOUS
    <3>4. slot = Fill(m)[s] /\ due = SymbolDue[made + i] /\ i < m * tx.codeLength
      BY <1>2, <1>10, <3>2, <3>3
    <3>5. /\ due \in Fill(m)[s]
          /\ Fill(m)[s] # {due} => BlockIn(due) \notin fresh' /\ made + i >= SymbolSlots
      BY <1>6, <3>2, <3>3, <3>4, MadeSlot
    <3> QED  BY <3>2, <3>4, <3>5 DEF Holds, BlockIn
  <2> QED  BY <1>4, <2>1, <2>2, <2>3
<1>11. ASSUME NEW s \in 0..(SymbolSlots - 1), s >= made + c PROVE Fill(m)[s] = {}
  <2>1. PICK i \in 0..(SymbolSlots - 1) : i = s - made
    BY <1>4, <1>11
  <2>2. made + i = s /\ i >= c
    BY <1>4, <1>11, <2>1
  <2>3. s % SymbolSlots = s
    BY <1>4, WithinRing
  <2>4. s = (made + i) % SymbolSlots
    BY <2>2, <2>3
  <2>5. Fill(m)[s] = symbols[s]
    <3>1. RowsFrom(q) /\ Fits(tx, <<f, b, 0>>) /\ m * tx.SF <= Len(in) /\ Makes(q, f, b, m)
      BY DEF Making
    <3>2. m \in Nat \ {0} /\ i >= m * tx.codeLength
      BY <1>2, <2>2
    <3> QED  BY <1>1, <2>4, <3>1, <3>2, FillMade
  <2>6. s >= made
    BY <1>4, <1>11
  <2> QED  BY <1>6, <2>5, <2>6
<1>12. (\A p \in taken..(made - 1) :
           /\ Holds(Slot(p), SymbolDue[p])
           /\ Slot(p) # {SymbolDue[p]} => p >= SymbolSlots)'
  <2>1. SUFFICES ASSUME NEW p \in taken..(made + c - 1)
                 PROVE  /\ Holds(Slot(p), SymbolDue[p])'
                        /\ (Slot(p) # {SymbolDue[p]} => p >= SymbolSlots)'
    <3>1. made' = made + c /\ taken' = taken
      BY <1>3, Zenon
    <3>2. (taken..(made - 1))' = taken..(made + c - 1)
      BY <1>4, <3>1
    <3> QED  BY <3>2, Zenon
  <2>2. PICK slot, due : slot = Fill(m)[p % SymbolSlots] /\ due = SymbolDue[p]
    OBVIOUS
  <2>3. Holds(slot, due)' /\ (slot # {due} => p >= SymbolSlots)
    BY <1>10, <2>2
  <2>4. Slot(p)' = slot /\ SymbolDue' = SymbolDue
    BY <1>1, <1>3, <2>2, ScenarioSame DEF Slot
  <2> QED  BY <2>2, <2>3, <2>4 DEF Holds, BlockIn
<1>13. (\A s \in 0..(SymbolSlots - 1) : s >= made => symbols[s] = {})'
  BY <1>3, <1>11
<1>14. (made - taken < SymbolSlots)'
  <2>1. made' = made + c /\ taken' = taken
    BY <1>3, Zenon
  <2> QED  BY <1>4, <1>8, <2>1
<1> QED  BY <1>12, <1>13, <1>14

LEMMA InterleaveMakes ==
  ASSUME StreamInv, NEW n \in Nat \ {0}, NEW m \in 1..n, Called(n, m)
  PROVE  StreamInv'
<1>1. PICK q \in Nat, f \in 1..Len(frames), b \in Nat : Making(n, m, q, f, b)
  BY MakingFacts
<1>2. Typed /\ SymbolDue[made] = <<f, b, 0>>
  BY <1>1 DEF StreamInv, Making
<1>3. RowsInPlace'
  BY <1>1, <1>2, MakingRows
<1>4. TxKnows' /\ tx' \in TxParameters
  BY <1>1, MakingTx
<1>5. FreshMade' /\ NewlyFresh /\ fresh' \subseteq Nat \X Nat
  BY <1>1, MakingFresh
<1>6. BufferExplained'
  BY <1>1, MakingBuffer
<1>7. /\ scenario' = scenario /\ SymbolDue[made][3] = 0
      /\ UNCHANGED <<air, taken, out, rx, nibbles, lastCall>>
  BY <1>2 DEF Called
<1>8. AirInPlace' /\ NibblesExplained'
  BY <1>5, <1>7, AirFresh, NibblesFresh
<1>9. Typed'
  <2>1. ASSUME NEW s \in 0..(SymbolSlots - 1) PROVE Fill(m)[s] \subseteq Place
    <3>1. SymbolSlots \in Nat /\ SymbolSlots > 0 /\ made \in Nat
      BY <1>2, SlotsAssumption DEF Typed
    <3>2. PICK i : i = (s - made) % SymbolSlots
      OBVIOUS
    <3>3. i \in 0..(SymbolSlots - 1) /\ s = (made + i) % SymbolSlots
      BY <3>1, <3>2, SlotPlace
    <3>4. RowsFrom(q) /\ Fits(tx, <<f, b, 0>>) /\ m * tx.SF <= Len(in) /\ Makes(q, f, b, m)
      BY <1>1 DEF Making
    <3>5. /\ i >= m * tx.codeLength => Fill(m)[s] = symbols[s]
          /\ i < m * tx.codeLength =>
               Fill(m)[s] = Cleared(symbols[s], i) \union {SymbolDue[made + i]}
      <4>1. m \in Nat \ {0}
        OBVIOUS
      <4> QED  BY <1>2, <3>3, <3>4, <4>1, FillMade
    <3>6. i >= m * tx.codeLength \/ i < m * tx.codeLength
      <4>1. PICK L \in Nat : L = tx.codeLength
        BY <1>2, TxTyped
      <4>2. PICK c : c = m * L
        OBVIOUS
      <4>3. c \in Nat
        BY <4>1, <4>2, TimesNext
      <4>4. i >= c \/ i < c
        BY <3>3, <4>3
      <4> QED  BY <4>1, <4>2, <4>4
    <3>7. symbols[s] \subseteq Place
      BY <1>2 DEF Typed
    <3>8. SymbolDue[made + i] \in Place
      <4>1. made + i \in Nat
        BY <3>1, <3>3
      <4> QED  BY <4>1, SymbolStream DEF IsStream
    <3>9. Cleared(symbols[s], i) \subseteq Place
      BY <3>7 DEF Cleared
    <3> QED  BY <3>5, <3>6, <3>7, <3>8, <3>9
  <2>2. m \in 0..n
    OBVIOUS
  <2> QED  BY <1>4, <1>5, <2>1, <2>2, CallTyped
<1> QED  BY <1>3, <1>4, <1>5, <1>6, <1>8, <1>9 DEF StreamInv

LEMMA InterleaveStep ==
  ASSUME StreamInv, InterleaveWork
  PROVE  StreamInv'
<1>1. PICK n \in Nat \ {0} : \E m \in 0..n : Called(n, m)
  BY CallFacts DEF StreamInv
<1>2. PICK m \in 0..n : Called(n, m)
  BY <1>1
<1>3. CASE m = 0
  BY <1>2, <1>3, InterleaveStops
<1>4. CASE m # 0
  <2>1. m \in 1..n
    BY <1>4
  <2> QED  BY <1>2, <2>1, InterleaveMakes
<1> QED  BY <1>3, <1>4

-----------------------------------------------------------------------------
(* A symbol on its way.                                                    *)
LEMMA MadeInFrames ==
  ASSUME Typed, RowsInPlace
  PROVE  InFrames(SymbolDue[made])
<1>1. PICK q \in Nat : RowsFrom(q)
  BY DEF RowsInPlace
<1>2. PICK n \in Nat : n = Len(in)
  BY DEF Typed
<1>3. RowDue[q + n] = NextWritten /\ RowDue[q] = SymbolDue[made]
  BY <1>1, <1>2 DEF RowsFrom
<1>4. InFrames(RowDue[q + n]) /\ q + n \in Nat /\ q <= q + n
  BY <1>3, NextInFrames
<1>5. scenario \in Scenarios
  BY DEF Typed
<1>6. InFrames(RowDue[q])
  BY <1>4, <1>5, RowStream, BothSized, BeforeEnd
<1> QED  BY <1>3, <1>6

LEMMA SymbolInFrames ==
  ASSUME Typed, RowsInPlace, NEW p \in Nat, p < made
  PROVE  \E f \in 1..Len(frames), b \in Nat, k \in Nat :
           SymbolDue[p] = <<f, b, k>> /\ b <= NBlocks(f) /\ k < CodeLength(f, b)
<1>1. InFrames(SymbolDue[made]) /\ scenario \in Scenarios /\ made \in Nat
  BY MadeInFrames DEF Typed
<1>2. SymbolDue[p][1] \in 1..Len(frames)
  BY <1>1, SymbolStream, BothSized, BeforeEnd
<1>3. PICK u \in Place : u = SymbolDue[p]
  BY SymbolStream DEF IsStream
<1>4. PICK f \in Nat, b \in Nat, k \in Nat : u = <<f, b, k>>
  BY DEF Place
<1>5. InBlock(u, SymbolLengths)
  BY <1>1, <1>3, SymbolStream, BothSized, StreamInBlocks
<1>6. f \in 1..Len(frames)
  BY <1>2, <1>3, <1>4
<1>7. SymbolLengths[u] = CodeLength(f, b)
  BY <1>4 DEF SymbolLengths
<1>8. b <= NBlocks(f) /\ k < CodeLength(f, b)
  BY <1>4, <1>5, <1>6, <1>7 DEF InBlock
<1> QED  BY <1>3, <1>4, <1>6, <1>8

LEMMA FitsOn ==
  ASSUME NEW u \in Place, NEW n, NEW t, Fits(t, u), ~Tagged(Follows(u, n))
  PROVE  Fits(t, Follows(u, n))
<1>1. PICK f \in Nat, b \in Nat, k \in Nat : u = <<f, b, k>>
  BY DEF Place
<1>2. PICK v : v = Follows(u, n)
  OBVIOUS
<1>3. \/ v = <<f, b, k + 1>>
      \/ v = <<f, b + 1, 0>>
      \/ v = <<f + 1, 0, 0>>
  BY <1>1, <1>2 DEF Follows
<1>4. ~Tagged(v) /\ t.SF = RowsOf(b) /\ t.codeLength = CodeLength(f, b)
  BY <1>1, <1>2 DEF Fits
<1>5. CASE v = <<f, b, k + 1>>
  BY <1>2, <1>4, <1>5 DEF Fits
<1>6. CASE v = <<f, b + 1, 0>>
  <2>1. b >= 1
    BY <1>4, <1>6 DEF Tagged
  <2>2. RowsOf(b + 1) = RowsOf(b) /\ CodeLength(f, b + 1) = CodeLength(f, b)
    BY <2>1 DEF RowsOf, CodeLength
  <2>3. Fits(t, v)
    BY <1>4, <1>6, <2>2 DEF Fits
  <2> QED  BY <1>2, <2>3
<1>7. CASE v = <<f + 1, 0, 0>>
  BY <1>4, <1>7 DEF Tagged
<1> QED  BY <1>3, <1>5, <1>6, <1>7

LEMMA TransferParameters ==
  ASSUME StreamInv, Transfer, NEW due, due = SymbolDue[taken]
  PROVE  Fits(rx', due) /\ rx' \in Parameters /\ (Tagged(due) \/ rx' = rx)
<1>1. Typed /\ RowsInPlace /\ AirInPlace /\ scenario \in Scenarios
  BY DEF StreamInv, Typed
<1>2. /\ taken < made /\ (Tagged(due) => air = <<>>)
      /\ rx' = IF Tagged(due)
               THEN [SF |-> RowsOf(due[2]), codeLength |-> CodeLength(due[1], due[2])]
               ELSE rx
  BY DEF Transfer
<1>3. taken \in Nat /\ made \in Nat
  BY <1>1 DEF Typed
<1>4. PICK f \in 1..Len(frames), b \in Nat, k \in Nat : due = <<f, b, k>>
  BY <1>1, <1>2, <1>3, SymbolInFrames
<1>5. CASE Tagged(due)
  <2>1. rx' = [SF |-> RowsOf(b), codeLength |-> CodeLength(f, b)]
    BY <1>2, <1>4, <1>5
  <2>2. rx' \in Parameters
    BY <1>1, <2>1, RowSet
  <2>3. Fits(rx', due)
    BY <1>4, <2>1 DEF Fits
  <2> QED  BY <1>5, <2>2, <2>3
<1>6. CASE ~Tagged(due)
  <2>1. rx' = rx /\ rx \in Parameters
    BY <1>1, <1>2, <1>6 DEF Typed
  <2>2. taken # 0
    <3>1. SUFFICES ASSUME taken = 0 PROVE FALSE
      OBVIOUS
    <3>2. due = <<1, 0, 0>>
      BY <3>1, SymbolStream DEF IsStream
    <3> QED  BY <1>6, <3>2 DEF Tagged
  <2>3. PICK p \in Nat : p = taken - 1 /\ taken = p + 1
    <3>1. taken - 1 \in Nat /\ taken = (taken - 1) + 1
      BY <1>3, <2>2
    <3> QED  BY <3>1
  <2>4. PICK u, n : u \in Place /\ u = SymbolDue[p] /\ due = Follows(u, n)
    <3>1. SymbolDue[p] \in Place /\ SymbolDue[p + 1] = Follows(SymbolDue[p], SymbolLengths[SymbolDue[p]])
      BY SymbolStream DEF IsStream
    <3> QED  BY <2>3, <3>1
  <2>5. Fits(rx, u)
    BY <1>1, <1>3, <2>2, <2>3, <2>4 DEF AirInPlace
  <2>6. Fits(rx, due)
    BY <1>6, <2>4, <2>5, FitsOn
  <2> QED  BY <2>1, <2>6
<1> QED  BY <1>5, <1>6

LEMMA TransferStep ==
  ASSUME StreamInv, Transfer
  PROVE  StreamInv'
<1>1. Typed /\ RowsInPlace /\ AirInPlace /\ BufferExplained /\ scenario \in Scenarios
  BY DEF StreamInv, Typed
<1>2. PICK due, slot : due = SymbolDue[taken] /\ slot = Slot(taken)
  OBVIOUS
<1>3. /\ ~overrun /\ taken < made /\ (Tagged(due) => air = <<>>)
      /\ air' = Append(air, slot) /\ taken' = taken + 1
      /\ UNCHANGED <<scenario, written, in, tx, symbols, made, fresh, overrun, nibbles, out, lastCall>>
  BY <1>2 DEF Transfer, txVars, Slot
<1>4. taken \in Nat /\ made \in Nat /\ Len(air) \in Nat /\ air \in Seq(SUBSET Place)
  BY <1>1 DEF Typed
<1>5. Fits(rx', due) /\ rx' \in Parameters /\ (Tagged(due) \/ rx' = rx)
  BY <1>2, TransferParameters
<1>7. slot \in SUBSET Place
  <2>1. taken % SymbolSlots \in 0..(SymbolSlots - 1)
    BY <1>4, SlotsAssumption, DivMod
  <2> QED  BY <1>1, <1>2, <2>1 DEF Typed, Slot
<1>8. /\ air' \in Seq(SUBSET Place) /\ Len(air') = Len(air) + 1
      /\ \A j \in 1..Len(air) : air'[j] = air[j]
      /\ air'[Len(air) + 1] = slot
  BY <1>3, <1>4, <1>7, AppendAt
<1>9. /\ made - taken < SymbolSlots
      /\ \A p \in taken..(made - 1) :
           /\ Holds(Slot(p), SymbolDue[p])
           /\ Slot(p) # {SymbolDue[p]} => p >= SymbolSlots
      /\ \A s \in 0..(SymbolSlots - 1) : s >= made => symbols[s] = {}
  BY <1>1, <1>3 DEF BufferExplained
<1>10. Typed'
  <2>1. TxParameters' = TxParameters /\ Parameters' = Parameters /\ frames' = frames
        /\ \A f : NBlocks(f)' = NBlocks(f)
    BY <1>3, ScenarioSame DEF TxParameters, Parameters
  <2>2. taken' \in 0..made'
    BY <1>3, <1>4
  <2>3. rx' \in Parameters' /\ air' \in Seq(SUBSET Place)
    BY <1>5, <1>8, <2>1
  <2> QED  BY <1>1, <1>3, <2>1, <2>2, <2>3 DEF Typed
<1>11. RowsInPlace' /\ TxKnows' /\ FreshMade' /\ NibblesExplained'
  BY <1>3, RowsKept, TxKept, FreshKept, NibblesKept DEF StreamInv
<1>12. SymbolDue' = SymbolDue /\ RowDue' = RowDue
  BY <1>3, ScenarioSame
<1>13. BufferExplained'
  <2>1. made - taken' < SymbolSlots
    BY <1>3, <1>4, <1>9, SlotsAssumption
  <2>2. \A p \in taken'..(made - 1) : p \in taken..(made - 1)
    BY <1>3, <1>4
  <2>3. \A p \in taken'..(made - 1) :
          /\ Holds(Slot(p), SymbolDue[p])
          /\ Slot(p) # {SymbolDue[p]} => p >= SymbolSlots
    BY <1>9, <2>2
  <2> QED  BY <1>3, <1>9, <1>12, <2>1, <2>3 DEF BufferExplained, Holds, Slot
<1>14. AirInPlace'
  <2>1. First' = First /\ First + Len(air) = taken /\ First \in Nat
    BY <1>1, <1>3, <1>4, <1>8 DEF First, AirInPlace
  <2>2. (Len(air) <= taken)'
    BY <1>1, <1>3, <1>4, <1>8 DEF AirInPlace
  <2>3. (SymbolDue[First][3] = 0 /\ RowDue[out] = SymbolDue[First])'
    BY <1>1, <1>3, <1>12, <2>1 DEF AirInPlace
  <2>4. (taken > 0 => Fits(rx, SymbolDue[taken - 1]))'
    <3>1. taken' - 1 = taken
      BY <1>3, <1>4
    <3>2. Fits(rx', SymbolDue'[taken' - 1])
      BY <1>2, <1>5, <1>12, <3>1
    <3> QED  BY <1>3, <3>2, ScenarioSame DEF Fits
  <2>5. ASSUME NEW j \in 1..Len(air'), NEW v, v = SymbolDue[First + j - 1]
        PROVE  Holds(air'[j], v) /\ Fits(rx', v) /\ (j > 1 => ~Tagged(v))
    <3>1. CASE j \in 1..Len(air)
      <4>1. Arrives(j, v)
        BY <1>1, <2>5, <3>1 DEF AirInPlace
      <4>2. air # <<>>
        BY <1>4, <3>1
      <4>3. rx' = rx
        BY <1>3, <1>5, <4>2
      <4>4. air'[j] = air[j]
        BY <1>8, <3>1
      <4> QED  BY <4>1, <4>3, <4>4 DEF Arrives
    <3>2. CASE j \notin 1..Len(air)
      <4>1. j = Len(air) + 1
        BY <1>4, <1>8, <2>5, <3>2
      <4>2. First + j - 1 = taken
        BY <1>4, <2>1, <4>1
      <4>3. v = due /\ air'[j] = slot
        BY <1>2, <1>8, <2>5, <4>1, <4>2
      <4>4. Holds(slot, due)
        <5>1. taken \in taken..(made - 1)
          BY <1>3, <1>4
        <5> QED  BY <1>2, <1>9, <5>1
      <4>5. j > 1 => ~Tagged(v)
        <5>1. SUFFICES ASSUME j > 1, Tagged(due) PROVE FALSE
          BY <4>3
        <5>2. air = <<>>
          BY <1>3, <5>1
        <5> QED  BY <4>1, <5>1, <5>2
      <4> QED  BY <1>5, <4>3, <4>4, <4>5
    <3> QED  BY <3>1, <3>2
  <2>6. (\A j \in 1..Len(air) : Arrives(j, SymbolDue[First + j - 1]))'
    <3>1. SUFFICES ASSUME NEW j \in 1..Len(air') PROVE Arrives(j, SymbolDue[First + j - 1])'
      OBVIOUS
    <3>2. PICK v : v = SymbolDue[First + j - 1]
      OBVIOUS
    <3>3. Holds(air'[j], v) /\ Fits(rx', v) /\ (j > 1 => ~Tagged(v))
      BY <2>5, <3>2
    <3>4. v = (SymbolDue[First + j - 1])'
      BY <1>12, <2>1, <3>2
    <3>5. Holds(air[j], v)'
      BY <1>3, <3>3 DEF Holds, BlockIn
    <3>6. Fits(rx, v)'
      BY <1>3, <3>3, ScenarioSame DEF Fits
    <3> QED  BY <3>3, <3>4, <3>5, <3>6 DEF Arrives, Holds, Fits, Tagged
  <2> QED  BY <2>2, <2>3, <2>4, <2>6 DEF AirInPlace
<1> QED  BY <1>10, <1>11, <1>13, <1>14 DEF StreamInv

-----------------------------------------------------------------------------
(* A call of deinterleave.                                                 *)
LEMMA RxTyped ==
  ASSUME Typed
  PROVE  rx.SF \in Nat \ {0} /\ rx.codeLength \in Nat \ {0}
<1>1. rx.SF \in {SF, SFPayload, SF - 2} /\ rx.codeLength \in 4..8
  BY DEF Typed, Parameters
<1>2. {SF, SFPayload, SF - 2} \subseteq Nat \ {0}
  BY SFAssumption DEF SFPayload
<1> QED  BY <1>1, <1>2

Taking(n, f, b) ==
  /\ Fits(rx, <<f, b, 0>>) /\ RowDue[out] = <<f, b, 0>>
  /\ RunsTo(SymbolDue, First, f, b, rx.codeLength, n) /\ RunsTo(RowDue, out, f, b, rx.SF, n)
  /\ n > 1 => b >= 1
  /\ n * rx.SF < NibbleSlots /\ n * rx.codeLength <= Len(air)
  /\ nibbles' = Deinterleaved(n) /\ out' = out + n * rx.SF /\ lastCall' = out
  /\ air' = SubSeq(air, n * rx.codeLength + 1, Len(air))
  /\ UNCHANGED <<scenario, written, in, tx, symbols, made, fresh, overrun, taken, rx>>

LEMMA TakingFacts ==
  ASSUME StreamInv, DeinterleaveWork
  PROVE  \E n \in Nat \ {0}, f \in 1..Len(frames), b \in Nat : Taking(n, f, b)
<1>1. Typed /\ RowsInPlace /\ AirInPlace /\ scenario \in Scenarios
  BY DEF StreamInv, Typed
<1>2. PICK noutput \in 1..(NibbleSlots - 1) :
        LET n == Ceil(noutput, rx.SF)
        IN  /\ n * rx.SF < NibbleSlots
            /\ Len(air) >= n * rx.codeLength
            /\ nibbles' = Deinterleaved(n)
            /\ out' = out + n * rx.SF
            /\ lastCall' = out
            /\ air' = SubSeq(air, n * rx.codeLength + 1, Len(air))
            /\ UNCHANGED <<scenario, written, in, txVars, taken, rx>>
  BY DEF DeinterleaveWork
<1>3. PICK n : n = Ceil(noutput, rx.SF)
  OBVIOUS
<1>4. n \in Nat \ {0}
  <2>1. noutput \in Nat \ {0} /\ rx.SF \in Nat \ {0}
    BY <1>1, RxTyped, SlotsAssumption
  <2> QED  BY <1>3, <2>1, CeilPositive
<1>5. /\ n * rx.SF < NibbleSlots /\ Len(air) >= n * rx.codeLength
      /\ nibbles' = Deinterleaved(n) /\ out' = out + n * rx.SF /\ lastCall' = out
      /\ air' = SubSeq(air, n * rx.codeLength + 1, Len(air))
      /\ UNCHANGED <<scenario, written, in, tx, symbols, made, fresh, overrun, taken, rx>>
  BY <1>2, <1>3, Zenon DEF txVars
<1>6. PICK C \in Nat \ {0}, R \in Nat \ {0} : C = rx.codeLength /\ R = rx.SF
  BY <1>1, RxTyped
<1>7. PICK a, p : a = Len(air) /\ p = First
  OBVIOUS
<1>8. a \in Nat /\ p \in Nat /\ p + a = taken /\ taken \in Nat /\ made \in Nat /\ taken <= made
      /\ out \in Nat
  BY <1>1, <1>7 DEF Typed, First, AirInPlace
<1>9. n * C \in Nat /\ n * C <= a /\ 0 < a
  <2>1. PICK x : x = n * C
    OBVIOUS
  <2>2. 1 * C <= n * C
    BY <1>4, <1>6, TimesMonotone
  <2>3. x \in Nat /\ C <= x
    BY <1>4, <1>6, <2>1, <2>2, TimesNext
  <2>4. a >= x
    BY <1>5, <1>6, <1>7, <2>1
  <2> QED  BY <1>6, <1>8, <2>1, <2>3, <2>4
<1>10. PICK f \in 1..Len(frames), b \in Nat, k \in Nat :
         SymbolDue[p] = <<f, b, k>> /\ b <= NBlocks(f) /\ k < CodeLength(f, b)
  <2>1. p < made
    BY <1>8, <1>9
  <2> QED  BY <1>1, <1>8, <2>1, SymbolInFrames
<1>11. SymbolDue[p] = <<f, b, 0>> /\ RowDue[out] = <<f, b, 0>>
  <2>1. SymbolDue[p][3] = 0 /\ RowDue[out] = SymbolDue[p]
    BY <1>1, <1>7 DEF AirInPlace
  <2> QED  BY <1>10, <2>1
<1>12. \A j \in 1..a : Arrives(j, SymbolDue[p + j - 1])
  BY <1>1, <1>7 DEF AirInPlace
<1>13. Fits(rx, <<f, b, 0>>)
  <2>1. 1 \in 1..a /\ p + 1 - 1 = p
    BY <1>8, <1>9
  <2>2. Arrives(1, SymbolDue[p])
    BY <1>12, <2>1
  <2> QED  BY <1>11, <2>2 DEF Arrives
<1>14. R = RowsOf(b) /\ C = CodeLength(f, b) /\ f \in Nat /\ NBlocks(f) \in Nat
  BY <1>1, <1>6, <1>13, FramesTyped DEF Fits
<1>15. Alike(SymbolLengths, f, b, C) /\ Alike(RowLengths, f, b, R)
  <2>1. Alike(RowLengths, f, b, RowsOf(b)) /\ Alike(SymbolLengths, f, b, CodeLength(f, b))
    BY <1>1, LengthsTyped
  <2> QED  BY <1>14, <2>1
<1>16. \A i \in 1..(n - 1) : ~Tagged(SymbolDue[p + i * C])
  <2>1. SUFFICES ASSUME NEW i \in 1..(n - 1) PROVE ~Tagged(SymbolDue[p + i * C])
    OBVIOUS
  <2>2. PICK x, y : x = i * C /\ y = n * C
    OBVIOUS
  <2>3. x \in Nat /\ y \in Nat /\ x + C <= y /\ C <= x
    <3>1. i \in 0..(n - 1) /\ i \in Nat
      BY <1>4
    <3>2. 1 * C <= i * C
      BY <3>1, TimesMonotone
    <3>3. C <= x
      BY <2>2, <3>2
    <3> QED  BY <1>4, <2>2, <3>1, <3>3, PartOf
  <2>4. x + 1 \in 1..a /\ x + 1 > 1 /\ p + (x + 1) - 1 = p + x
    <3>1. y <= a
      BY <1>9, <2>2
    <3> QED  BY <1>6, <1>8, <2>3, <3>1
  <2>5. Arrives(x + 1, SymbolDue[p + x])
    BY <1>12, <2>4
  <2> QED  BY <2>2, <2>4, <2>5 DEF Arrives
<1>17. b + n - 1 <= NBlocks(f) /\ (n > 1 => b >= 1)
  BY <1>4, <1>8, <1>10, <1>11, <1>14, <1>15, <1>16, SymbolStream, UntaggedAlike
<1>18. RunsTo(SymbolDue, p, f, b, C, n)
  BY <1>4, <1>8, <1>11, <1>14, <1>15, <1>17, SymbolStream, BlocksRun
<1>19. RunsTo(RowDue, out, f, b, R, n)
  BY <1>4, <1>8, <1>11, <1>14, <1>15, <1>17, RowStream, BlocksRun
<1>20. n * rx.codeLength <= Len(air)
  BY <1>6, <1>7, <1>9
<1>21. Taking(n, f, b)
  BY <1>5, <1>6, <1>7, <1>11, <1>13, <1>17, <1>18, <1>19, <1>20 DEF Taking
<1> QED  BY <1>4, <1>21

(* What a nibble of block c of a call gets, and its slot.                  *)
Gathered(c) == UNION {air[c * rx.codeLength + j] : j \in 1..rx.codeLength}

Left(i, s) == IF i < rx.SF THEN {} ELSE nibbles[s]

LEMMA NibbleSlot ==
  ASSUME Typed, NEW n, NEW i \in 0..(NibbleSlots - 1),
         NEW s, s = (out + i) % NibbleSlots, NEW c, c = i \div rx.SF
  PROVE  /\ s \in 0..(NibbleSlots - 1)
         /\ i >= n * rx.SF => Deinterleaved(n)[s] = nibbles[s]
         /\ ~(i >= n * rx.SF) => Deinterleaved(n)[s] = Left(i, s) \union Gathered(c)
<1>1. NibbleSlots \in Nat /\ NibbleSlots > 0 /\ out \in Nat
  BY SlotsAssumption DEF Typed
<1>2. s \in 0..(NibbleSlots - 1) /\ (s - out) % NibbleSlots = i
  BY <1>1, RingSlot
<1>3. s \in DOMAIN nibbles
  BY <1>2 DEF Typed
<1>4. Deinterleaved(n)[s] =
        IF i >= n * rx.SF THEN nibbles[s] ELSE Left(i, s) \union Gathered(c)
  BY <1>2, <1>3, Zenon DEF Deinterleaved, Gathered, Left
<1> QED  BY <1>2, <1>4, Zenon

LEMMA DeinterleavedTyped ==
  ASSUME StreamInv, NEW n \in Nat \ {0}, NEW f \in 1..Len(frames), NEW b \in Nat, Taking(n, f, b)
  PROVE  Typed'
<1>1. Typed
  BY DEF StreamInv
<1>2. UNCHANGED <<scenario, written, in, tx, symbols, made, fresh, overrun, taken, rx>>
  BY DEF Taking
<1>3. TxParameters' = TxParameters /\ Parameters' = Parameters /\ frames' = frames
      /\ \A g : NBlocks(g)' = NBlocks(g)
  BY <1>2, ScenarioSame DEF TxParameters, Parameters
<1>4. PICK C \in Nat \ {0}, R \in Nat \ {0} : C = rx.codeLength /\ R = rx.SF
  BY <1>1, RxTyped
<1>5. PICK x \in Nat, y \in Nat : x = n * C /\ y = n * R
  BY TimesNext
<1>6. x <= Len(air) /\ air \in Seq(SUBSET Place) /\ Len(air) \in Nat
  BY <1>1, <1>4, <1>5 DEF Taking, Typed
<1>7. air' \in Seq(SUBSET Place)
  <2>1. air' = SubSeq(air, x + 1, Len(air)) /\ x \in 0..Len(air)
    BY <1>4, <1>5, <1>6 DEF Taking
  <2> QED  BY <1>6, <2>1, DropFirst
<1>8. out' \in Nat /\ lastCall' \in 0..out'
  <2>1. out' = out + y /\ lastCall' = out
    BY <1>4, <1>5 DEF Taking
  <2> QED  BY <1>1, <2>1 DEF Typed
<1>9. nibbles' \in [0..(NibbleSlots - 1) -> SUBSET Place]
  <2>1. nibbles' = Deinterleaved(n) /\ DOMAIN nibbles = 0..(NibbleSlots - 1)
    BY <1>1 DEF Taking, Typed
  <2>2. /\ DOMAIN Deinterleaved(n) = 0..(NibbleSlots - 1)
        /\ Deinterleaved(n) = [s \in DOMAIN Deinterleaved(n) |-> Deinterleaved(n)[s]]
    BY <2>1 DEF Deinterleaved
  <2>3. ASSUME NEW s \in 0..(NibbleSlots - 1) PROVE Deinterleaved(n)[s] \subseteq Place
    <3>1. NibbleSlots \in Nat /\ NibbleSlots > 0 /\ out \in Nat
      BY <1>1, SlotsAssumption DEF Typed
    <3>2. PICK i, c : i = (s - out) % NibbleSlots /\ c = i \div R
      OBVIOUS
    <3>3. i \in 0..(NibbleSlots - 1) /\ s = (out + i) % NibbleSlots
      BY <3>1, <3>2, SlotPlace
    <3>4. /\ i >= n * R => Deinterleaved(n)[s] = nibbles[s]
          /\ ~(i >= n * R) => Deinterleaved(n)[s] = Left(i, s) \union Gathered(c)
      BY <1>1, <1>4, <3>2, <3>3, NibbleSlot
    <3>5. nibbles[s] \subseteq Place
      BY <1>1 DEF Typed
    <3>6. i < n * R => c \in 0..(n - 1)
      <4>1. SUFFICES ASSUME i < y PROVE c \in 0..(n - 1)
        BY <1>5
      <4>2. c \in Nat /\ i % R \in 0..(R - 1) /\ i = c * R + (i % R)
        <5>1. i \in Nat /\ R \in Nat /\ R > 0
          BY <3>1, <3>3
        <5>2. c = i \div R
          BY <3>2
        <5> QED  BY <5>1, <5>2, DivMod
      <4>3. PICK r \in 0..(R - 1) : i = c * R + r
        BY <4>2
      <4>4. ~(n <= c)
        <5>1. SUFFICES ASSUME n <= c PROVE FALSE
          OBVIOUS
        <5>2. PICK z \in Nat : z = c * R
          BY <4>2, TimesNext
        <5>3. n * R <= c * R
          BY <4>2, <5>1, TimesMonotone
        <5>4. y <= z
          BY <1>5, <5>2, <5>3
        <5> QED  BY <4>1, <4>3, <5>2, <5>4
      <4> QED  BY <4>2, <4>4
    <3>7. ASSUME i < n * R, NEW j \in 1..C PROVE air[c * C + j] \subseteq Place
      <4>1. c \in 0..(n - 1)
        BY <3>6, <3>7
      <4>2. PICK z : z = c * C
        OBVIOUS
      <4>3. z \in Nat /\ z + C <= x
        BY <1>5, <4>1, <4>2, PartOf
      <4>4. z + j \in 1..Len(air)
        BY <1>6, <4>3
      <4>5. air[z + j] \in SUBSET Place
        BY <1>6, <4>4
      <4> QED  BY <4>2, <4>5
    <3>8. i >= n * R \/ i < n * R
      BY <1>5, <3>3
    <3>9. CASE i >= n * R
      BY <3>4, <3>5, <3>9, Zenon
    <3>10. CASE i < n * R
      <4>1. Gathered(c) \subseteq Place
        BY <1>4, <3>7, <3>10 DEF Gathered
      <4>2. ~(i >= n * R)
        BY <1>5, <3>3, <3>10
      <4>3. Deinterleaved(n)[s] = Left(i, s) \union Gathered(c)
        BY <3>4, <4>2, Zenon
      <4> QED  BY <3>5, <4>1, <4>3 DEF Left
    <3> QED  BY <3>8, <3>9, <3>10
  <2> QED  BY <2>1, <2>2, <2>3
<1> QED  BY <1>1, <1>2, <1>3, <1>7, <1>8, <1>9 DEF Typed

Own(u) == {<<u[1], u[2], k>> : k \in 0..(CodeLength(u[1], u[2]) - 1)}

LEMMA BitsAre ==
  ASSUME StreamInv, NEW n \in Nat \ {0}, NEW f \in 1..Len(frames), NEW b \in Nat, Taking(n, f, b),
         NEW c \in 0..(n - 1), NEW u, u[1] = f, u[2] = b + c
  PROVE  Own(u) \subseteq Gathered(c) /\ (BlockIn(u) \in fresh => Gathered(c) \subseteq Own(u))
<1>1. Typed /\ AirInPlace
  BY DEF StreamInv
<1>2. PICK C \in Nat \ {0} : C = rx.codeLength
  BY <1>1, RxTyped
<1>3. PICK x, y : x = c * C /\ y = n * C
  OBVIOUS
<1>4. x \in Nat /\ y \in Nat /\ x + C <= y
  <2>1. n \in Nat /\ C \in Nat
    OBVIOUS
  <2> QED  BY <1>3, <2>1, PartOf
<1>5. y <= Len(air) /\ Len(air) \in Nat /\ First \in Nat
  BY <1>1, <1>2, <1>3 DEF Taking, Typed, AirInPlace, First
<1>6. CodeLength(f, b + c) = C
  <2>1. CodeLength(f, b) = C /\ (n > 1 => b >= 1)
    BY <1>2 DEF Taking, Fits
  <2>2. b = 0 <=> b + c = 0
    BY <2>1
  <2> QED  BY <2>1, <2>2 DEF CodeLength
<1>7. Own(u) = {<<f, b + c, k>> : k \in 0..(C - 1)}
  BY <1>6 DEF Own
<1>8. Gathered(c) = UNION {air[x + j] : j \in 1..C}
  BY <1>2, <1>3 DEF Gathered
<1>9. ASSUME NEW j \in 1..C
      PROVE  Holds(air[x + j], <<f, b + c, j - 1>>)
  <2>1. x + j \in 1..Len(air) /\ First + (x + j) - 1 = First + x + (j - 1) /\ j - 1 \in 0..(C - 1)
    BY <1>4, <1>5
  <2>2. SymbolDue[First + x + (j - 1)] = <<f, b + c, j - 1>>
    BY <1>2, <1>3, <2>1 DEF Taking, RunsTo
  <2>3. Arrives(x + j, SymbolDue[First + (x + j) - 1])
    BY <1>1, <2>1 DEF AirInPlace
  <2>4. PICK v : v = <<f, b + c, j - 1>>
    OBVIOUS
  <2>5. Holds(air[x + j], v)
    BY <2>1, <2>2, <2>3, <2>4 DEF Arrives
  <2> QED  BY <2>4, <2>5
<1>10. Own(u) \subseteq Gathered(c)
  <2>1. ASSUME NEW k \in 0..(C - 1) PROVE <<f, b + c, k>> \in Gathered(c)
    <3>1. PICK j \in 1..C : k = j - 1
      <4>1. k + 1 \in 1..C /\ k = (k + 1) - 1
        OBVIOUS
      <4> QED  BY <4>1
    <3>2. <<f, b + c, k>> \in air[x + j]
      BY <1>9, <3>1 DEF Holds
    <3> QED  BY <1>8, <3>2
  <2> QED  BY <1>7, <2>1
<1>11. ASSUME BlockIn(u) \in fresh PROVE Gathered(c) \subseteq Own(u)
  <2>1. SUFFICES ASSUME NEW j \in 1..C, NEW w \in air[x + j] PROVE w \in Own(u)
    BY <1>8
  <2>2. PICK v : v = <<f, b + c, j - 1>>
    OBVIOUS
  <2>3. Holds(air[x + j], v) /\ BlockIn(v) = BlockIn(u)
    BY <1>9, <2>2 DEF BlockIn
  <2>4. air[x + j] = {v}
    BY <1>11, <2>3 DEF Holds
  <2>5. j - 1 \in 0..(C - 1)
    OBVIOUS
  <2> QED  BY <1>7, <2>1, <2>2, <2>4, <2>5
<1> QED  BY <1>10, <1>11

LEMMA NibbleMade ==
  ASSUME StreamInv, NEW n \in Nat \ {0}, NEW f \in 1..Len(frames), NEW b \in Nat, Taking(n, f, b),
         NEW i \in Nat, i < n * rx.SF, NEW p, p = out + i, NEW due, due = RowDue[p],
         NEW got, got = Deinterleaved(n)[p % NibbleSlots]
  PROVE  /\ Own(due) \subseteq got
         /\ got # Own(due) =>
              \/ BlockIn(due) \notin fresh
              \/ p >= NibbleSlots /\ p - due[3] > out
<1>1. Typed /\ NibblesExplained /\ out \in Nat
  BY DEF StreamInv, Typed
<1>2. PICK R \in Nat \ {0} : R = rx.SF
  BY <1>1, RxTyped
<1>3. PICK y \in Nat : y = n * R
  BY TimesNext
<1>4. y < NibbleSlots /\ i < y /\ NibbleSlots \in Nat /\ NibbleSlots > 0
  BY <1>2, <1>3, SlotsAssumption DEF Taking
<1>5. i \in 0..(NibbleSlots - 1)
  BY <1>4
<1>6. PICK c, k : c = i \div R /\ k = i % R
  OBVIOUS
<1>7. c \in Nat /\ k \in 0..(R - 1) /\ i = c * R + k
  <2>1. R \in Nat /\ R > 0
    OBVIOUS
  <2> QED  BY <1>6, <2>1, DivMod
<1>8. PICK z \in Nat : z = c * R
  BY <1>7, TimesNext
<1>9. c \in 0..(n - 1)
  <2>1. SUFFICES ASSUME n <= c PROVE FALSE
    BY <1>7
  <2>2. n * R <= c * R
    BY <1>7, <2>1, TimesMonotone
  <2>3. y <= z
    BY <1>3, <1>8, <2>2
  <2> QED  BY <1>4, <1>7, <1>8, <2>3
<1>10. due = <<f, b + c, k>>
  <2>1. RowDue[out + c * R + k] = <<f, b + c, k>>
    BY <1>2, <1>7, <1>9 DEF Taking, RunsTo
  <2>2. p = out + c * R + k
    BY <1>1, <1>7, <1>8
  <2> QED  BY <2>1, <2>2
<1>11. due[1] = f /\ due[2] = b + c /\ due[3] = k
  BY <1>10
<1>12. PICK s : s = p % NibbleSlots
  OBVIOUS
<1>13. got = Left(i, s) \union Gathered(c)
  <2>1. s = (out + i) % NibbleSlots /\ c = i \div rx.SF
    BY <1>2, <1>6, <1>12
  <2>2. ~(i >= n * rx.SF)
    BY <1>2, <1>3, <1>4
  <2>3. got = Deinterleaved(n)[s]
    BY <1>12
  <2> QED  BY <1>1, <1>5, <2>1, <2>2, <2>3, NibbleSlot
<1>14. Own(due) \subseteq Gathered(c) /\ (BlockIn(due) \in fresh => Gathered(c) \subseteq Own(due))
  BY <1>9, <1>11, BitsAre
<1>15. ASSUME got # Own(due), BlockIn(due) \in fresh
       PROVE  p >= NibbleSlots /\ p - due[3] > out
  <2>1. Left(i, s) # {}
    BY <1>13, <1>14, <1>15
  <2>2. i >= R /\ nibbles[s] # {}
    BY <1>2, <1>4, <2>1 DEF Left
  <2>3. c # 0
    <3>1. SUFFICES ASSUME c = 0 PROVE FALSE
      OBVIOUS
    <3>2. z = 0
      BY <1>8, <3>1
    <3> QED  BY <1>7, <1>8, <2>2, <3>2
  <2>4. z > 0
    <3>1. 1 * R <= c * R
      BY <1>7, <2>3, TimesMonotone
    <3> QED  BY <1>8, <3>1
  <2>5. p - due[3] > out
    <3>1. p - k = out + z
      BY <1>1, <1>7, <1>8
    <3> QED  BY <1>1, <1>11, <2>4, <3>1
  <2>6. p >= NibbleSlots
    <3>1. SUFFICES ASSUME p < NibbleSlots PROVE FALSE
      BY <1>1, <1>4
    <3>2. p \in 0..(NibbleSlots - 1) /\ p >= out
      BY <1>1, <1>4, <3>1
    <3>3. s = p
      BY <1>4, <1>12, <3>2, WithinRing
    <3> QED  BY <1>1, <2>2, <3>2, <3>3 DEF NibblesExplained
  <2> QED  BY <2>5, <2>6
<1> QED  BY <1>13, <1>14, <1>15

LEMMA TakingNibbles ==
  ASSUME StreamInv, NEW n \in Nat \ {0}, NEW f \in 1..Len(frames), NEW b \in Nat, Taking(n, f, b)
  PROVE  NibblesExplained'
<1>1. Typed /\ NibblesExplained /\ out \in Nat
  BY DEF StreamInv, Typed
<1>2. PICK R \in Nat \ {0} : R = rx.SF
  BY <1>1, RxTyped
<1>3. PICK y \in Nat : y = n * R
  BY TimesNext
<1>4. /\ out' = out + y /\ lastCall' = out /\ nibbles' = Deinterleaved(n)
      /\ scenario' = scenario /\ fresh' = fresh /\ RowDue[out] = <<f, b, 0>>
  BY <1>2, <1>3 DEF Taking
<1>5. RowDue' = RowDue /\ \A g, d : CodeLength(g, d)' = CodeLength(g, d)
  BY <1>4, ScenarioSame
<1>6. ASSUME NEW p \in out..(out + y - 1), NEW due, due = RowDue[p],
             NEW got, got = Deinterleaved(n)[p % NibbleSlots]
      PROVE  /\ Own(due) \subseteq got
             /\ got # Own(due) =>
                  \/ BlockIn(due) \notin fresh
                  \/ p >= NibbleSlots /\ p - due[3] > out
  <2>1. PICK i \in Nat : i = p - out
    BY <1>1, <1>6
  <2>2. i < y /\ p = out + i
    BY <1>1, <1>6, <2>1
  <2>3. i < n * rx.SF
    BY <1>2, <1>3, <2>2
  <2> QED  BY <1>6, <2>2, <2>3, NibbleMade
<1>7. NibblesReceived'
  <2>1. (lastCall..(out - 1))' = out..(out + y - 1)
    BY <1>1, <1>4
  <2>2. SUFFICES ASSUME NEW p \in out..(out + y - 1)
                 PROVE  (LET due == RowDue[p]
                             own == {<<due[1], due[2], k>> : k \in 0..(CodeLength(due[1], due[2]) - 1)}
                             got == nibbles[p % NibbleSlots]
                         IN  /\ own \subseteq got
                             /\ got # own =>
                                  \/ <<due[1], due[2]>> \notin fresh
                                  \/ p >= NibbleSlots /\ p - due[3] > lastCall)'
    BY <2>1, Zenon DEF NibblesReceived
  <2>3. PICK due, got : due = RowDue[p] /\ got = Deinterleaved(n)[p % NibbleSlots]
    OBVIOUS
  <2>4. /\ Own(due) \subseteq got
        /\ got # Own(due) =>
             \/ BlockIn(due) \notin fresh
             \/ p >= NibbleSlots /\ p - due[3] > out
    BY <1>6, <2>3
  <2>5. (RowDue[p])' = due /\ (nibbles[p % NibbleSlots])' = got
    BY <1>4, <1>5, <2>3
  <2>6. Own(due) = {<<due[1], due[2], k>> : k \in 0..(CodeLength(due[1], due[2])' - 1)}
    BY <1>5 DEF Own
  <2> QED  BY <1>4, <2>4, <2>5, <2>6 DEF BlockIn
<1>8. (RowDue[lastCall][3] = 0)'
  BY <1>4, <1>5
<1>9. (\A s \in 0..(NibbleSlots - 1) : s >= out => nibbles[s] = {})'
  <2>1. SUFFICES ASSUME NEW s \in 0..(NibbleSlots - 1), s >= out + y
                 PROVE  Deinterleaved(n)[s] = {}
    BY <1>4
  <2>2. NibbleSlots \in Nat /\ NibbleSlots > 0
    BY SlotsAssumption
  <2>3. PICK i \in 0..(NibbleSlots - 1) : i = s - out
    BY <1>1, <2>1, <2>2
  <2>4. i >= y /\ out + i = s
    BY <1>1, <2>1, <2>3
  <2>5. s % NibbleSlots = s
    BY <2>2, WithinRing
  <2>6. s = (out + i) % NibbleSlots
    BY <2>4, <2>5
  <2>7. i >= n * rx.SF
    BY <1>2, <1>3, <2>4
  <2>8. Deinterleaved(n)[s] = nibbles[s]
    BY <1>1, <2>6, <2>7, NibbleSlot
  <2>9. s >= out
    BY <1>1, <2>1
  <2> QED  BY <1>1, <2>8, <2>9 DEF NibblesExplained
<1> QED  BY <1>7, <1>8, <1>9 DEF NibblesExplained

LEMMA TakingAir ==
  ASSUME StreamInv, NEW n \in Nat \ {0}, NEW f \in 1..Len(frames), NEW b \in Nat, Taking(n, f, b)
  PROVE  AirInPlace'
<1>1. Typed /\ AirInPlace
  BY DEF StreamInv
<1>2. PICK C \in Nat \ {0}, R \in Nat \ {0} : C = rx.codeLength /\ R = rx.SF
  BY <1>1, RxTyped
<1>3. PICK x \in Nat, y \in Nat : x = n * C /\ y = n * R
  BY TimesNext
<1>4. PICK a, p : a = Len(air) /\ p = First
  OBVIOUS
<1>5. /\ a \in Nat /\ p \in Nat /\ p + a = taken /\ taken \in Nat /\ out \in Nat
      /\ air \in Seq(SUBSET Place)
  BY <1>1, <1>4 DEF Typed, First, AirInPlace
<1>6. /\ x <= a /\ air' = SubSeq(air, x + 1, Len(air)) /\ out' = out + y
      /\ scenario' = scenario /\ fresh' = fresh /\ rx' = rx /\ taken' = taken
  BY <1>2, <1>3, <1>4 DEF Taking
<1>7. Len(air') = a - x /\ \A j \in 1..Len(air') : air'[j] = air[x + j]
  <2>1. x \in 0..Len(air)
    BY <1>4, <1>5, <1>6
  <2> QED  BY <1>4, <1>5, <1>6, <2>1, DropFirst
<1>16. x <= a /\ taken' = taken /\ Len(air') = a - x
  BY <1>6, <1>7, Zenon
<1>8. First' = p + x
  <2>1. First' = taken' - Len(air')
    BY DEF First
  <2> QED  BY <1>5, <1>16, <2>1
<1>9. PICK v : v = NextBlock(f, b + n - 1)
  OBVIOUS
<1>10. SymbolDue[p + x] = v /\ RowDue[out + y] = v /\ v[3] = 0
  <2>1. SymbolDue[p + n * C] = v /\ RowDue[out + n * R] = v
    BY <1>2, <1>4, <1>9 DEF Taking, RunsTo
  <2>2. v[3] = 0
    BY <1>9 DEF NextBlock
  <2> QED  BY <1>3, <2>1, <2>2
<1>11. SymbolDue' = SymbolDue /\ RowDue' = RowDue
  BY <1>6, ScenarioSame
<1>12. (SymbolDue[First][3] = 0 /\ RowDue[out] = SymbolDue[First])'
  BY <1>6, <1>8, <1>10, <1>11
<1>13. (Len(air) <= taken)'
  BY <1>5, <1>16
<1>14. (taken > 0 => Fits(rx, SymbolDue[taken - 1]))'
  <2>1. taken > 0 => Fits(rx, SymbolDue[taken - 1])
    BY <1>1 DEF AirInPlace
  <2> QED  BY <1>6, <1>11, <2>1, ScenarioSame DEF Fits
<1>15. (\A j \in 1..Len(air) : Arrives(j, SymbolDue[First + j - 1]))'
  <2>1. SUFFICES ASSUME NEW j \in 1..Len(air') PROVE Arrives(j, SymbolDue[First + j - 1])'
    OBVIOUS
  <2>2. PICK w, i : i = x + j /\ w = SymbolDue[p + i - 1]
    OBVIOUS
  <2>3. i \in 1..a /\ (j > 1 => i > 1) /\ p + i - 1 = p + x + j - 1
    BY <1>5, <1>16, <2>2
  <2>4. Arrives(i, w)
    BY <1>1, <1>4, <2>2, <2>3 DEF AirInPlace
  <2>5. w = (SymbolDue[First + j - 1])'
    BY <1>8, <1>11, <2>2, <2>3
  <2>6. air'[j] = air[i]
    BY <1>7, <2>2
  <2>7. Holds(air[j], w)'
    BY <1>6, <2>4, <2>6 DEF Arrives, Holds, BlockIn
  <2>8. Fits(rx, w)'
    BY <1>6, <2>4, ScenarioSame DEF Arrives, Fits
  <2>9. j > 1 => ~Tagged(w)
    BY <2>3, <2>4 DEF Arrives
  <2> QED  BY <2>5, <2>7, <2>8, <2>9 DEF Arrives, Holds, Fits, Tagged
<1> QED  BY <1>12, <1>13, <1>14, <1>15 DEF AirInPlace

LEMMA DeinterleaveStep ==
  ASSUME StreamInv, DeinterleaveWork
  PROVE  StreamInv'
<1>1. PICK n \in Nat \ {0}, f \in 1..Len(frames), b \in Nat : Taking(n, f, b)
  BY TakingFacts
<1>2. UNCHANGED <<scenario, written, in, tx, symbols, made, fresh, overrun, taken, rx>>
  BY <1>1 DEF Taking
<1>3. Typed'
  BY <1>1, DeinterleavedTyped
<1>4. RowsInPlace' /\ TxKnows' /\ BufferExplained' /\ FreshMade'
  BY <1>2, RowsKept, TxKept, BufferKept, FreshKept DEF StreamInv
<1>5. AirInPlace'
  BY <1>1, TakingAir
<1>6. NibblesExplained'
  BY <1>1, TakingNibbles
<1> QED  BY <1>3, <1>4, <1>5, <1>6 DEF StreamInv

LEMMA StreamStutters ==
  ASSUME StreamInv, UNCHANGED streamVars
  PROVE  StreamInv'
<1>1. UNCHANGED <<scenario, written, in, tx, symbols, made, fresh, overrun, taken, air, rx,
                  nibbles, out, lastCall>>
  BY DEF streamVars, txVars, rxVars
<1>2. RowsInPlace' /\ TxKnows' /\ BufferExplained' /\ FreshMade' /\ AirInPlace' /\ NibblesExplained'
  BY <1>1, RowsKept, TxKept, BufferKept, FreshKept, AirKept, NibblesKept DEF StreamInv
<1>3. TxParameters' = TxParameters /\ Parameters' = Parameters /\ frames' = frames
      /\ \A f : NBlocks(f)' = NBlocks(f)
  BY <1>1, ScenarioSame DEF TxParameters, Parameters
<1>4. Typed'
  BY <1>1, <1>3 DEF StreamInv, Typed
<1> QED  BY <1>2, <1>4 DEF StreamInv

LEMMA StreamAlways == StreamSpec => []StreamInv
<1>1. StreamInit => StreamInv
  BY StreamStarts
<1>2. StreamInv /\ [StreamNext]_streamVars => StreamInv'
  BY WriteHeaderStep, WritePayloadStep, InterleaveStep, TransferStep, DeinterleaveStep,
     StreamStutters DEF StreamNext, Source
<1> QED  BY <1>1, <1>2, PTL DEF StreamSpec

-----------------------------------------------------------------------------
(* Type correctness: whatever is written, interleaved, sent and read, the  *)
(* rows and symbols stay those of the frames, the parameters in range, and *)
(* the ring within its size until it is overrun.                           *)
THEOREM StreamTyped == StreamSpec => []StreamTypeOK
<1>1. StreamInv => StreamTypeOK
  <2>1. SUFFICES ASSUME StreamInv PROVE StreamTypeOK
    OBVIOUS
  <2>2. Typed /\ RowsInPlace /\ BufferExplained /\ AirInPlace /\ scenario \in Scenarios
    BY <2>1 DEF StreamInv, Typed
  <2>3. ASSUME NEW i \in DOMAIN in PROVE IsRow(in[i])
    <3>1. PICK q \in Nat : RowsFrom(q)
      BY <2>2 DEF RowsInPlace
    <3>2. in \in Seq(Place)
      BY <2>2 DEF Typed
    <3>3. PICK n \in Nat : n = Len(in)
      BY <3>2
    <3>4. i \in 1..n
      BY <2>3, <3>2, <3>3
    <3>5. PICK p \in Nat : p = q + i - 1 /\ p < q + n
      BY <3>4
    <3>6. RowDue[q + n] = NextWritten /\ in[i] = RowDue[p]
      BY <3>1, <3>3, <3>4, <3>5 DEF RowsFrom
    <3>7. InFrames(RowDue[q + n])
      BY <2>2, <3>6, NextInFrames
    <3>8. RowDue[p][1] \in 1..Len(frames)
      <4>1. q + n \in Nat /\ p <= q + n
        BY <3>5
      <4> QED  BY <2>2, <3>5, <3>7, <4>1, RowStream, BothSized, BeforeEnd
    <3>9. PICK u \in Place : u = RowDue[p]
      BY RowStream DEF IsStream
    <3>10. PICK f \in Nat, b \in Nat, k \in Nat : u = <<f, b, k>>
      BY DEF Place
    <3>11. InBlock(u, RowLengths) /\ RowLengths[u] = RowsOf(b)
      <4>1. InBlock(u, RowLengths)
        BY <2>2, <3>9, RowStream, BothSized, StreamInBlocks
      <4>2. RowLengths[u] = RowsOf(b)
        BY <3>10 DEF RowLengths
      <4> QED  BY <4>1, <4>2
    <3>12. f \in 1..Len(frames)
      BY <3>8, <3>9, <3>10
    <3>13. b <= NBlocks(f) /\ k < RowsOf(b)
      BY <3>10, <3>11, <3>12 DEF InBlock
    <3>14. DOMAIN frames = 1..Len(frames) /\ NBlocks(f) \in Nat /\ RowsOf(b) \in Nat
      BY <2>2, <3>12, FramesTyped, LengthsTyped
    <3>15. IsRow(u)
      BY <3>10, <3>12, <3>13, <3>14 DEF IsRow
    <3> QED  BY <3>6, <3>9, <3>15
  <2>4. InFrames(SymbolDue[made])
    BY <2>2, MadeInFrames
  <2>5. InFrames(RowDue[out])
    <3>1. RowDue[out] = SymbolDue[First] /\ First \in Nat /\ First <= made /\ made \in Nat
      BY <2>2 DEF AirInPlace, First, Typed
    <3> QED  BY <2>2, <2>4, <3>1, SymbolStream, BothSized, BeforeEnd
  <2>6. overrun \/ made - taken < SymbolSlots
    BY <2>2 DEF BufferExplained
  <2>7. /\ written \in (0..Len(frames)) \X {0, 1} /\ in \in Seq(Place)
        /\ tx \in [SF : {SF, SFPayload, SF - 2}, codeLength : 4..8, changedParams : BOOLEAN]
        /\ rx \in [SF : {SF, SFPayload, SF - 2}, codeLength : 4..8]
        /\ made \in Nat /\ taken \in 0..made /\ out \in Nat /\ lastCall \in 0..out
    BY <2>2 DEF Typed, TxParameters, Parameters
  <2> QED  BY <2>3, <2>4, <2>5, <2>6, <2>7 DEF StreamTypeOK
<1> QED  BY <1>1, StreamAlways, PTL

(* For every SF, buffer size and frames, Interleave cuts the blocks where  *)
(* the tags say and uses the parameters of their own tag, and a symbol is  *)
(* mixed with residue only if its block was not the first of its call and  *)
(* the buffer has come round.                                              *)
THEOREM StreamResidueExplained == StreamSpec => []ResidueExplained
<1>1. StreamInv => ResidueExplained
  <2>1. SUFFICES ASSUME StreamInv, ~overrun, NEW p \in taken..(made - 1), NEW due, due = SymbolDue[p]
                 PROVE  /\ due \in Slot(p)
                        /\ Slot(p) # {due} => <<due[1], due[2]>> \notin fresh /\ p >= SymbolSlots
    BY Zenon DEF ResidueExplained, Unread
  <2>2. BufferExplained
    BY <2>1 DEF StreamInv
  <2>3. Holds(Slot(p), due) /\ (Slot(p) # {due} => p >= SymbolSlots)
    BY <2>1, <2>2 DEF BufferExplained
  <2> QED  BY <2>3 DEF Holds, BlockIn
<1> QED  BY <1>1, StreamAlways, PTL

(* The nibbles a call of deinterleave makes are those of the rows sent,    *)
(* whole and in order, and wrong only for that reason on one of the sides. *)
THEOREM StreamNibblesReceived == StreamSpec => []NibblesReceived
<1>1. StreamInv => NibblesReceived
  BY DEF StreamInv, NibblesExplained
<1> QED  BY <1>1, StreamAlways, PTL

(* Interleave is left with input and nothing to read only when the header  *)
(* of a frame without payload waits and it still has the larger SF of the  *)
(* block before, or of its constructor.                                    *)
THEOREM StreamStarvationExplained == StreamSpec => []StarvationExplained
<1>1. StreamInv => StarvationExplained
  <2>1. SUFFICES ASSUME StreamInv, in # <<>>, Len(in) < tx.SF, written[2] = 1
                 PROVE  in[1][2] = 0 /\ Len(in) = SF - 2 /\ NBlocks(in[1][1]) = 0 /\ tx.SF = SF
    BY DEF StarvationExplained
  <2>2. Typed /\ RowsInPlace /\ TxKnows /\ scenario \in Scenarios
    BY <2>1 DEF StreamInv, Typed
  <2>3. PICK n \in Nat \ {0} : n = Len(in)
    BY <2>1, <2>2 DEF Typed
  <2>4. PICK q \in Nat, f \in 1..Len(frames), b \in Nat :
          /\ RowsFrom(q) /\ SymbolDue[made] = <<f, b, 0>> /\ in[1] = <<f, b, 0>>
          /\ RowDue[q] = <<f, b, 0>> /\ b <= NBlocks(f)
    BY <2>2, <2>3, CallStart
  <2>5. PICK r : r = RowsOf(b)
    OBVIOUS
  <2>6. r \in {SF, SFPayload, SF - 2} /\ r \in Nat \ {0} /\ r >= SF - 2 /\ SF \in 7..16
    <3>1. r \in {SF, SFPayload, SF - 2} /\ r \in Nat /\ r >= SF - 2
      BY <2>2, <2>5, LengthsTyped
    <3>2. r # 0
      BY <3>1, SFAssumption
    <3> QED  BY <3>1, <3>2, SFAssumption
  <2>7. f \in Nat /\ NBlocks(f) \in Nat /\ BlockOfLength(RowLengths, f, b, r)
    <3>1. Alike(RowLengths, f, b, r)
      BY <2>2, <2>5, LengthsTyped
    <3> QED  BY <2>2, <3>1, FramesTyped DEF Alike, BlockOfLength
  <2>8. RunsAlong(RowDue, q, f, b, r)
    BY <2>4, <2>6, <2>7, RowStream, BlockRun
  <2>9. RowDue[q + n] = <<written[1] + 1, 0, 0>>
    BY <2>1, <2>3, <2>4 DEF RowsFrom, NextWritten
  <2>10. r <= n
    <3>1. SUFFICES ASSUME n < r PROVE FALSE
      BY <2>3, <2>6
    <3>2. n \in 0..(r - 1)
      BY <2>6, <3>1
    <3>3. RowDue[q + n] = <<f, b, n>>
      BY <2>8, <3>2 DEF RunsAlong
    <3> QED  BY <2>9, <3>3
  <2>11. tx.SF \in {SF, SFPayload, SF - 2} /\ SFPayload \in {SF, SF - 2}
    BY <2>2 DEF Typed, TxParameters, SFPayload
  <2>12. tx.SF = SF /\ r = SF - 2 /\ n \in {r, r + 1}
    BY <2>1, <2>3, <2>6, <2>10, <2>11
  <2>13. b = 0
    <3>1. SUFFICES ASSUME b # 0 PROVE FALSE
      OBVIOUS
    <3>2. scenario.ldr
      <4>1. SUFFICES ASSUME ~scenario.ldr PROVE FALSE
        OBVIOUS
      <4>2. r = SF
        BY <2>5, <3>1, <4>1 DEF RowsOf, SFPayload
      <4> QED  BY <2>6, <2>12, <4>2
    <3>3. made = 0
      BY <2>2, <2>12, <3>2 DEF TxKnows
    <3>4. SymbolDue[made] = <<1, 0, 0>>
      BY <3>3, SymbolStream DEF IsStream
    <3> QED  BY <2>4, <3>1, <3>4
  <2>14. PICK v : v = NextBlock(f, b)
    OBVIOUS
  <2>15. RowDue[q + r] = v /\ (v = <<f, 1, 0>> \/ v = <<f + 1, 0, 0>>)
    BY <2>8, <2>13, <2>14 DEF RunsAlong, NextBlock
  <2>16. n = r
    <3>1. SUFFICES ASSUME n = r + 1 PROVE FALSE
      BY <2>12
    <3>2. PICK p \in Nat : p = q + r
      BY <2>6
    <3>3. RowDue[p + 1] = Follows(v, RowLengths[v])
      BY <2>15, <3>2, RowStream DEF IsStream
    <3>4. v \in Place
      BY <2>7, <2>15 DEF Place
    <3>5. RowLengths[v] = RowsOf(v[2])
      BY <3>4 DEF RowLengths
    <3>6. RowsOf(v[2]) \in {SF, SF - 2}
      BY <2>11 DEF RowsOf
    <3>7. PICK l : l = RowLengths[v] /\ 1 < l
      BY <2>6, <3>5, <3>6
    <3>8. Follows(v, l) = <<v[1], v[2], 1>>
      BY <2>15, <3>7 DEF Follows
    <3>9. RowDue[q + n] = <<v[1], v[2], 1>>
      BY <2>6, <3>1, <3>2, <3>3, <3>7, <3>8
    <3> QED  BY <2>9, <3>9
  <2>17. NBlocks(f) = 0
    <3>1. v = <<written[1] + 1, 0, 0>>
      BY <2>9, <2>15, <2>16
    <3>2. v # <<f, 1, 0>>
      BY <3>1
    <3>3. ~(0 < NBlocks(f))
      BY <2>13, <2>14, <3>2 DEF NextBlock
    <3> QED  BY <2>7, <3>3
  <2> QED  BY <2>3, <2>4, <2>12, <2>13, <2>16, <2>17
<1> QED  BY <1>1, StreamAlways, PTL
=============================================================================
