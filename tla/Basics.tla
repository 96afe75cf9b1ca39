-------------------------------- MODULE Basics --------------------------------
(* Facts about division, sequences and recursive functions that the proofs *)
(* rest on.                                                                *)
EXTENDS Naturals, Sequences, WellFoundedInduction, TLAPS

(* Multiplying and dividing by the same positive number.                   *)
LEMMA DivCancels ==
  ASSUME NEW q \in Nat, NEW c \in Nat, c > 0
  PROVE  (q * c) % c = 0 /\ (q * c) \div c = q
BY SMTT(30)

(* Division with remainder.                                                *)
LEMMA DivMod ==
  ASSUME NEW n \in Nat, NEW S \in Nat, S > 0
  PROVE  /\ n \div S \in Nat
         /\ n % S \in 0..(S - 1)
         /\ n = (n \div S) * S + (n % S)
BY SMTT(30)

(* Adding a multiple of S does not change a remainder of S.                *)
LEMMA RemainderOf ==
  ASSUME NEW q \in Nat, NEW S \in Nat, S > 0, NEW r \in 0..(S - 1)
  PROVE  (q * S + r) % S = r
BY SMTT(30)

(* What is missing from n to whole blocks of S is shorter than a block ... *)
LEMMA MissingRange ==
  ASSUME NEW n \in Nat, NEW S \in Nat, S > 0
  PROVE  (S - (n % S)) % S \in 0..(S - 1)
<1>1. n % S \in 0..(S - 1)
  BY DivMod
<1>2. S - (n % S) \in Nat
  BY <1>1
<1> QED  BY <1>2, DivMod

(* ... and completes the last one.                                         *)
LEMMA MissingCompletes ==
  ASSUME NEW n \in Nat, NEW S \in Nat, S > 0
  PROVE  \E q \in Nat : n + ((S - (n % S)) % S) = q * S
<1> DEFINE e == (S - (n % S)) % S
<1>1. CASE n % S = 0
  <2>1. e = 0
    BY <1>1, SMTT(30)
  <2>2. n + e = (n \div S) * S
    BY <1>1, <2>1, DivMod
  <2> HIDE DEF e
  <2> QED  BY <2>2, DivMod DEF e
<1>2. CASE n % S # 0
  <2>1. e = S - (n % S)
    BY <1>2, DivMod, SMTT(30)
  <2>2. n + e = (n \div S) * S + S
    BY <2>1, DivMod
  <2>3. (n \div S) * S + S = (n \div S + 1) * S
    BY DivMod
  <2>4. n \div S + 1 \in Nat
    BY DivMod
  <2> HIDE DEF e
  <2> QED  BY <2>2, <2>3, <2>4 DEF e
<1> QED  BY <1>1, <1>2
(* The quotient of a remainder of S on top of a multiple of S.             *)
LEMMA QuotientOf ==
  ASSUME NEW q \in Nat, NEW S \in Nat, S > 0, NEW r \in 0..(S - 1)
  PROVE  (q * S + r) \div S = q
BY SMTT(30)

(* Multiples of c are ordered like their factors.                          *)
LEMMA TimesMonotone ==
  ASSUME NEW a \in Nat, NEW b \in Nat, NEW c \in Nat, a <= b
  PROVE  a * c <= b * c
BY SMTT(30)

LEMMA TimesCancel ==
  ASSUME NEW a \in Nat, NEW b \in Nat, NEW c \in Nat, c > 0, a * c = b * c
  PROVE  a = b
BY DivCancels

LEMMA TimesNext ==
  ASSUME NEW a \in Nat, NEW c \in Nat
  PROVE  a * c \in Nat /\ (a + 1) * c = a * c + c
OBVIOUS
-----------------------------------------------------------------------------
(* A function on 1..n is a sequence of length n.                           *)
LEMMA FunctionIsSeq ==
  ASSUME NEW S, NEW n \in Nat, NEW f \in [1..n -> S]
  PROVE  f \in Seq(S) /\ Len(f) = n
OBVIOUS

(* Where the items of a concatenation come from.                           *)
LEMMA ConcatAt ==
  ASSUME NEW S, NEW s \in Seq(S), NEW t \in Seq(S)
  PROVE  /\ s \o t \in Seq(S)
         /\ Len(s \o t) = Len(s) + Len(t)
         /\ \A i \in 1..Len(s) : (s \o t)[i] = s[i]
         /\ \A i \in 1..Len(t) : (s \o t)[Len(s) + i] = t[i]
OBVIOUS

(* What is left when n items are consumed ...                              *)
LEMMA DropFirst ==
  ASSUME NEW S, NEW s \in Seq(S), NEW n \in 0..Len(s)
  PROVE  LET r == SubSeq(s, n + 1, Len(s))
         IN  /\ r \in Seq(S)
             /\ Len(r) = Len(s) - n
             /\ \A i \in 1..Len(r) : r[i] = s[n + i]
OBVIOUS

(* ... and the items that are.                                             *)
LEMMA TakeFirst ==
  ASSUME NEW S, NEW s \in Seq(S), NEW n \in 0..Len(s)
  PROVE  LET r == SubSeq(s, 1, n)
         IN  /\ r \in Seq(S)
             /\ Len(r) = n
             /\ \A i \in 1..n : r[i] = s[i]
OBVIOUS

(* Sequences of the same items are the same.                               *)
LEMMA SameSeq ==
  ASSUME NEW S, NEW s \in Seq(S), NEW t \in Seq(S), Len(s) = Len(t),
         \A i \in 1..Len(s) : s[i] = t[i]
  PROVE  s = t
OBVIOUS

(* Consuming one item.                                                     *)
LEMMA TailOf ==
  ASSUME NEW S, NEW s \in Seq(S), s # <<>>
  PROVE  /\ Tail(s) \in Seq(S)
         /\ Len(Tail(s)) = Len(s) - 1
         /\ \A i \in 1..Len(s)-1 : Tail(s)[i] = s[i+1]
         /\ Len(s) > 0 /\ Head(s) = s[1] /\ s[1] \in S
OBVIOUS

(* Adding one.                                                             *)
LEMMA AppendAt ==
  ASSUME NEW S, NEW s \in Seq(S), NEW e \in S
  PROVE  /\ Append(s, e) \in Seq(S)
         /\ Len(Append(s,e)) = Len(s) + 1
         /\ \A i \in 1..Len(s) : Append(s,e)[i] = s[i]
         /\ Append(s,e)[Len(s)+1] = e
OBVIOUS

LEMMA ItemsOf ==
  ASSUME NEW S, NEW s \in Seq(S)
  PROVE  \A i \in DOMAIN s : s[i] \in S
OBVIOUS

(* Two sequences start alike.                                              *)
LEMMA SameStart ==
  ASSUME NEW S, NEW s \in Seq(S), NEW t \in Seq(S), NEW n \in Nat, n <= Len(s), n <= Len(t)
  PROVE  SubSeq(s, 1, n) = SubSeq(t, 1, n) <=> \A i \in 1..n : s[i] = t[i]
<1> DEFINE a == SubSeq(s, 1, n)
           b == SubSeq(t, 1, n)
<1>1. a \in Seq(S) /\ Len(a) = n /\ \A i \in 1..n : a[i] = s[i]
  BY TakeFirst
<1>2. b \in Seq(S) /\ Len(b) = n /\ \A i \in 1..n : b[i] = t[i]
  BY TakeFirst
<1> HIDE DEF a, b
<1>3. ASSUME \A i \in 1..n : s[i] = t[i] PROVE a = b
  BY <1>1, <1>2, <1>3, SameSeq
<1>4. ASSUME a = b PROVE \A i \in 1..n : s[i] = t[i]
  BY <1>1, <1>2, <1>4
<1> QED  BY <1>3, <1>4 DEF a, b
-----------------------------------------------------------------------------
(* A set of numbers has a smallest one.                                    *)
LEMMA NatMin ==
  ASSUME NEW T, T \subseteq Nat, T # {}
  PROVE  \E x \in T : \A y \in T : x <= y
<1> DEFINE R == {ss \in Nat \X Nat : ss[1] < ss[2]}
<1>1. IsWellFoundedOn(R, Nat)
  BY NatLessThanWellFounded DEF OpToRel
<1>2. \E x \in T : \A y \in T : ~ (<<y, x>> \in R)
  <2> HIDE DEF R
  <2> QED  BY <1>1, WFMin
<1>3. PICK x \in T : \A y \in T : ~ (<<y, x>> \in R)
  BY <1>2
<1>4. ASSUME NEW y \in T PROVE x <= y
  <2>1. ~ (y < x)
    BY <1>3
  <2> QED  BY <2>1
<1> QED  BY <1>4

(* Induction, for a set that holds 0 and with i, below n, also i + 1.      *)
LEMMA InductTo ==
  ASSUME NEW n \in Nat, NEW T, 0 \in T,
         \A i \in 0..n : i \in T /\ i < n => i + 1 \in T
  PROVE  0..n \subseteq T
<1> DEFINE Missing == (0..n) \ T
<1> SUFFICES ASSUME Missing # {} PROVE FALSE
  OBVIOUS
<1>1. PICK x \in Missing : \A y \in Missing : x <= y
  <2>1. Missing \subseteq Nat
    OBVIOUS
  <2> HIDE DEF Missing
  <2> QED  BY <2>1, NatMin
<1>2. x \in 0..n /\ x # 0
  OBVIOUS
<1>3. x - 1 \in 0..n /\ x - 1 < n /\ ~(x <= x - 1) /\ (x - 1) + 1 = x
  BY <1>2
<1>4. x - 1 \in T
  BY <1>1, <1>3
<1> QED  BY <1>3, <1>4

(* A recursive definition on 0..n has a solution.                          *)
SolvesRecursion(g, n, a, step) ==
  g = [i \in 0..n |-> IF i = 0 THEN a ELSE step[i][g[i - 1]]]

LEMMA RecursionExists ==
  ASSUME NEW n \in Nat, NEW S, NEW a \in S, NEW step \in [1..n -> [S -> S]]
  PROVE  \E g \in [0..n -> S] : SolvesRecursion(g, n, a, step)
<1> DEFINE Solves(m, g) == g[0] = a /\ \A i \in 1..m : g[i] = step[i][g[i - 1]]
           T == {m \in 0..n : \E g \in [0..m -> S] : Solves(m, g)}
<1>1. 0 \in T
  <2> DEFINE g == [i \in 0..0 |-> a]
  <2>1. g \in [0..0 -> S] /\ Solves(0, g)
    OBVIOUS
  <2>2. 0 \in 0..n
    OBVIOUS
  <2> HIDE DEF g, Solves
  <2> QED  BY <2>1, <2>2
<1>2. ASSUME NEW m \in 0..n, m \in T, m < n
      PROVE  m + 1 \in T
  <2>1. PICK g \in [0..m -> S] : Solves(m, g)
    BY <1>2
  <2>2. m + 1 \in 1..n /\ step[m + 1] \in [S -> S] /\ g[m] \in S
    BY <1>2
  <2>3. step[m + 1][g[m]] \in S
    BY <2>2
  <2> DEFINE h == [i \in 0..(m + 1) |-> IF i = m + 1 THEN step[m + 1][g[m]] ELSE g[i]]
  <2>4. h \in [0..(m + 1) -> S]
    BY <2>3
  <2>5. h[m + 1] = step[m + 1][g[m]] /\ \A i \in 0..m : h[i] = g[i]
    OBVIOUS
  <2> HIDE DEF h
  <2>6. h[0] = a
    BY <2>1, <2>5
  <2>7. ASSUME NEW i \in 1..(m + 1)
        PROVE  h[i] = step[i][h[i - 1]]
    <3>1. CASE i = m + 1
      <4>1. i - 1 = m
        BY <3>1
      <4> QED  BY <3>1, <4>1, <2>5
    <3>2. CASE i # m + 1
      <4>1. i \in 1..m /\ i \in 0..m /\ i - 1 \in 0..m
        BY <3>2
      <4> QED  BY <4>1, <2>5, <2>1
    <3> QED  BY <3>1, <3>2
  <2>8. Solves(m + 1, h)
    BY <2>6, <2>7
  <2> HIDE DEF Solves
  <2> QED  BY <2>2, <2>4, <2>8
<1>3. n \in T
  <2> HIDE DEF T
  <2>1. 0..n \subseteq T
    BY <1>1, <1>2, InductTo
  <2> QED  BY <2>1
<1>4. PICK g \in [0..n -> S] : Solves(n, g)
  BY <1>3
<1>5. \A i \in 0..n : g[i] = IF i = 0 THEN a ELSE step[i][g[i - 1]]
  BY <1>4
<1> DEFINE h == [i \in 0..n |-> IF i = 0 THEN a ELSE step[i][g[i - 1]]]
<1>6. g = h
  BY <1>5
<1> QED  BY <1>6 DEF SolvesRecursion

(* The powers of two of a 16-bit word: the provers evaluate only literals. *)
LEMMA Powers ==
  /\ 2^0 = 1 /\ 2^1 = 2 /\ 2^2 = 4 /\ 2^3 = 8 /\ 2^4 = 16
  /\ 2^5 = 32 /\ 2^6 = 64 /\ 2^7 = 128 /\ 2^8 = 256 /\ 2^9 = 512
  /\ 2^10 = 1024 /\ 2^11 = 2048 /\ 2^12 = 4096 /\ 2^13 = 8192 /\ 2^14 = 16384
  /\ 2^15 = 32768 /\ 2^16 = 65536
OBVIOUS

IsPower(n, m) ==
  /\ (n = 0 => m = 1) /\ (n = 1 => m = 2) /\ (n = 2 => m = 4)
  /\ (n = 3 => m = 8) /\ (n = 4 => m = 16) /\ (n = 5 => m = 32)
  /\ (n = 6 => m = 64) /\ (n = 7 => m = 128) /\ (n = 8 => m = 256)
  /\ (n = 9 => m = 512) /\ (n = 10 => m = 1024) /\ (n = 11 => m = 2048)
  /\ (n = 12 => m = 4096) /\ (n = 13 => m = 8192) /\ (n = 14 => m = 16384)
  /\ (n = 15 => m = 32768) /\ (n = 16 => m = 65536)

LEMMA PowerTable ==
  ASSUME NEW n \in 0..16
  PROVE  IsPower(n, 2^n)
<1>1. PICK m : m = 2^n
  OBVIOUS
<1>2.
    /\ (n = 0 => m = 2^0) /\ (n = 1 => m = 2^1) /\ (n = 2 => m = 2^2)
    /\ (n = 3 => m = 2^3) /\ (n = 4 => m = 2^4) /\ (n = 5 => m = 2^5)
    /\ (n = 6 => m = 2^6) /\ (n = 7 => m = 2^7) /\ (n = 8 => m = 2^8)
    /\ (n = 9 => m = 2^9) /\ (n = 10 => m = 2^10) /\ (n = 11 => m = 2^11)
    /\ (n = 12 => m = 2^12) /\ (n = 13 => m = 2^13) /\ (n = 14 => m = 2^14)
    /\ (n = 15 => m = 2^15) /\ (n = 16 => m = 2^16)
  BY <1>1, Zenon
<1>3. IsPower(n, m)
  BY <1>2, Powers DEF IsPower
<1> QED  BY <1>1, <1>3

LEMMA PowerNat ==
  ASSUME NEW n \in 0..16
  PROVE  2^n \in Nat \ {0}
<1>1. PICK m : m = 2^n
  OBVIOUS
<1>2. IsPower(n, m)
  BY <1>1, PowerTable
<1>3. m \in Nat \ {0}
  BY <1>2 DEF IsPower
<1> QED  BY <1>1, <1>3

LEMMA PowerNext ==
  ASSUME NEW n \in 0..15
  PROVE  2^(n + 1) = 2 * 2^n
<1>1. PICK m, k : m = 2^n /\ k = 2^(n + 1)
  OBVIOUS
<1>2. n \in 0..16 /\ n + 1 \in 0..16
  OBVIOUS
<1>3. IsPower(n, m) /\ IsPower(n + 1, k)
  BY <1>1, <1>2, PowerTable
<1>4. k = 2 * m
  BY <1>3 DEF IsPower
<1> QED  BY <1>1, <1>4
=============================================================================
