-------------------------- MODULE HashStreamProofs --------------------------
(***************************************************************************)
(* Theorems about HashStream, for every size of block, length field,       *)
(* digest and buffer, every key and source and every way to cut it up.     *)
(***************************************************************************)
EXTENDS HashStream, SequenceTheorems, TLAPS

-----------------------------------------------------------------------------
(* Arithmetic                                                              *)

\* The sizes.
LEMMA Sizes ==
  /\ Block \in Nat \ {0} /\ LenSize \in Nat \ {0} /\ LenSize < Block
  /\ DigestSize \in Nat \ {0} /\ BitMod \in Nat \ {0}
BY HashAssumption

LEMMA DivMod ==
  ASSUME NEW a \in Nat, NEW b \in Nat \ {0}
  PROVE  /\ a \div b \in Nat /\ a % b \in Nat /\ a % b < b
         /\ a = (a \div b) * b + (a % b)
OBVIOUS

LEMMA DivModUnique ==
  ASSUME NEW a \in Nat, NEW b \in Nat \ {0}, NEW q \in Nat, NEW r \in Nat, r < b, a = q * b + r
  PROVE  a \div b = q /\ a % b = r
OBVIOUS

\* Whole multiples in front do not matter.
LEMMA DivModShift ==
  ASSUME NEW a \in Nat, NEW b \in Nat \ {0}, NEW p \in Nat
  PROVE  (p * b + a) \div b = p + a \div b /\ (p * b + a) % b = a % b
<1> DEFINE q == a \div b
           r == a % b
<1>1. q \in Nat /\ r \in Nat /\ r < b /\ a = q * b + r
  BY DivMod
<1> HIDE DEF q, r
<1>2. p + q \in Nat /\ p * b + a \in Nat /\ p * b + a = (p + q) * b + r
  BY <1>1
<1>3. (p * b + a) \div b = p + q /\ (p * b + a) % b = r
  BY <1>1, <1>2, DivModUnique
<1> QED
  BY <1>3 DEF q, r

\* The places of the i-th of q blocks.
LEMMA BlockPlaces ==
  ASSUME NEW q \in Nat, NEW b \in Nat \ {0}, NEW i \in 1..q, NEW k \in 1..b
  PROVE  (i - 1) * b + k \in 1..(q * b)
<1>1. i - 1 \in Nat /\ q - i \in Nat
  OBVIOUS
<1>2. (i - 1) * b \in Nat /\ (q - i) * b \in Nat
  BY <1>1
<1>3. q * b = (i - 1) * b + b + (q - i) * b
  OBVIOUS
<1> QED
  BY <1>2, <1>3

\* A counter that wraps at every addition is the sum, wrapped once.
LEMMA WrapAdd ==
  ASSUME NEW a \in Nat, NEW c \in Nat, NEW b \in Nat \ {0}
  PROVE  ((a % b) + c) % b = (a + c) % b
<1> DEFINE q == a \div b
           r == a % b
<1>1. q \in Nat /\ r \in Nat /\ a = q * b + r
  BY DivMod
<1> HIDE DEF q, r
<1>2. r + c \in Nat /\ a + c = q * b + (r + c)
  BY <1>1
<1>3. (q * b + (r + c)) % b = (r + c) % b
  BY <1>1, <1>2, DivModShift
<1> QED
  BY <1>2, <1>3 DEF r

\* Two numbers less than b apart that leave the same remainder are the same.
LEMMA SameRemainder ==
  ASSUME NEW a \in Nat, NEW c \in Nat, NEW b \in Nat \ {0}, a % b = c % b,
         a <= c, c - a < b
  PROVE  a = c
<1> DEFINE p == a \div b
           q == c \div b
           r == a % b
<1>1. p \in Nat /\ q \in Nat /\ r \in Nat /\ a = p * b + r /\ c = q * b + r
  BY DivMod
<1> HIDE DEF p, q, r
<1>2. p <= q
  <2>1. SUFFICES ASSUME q + 1 <= p PROVE FALSE
    BY <1>1
  <2>2. (p - q - 1) \in Nat
    BY <1>1, <2>1
  <2>3. (p - q - 1) * b \in Nat
    BY <2>2
  <2>4. a - c = (p - q - 1) * b + b
    BY <1>1
  <2> QED
    BY <2>3, <2>4
<1>3. ~(p + 1 <= q)
  <2>1. SUFFICES ASSUME p + 1 <= q PROVE FALSE
    OBVIOUS
  <2>2. (q - p - 1) \in Nat
    BY <1>1, <2>1
  <2>3. (q - p - 1) * b \in Nat
    BY <2>2
  <2>4. c - a = (q - p - 1) * b + b
    BY <1>1
  <2> QED
    BY <2>3, <2>4
<1>4. p = q
  BY <1>1, <1>2, <1>3
<1> QED
  BY <1>1, <1>4

-----------------------------------------------------------------------------
(* Sequences of anything                                                   *)

IsSeq(s) == \E S : s \in Seq(S)

LEMMA SeqLen == ASSUME NEW s, IsSeq(s) PROVE Len(s) \in Nat
BY LenProperties DEF IsSeq

LEMMA SeqSame ==
  ASSUME NEW s, NEW t, IsSeq(s), IsSeq(t), Len(s) = Len(t), \A i \in 1..Len(s) : s[i] = t[i]
  PROVE  s = t
<1>1. PICK S : s \in Seq(S)
  BY DEF IsSeq
<1>2. PICK T : t \in Seq(T)
  BY DEF IsSeq
<1>3. s \in Seq(S \cup T) /\ t \in Seq(S \cup T)
  BY <1>1, <1>2, SeqMonotonic
<1> QED
  BY <1>3, SeqEqual

LEMMA SeqFun ==
  ASSUME NEW n \in Nat, NEW f, f = [i \in 1..n |-> f[i]]
  PROVE  IsSeq(f) /\ Len(f) = n
<1> DEFINE S == {f[i] : i \in 1..n}
<1>1. f \in [1..n -> S]
  OBVIOUS
<1>2. f \in Seq(S)
  BY <1>1, SeqDef
<1>3. Len(f) = n
  BY <1>1, <1>2, LenProperties
<1> QED
  BY <1>2, <1>3 DEF IsSeq

LEMMA SeqConcat ==
  ASSUME NEW s, NEW t, IsSeq(s), IsSeq(t)
  PROVE  /\ IsSeq(s \o t) /\ Len(s \o t) = Len(s) + Len(t)
         /\ \A i \in 1..Len(s) : (s \o t)[i] = s[i]
         /\ \A i \in 1..Len(t) : (s \o t)[Len(s) + i] = t[i]
         /\ \A i \in (Len(s) + 1)..(Len(s) + Len(t)) : (s \o t)[i] = t[i - Len(s)]
<1>1. PICK S : s \in Seq(S)
  BY DEF IsSeq
<1>2. PICK T : t \in Seq(T)
  BY DEF IsSeq
<1>3. s \in Seq(S \cup T) /\ t \in Seq(S \cup T)
  BY <1>1, <1>2, SeqMonotonic
<1>4. /\ s \o t \in Seq(S \cup T) /\ Len(s \o t) = Len(s) + Len(t)
      /\ \A i \in 1..(Len(s) + Len(t)) : (s \o t)[i] = IF i <= Len(s) THEN s[i] ELSE t[i - Len(s)]
  BY <1>3, ConcatProperties
<1>5. Len(s) \in Nat /\ Len(t) \in Nat
  BY SeqLen
<1>6. IsSeq(s \o t)
  BY <1>4 DEF IsSeq
<1>7. \A i \in 1..Len(s) : (s \o t)[i] = s[i]
  BY <1>4, <1>5
<1>8. ASSUME NEW i \in (Len(s) + 1)..(Len(s) + Len(t)) PROVE (s \o t)[i] = t[i - Len(s)]
  BY <1>4, <1>5
<1>9. ASSUME NEW i \in 1..Len(t) PROVE (s \o t)[Len(s) + i] = t[i]
  <2>1. Len(s) + i \in (Len(s) + 1)..(Len(s) + Len(t)) /\ (Len(s) + i) - Len(s) = i
    BY <1>5
  <2> QED
    BY <1>8, <2>1
<1> QED
  BY <1>4, <1>6, <1>7, <1>8, <1>9

LEMMA SeqCut ==
  ASSUME NEW s, IsSeq(s), NEW i \in Nat \ {0}, NEW n \in Nat, i + n - 1 <= Len(s)
  PROVE  /\ IsSeq(Cut(s, i, n)) /\ Len(Cut(s, i, n)) = n
         /\ \A k \in 1..n : Cut(s, i, n)[k] = s[i + k - 1]
<1>1. PICK S : s \in Seq(S)
  BY DEF IsSeq
<1>2. Len(s) \in Nat
  BY SeqLen
<1> DEFINE m == i + n - 1
<1>3. m \in Int /\ i - 1 <= m /\ m <= Len(s) /\ m - i + 1 = n
  BY <1>2
<1>4. \A k \in i..m : s[k] \in S
  BY <1>1, <1>2, <1>3, ElementOfSeq
<1> HIDE DEF m
<1>5. /\ SubSeq(s, i, m) \in Seq(S)
      /\ Len(SubSeq(s, i, m)) = IF i <= m THEN m - i + 1 ELSE 0
      /\ \A k \in 1..(m - i + 1) : SubSeq(s, i, m)[k] = s[i + k - 1]
  BY <1>3, <1>4, SubSeqProperties
<1>6. Len(SubSeq(s, i, m)) = n
  BY <1>3, <1>5
<1> QED
  BY <1>3, <1>5, <1>6 DEF m, Cut, IsSeq

\* What a cut at k separates.
LEMMA CutsJoin ==
  ASSUME NEW s, IsSeq(s), NEW k \in Nat, k <= Len(s)
  PROVE  s = Cut(s, 1, k) \o Cut(s, k + 1, Len(s) - k)
<1> DEFINE a == Cut(s, 1, k)
           n == Len(s) - k
           b == Cut(s, k + 1, n)
<1>1. Len(s) \in Nat /\ n \in Nat
  BY SeqLen
<1>2. 1 + k - 1 <= Len(s) /\ (k + 1) + n - 1 <= Len(s) /\ k + 1 \in Nat \ {0}
  BY <1>1
<1>3. IsSeq(a) /\ Len(a) = k /\ \A i \in 1..k : a[i] = s[1 + i - 1]
  BY <1>2, SeqCut
<1>4. IsSeq(b) /\ Len(b) = n /\ \A i \in 1..n : b[i] = s[(k + 1) + i - 1]
  BY <1>1, <1>2, SeqCut
<1> HIDE DEF a, b
<1>5. /\ IsSeq(a \o b) /\ Len(a \o b) = Len(a) + Len(b)
      /\ \A i \in 1..Len(a) : (a \o b)[i] = a[i]
      /\ \A i \in (Len(a) + 1)..(Len(a) + Len(b)) : (a \o b)[i] = b[i - Len(a)]
  BY <1>3, <1>4, SeqConcat
<1>6. Len(a \o b) = Len(s)
  BY <1>1, <1>3, <1>4, <1>5
<1>7. ASSUME NEW i \in 1..Len(s) PROVE (a \o b)[i] = s[i]
  <2>1. CASE i <= k
    BY <1>1, <1>3, <1>5, <2>1
  <2>2. CASE ~(i <= k)
    <3>1. i - k \in 1..n /\ (k + 1) + (i - k) - 1 = i /\ i \in (k + 1)..(k + n)
      BY <1>1, <2>2
    <3> QED
      BY <1>3, <1>4, <1>5, <3>1
  <2> QED
    BY <2>1, <2>2
<1>8. s = a \o b
  BY <1>5, <1>6, <1>7, SeqSame
<1> QED
  BY <1>8 DEF a, b, n

LEMMA SeqEmpty == ASSUME NEW s, IsSeq(s) PROVE IsSeq(<<>>) /\ Len(<<>>) = 0 /\ (Len(s) = 0 <=> s = <<>>)
<1>1. PICK S : s \in Seq(S)
  BY DEF IsSeq
<1>2. <<>> \in Seq(S) /\ Len(<<>>) = 0 /\ ((s # <<>>) => (Len(s) \in Nat \ {0}))
  BY <1>1, EmptySeq
<1> QED
  BY <1>2 DEF IsSeq

LEMMA SeqOne == ASSUME NEW x PROVE IsSeq(<<x>>) /\ Len(<<x>>) = 1 /\ <<x>>[1] = x
<1>1. <<x>> \in Seq({x}) /\ Len(<<x>>) = 1 /\ <<x>>[1] = x
  OBVIOUS
<1> QED
  BY <1>1 DEF IsSeq

LEMMA SeqAppend == ASSUME NEW s, IsSeq(s), NEW x PROVE Append(s, x) = s \o <<x>>
<1>1. PICK S : s \in Seq(S)
  BY DEF IsSeq
<1>2. s \in Seq(S \cup {x}) /\ <<x>> \in Seq(S \cup {x})
  BY <1>1, SeqMonotonic
<1> QED
  BY <1>2

\* Concatenation is associative, and the empty sequence is neutral.
LEMMA SeqAssoc ==
  ASSUME NEW s, NEW t, NEW u, IsSeq(s), IsSeq(t), IsSeq(u)
  PROVE  (s \o t) \o u = s \o (t \o u)
<1>1. PICK S : s \in Seq(S)
  BY DEF IsSeq
<1>2. PICK T : t \in Seq(T)
  BY DEF IsSeq
<1>3. PICK U : u \in Seq(U)
  BY DEF IsSeq
<1> DEFINE V == S \cup T \cup U
<1>4. s \in Seq(V) /\ t \in Seq(V) /\ u \in Seq(V)
  BY <1>1, <1>2, <1>3, SeqMonotonic
<1> HIDE DEF V
<1> QED
  BY <1>4, ConcatAssociative

LEMMA SeqNeutral == ASSUME NEW s, IsSeq(s) PROVE s \o <<>> = s /\ <<>> \o s = s
BY ConcatEmptySeq DEF IsSeq

-----------------------------------------------------------------------------
(* Messages and their blocks                                               *)

\* The shape of Blocks and Remainder.
LEMMA BlockFacts ==
  ASSUME NEW m, IsSeq(m)
  PROVE  /\ IsSeq(Blocks(m)) /\ Len(Blocks(m)) = Len(m) \div Block
         /\ \A i \in 1..(Len(m) \div Block) :
              /\ IsSeq(Blocks(m)[i]) /\ Len(Blocks(m)[i]) = Block
              /\ \A k \in 1..Block : Blocks(m)[i][k] = m[(i - 1) * Block + k]
<1> DEFINE n == Len(m) \div Block
<1>1. Block \in Nat \ {0} /\ Len(m) \in Nat
  BY Sizes, SeqLen
<1>2. n \in Nat /\ (Len(m) % Block) \in Nat /\ Len(m) = n * Block + (Len(m) % Block)
  BY <1>1, DivMod
<1>3. Blocks(m) = [i \in 1..n |-> Cut(m, (i - 1) * Block + 1, Block)]
  BY DEF Blocks
<1> HIDE DEF n
<1>4. Blocks(m) = [i \in 1..n |-> Blocks(m)[i]]
  BY <1>3
<1>5. IsSeq(Blocks(m)) /\ Len(Blocks(m)) = n
  BY <1>2, <1>4, SeqFun
<1>6. ASSUME NEW i \in 1..n
      PROVE  /\ IsSeq(Blocks(m)[i]) /\ Len(Blocks(m)[i]) = Block
             /\ \A k \in 1..Block : Blocks(m)[i][k] = m[(i - 1) * Block + k]
  <2> DEFINE j == (i - 1) * Block
  <2>1. Block \in 1..Block
    BY <1>1
  <2>2. j \in Int /\ j + 1 \in 1..(n * Block) /\ j + Block \in 1..(n * Block)
    BY <1>1, <1>2, <2>1, BlockPlaces
  <2>3. Blocks(m)[i] = Cut(m, j + 1, Block)
    BY <1>3
  <2> HIDE DEF j
  <2>4. j + 1 \in Nat \ {0} /\ (j + 1) + Block - 1 <= Len(m)
    BY <1>1, <1>2, <2>2
  <2>5. /\ IsSeq(Cut(m, j + 1, Block)) /\ Len(Cut(m, j + 1, Block)) = Block
        /\ \A k \in 1..Block : Cut(m, j + 1, Block)[k] = m[(j + 1) + k - 1]
    BY <1>1, <2>4, SeqCut
  <2>6. \A k \in 1..Block : (j + 1) + k - 1 = j + k
    BY <1>1, <2>2
  <2> QED
    BY <2>3, <2>5, <2>6 DEF j
<1> QED
  BY <1>5, <1>6 DEF n

LEMMA RemainderFacts ==
  ASSUME NEW m, IsSeq(m)
  PROVE  /\ IsSeq(Remainder(m)) /\ Len(Remainder(m)) = Len(m) % Block
         /\ Len(Remainder(m)) \in Nat /\ Len(Remainder(m)) < Block
         /\ \A k \in 1..(Len(m) % Block) : Remainder(m)[k] = m[(Len(m) \div Block) * Block + k]
<1> DEFINE n == Len(m) \div Block
           r == Len(m) % Block
           j == n * Block
<1>1. Block \in Nat \ {0} /\ Len(m) \in Nat
  BY Sizes, SeqLen
<1>2. n \in Nat /\ r \in Nat /\ r < Block /\ Len(m) = n * Block + r
  BY <1>1, DivMod
<1>3. Remainder(m) = Cut(m, j + 1, r)
  BY DEF Remainder
<1> HIDE DEF n, r
<1>4. j \in Nat /\ Len(m) = j + r
  BY <1>1, <1>2
<1> HIDE DEF j
<1>5. j + 1 \in Nat \ {0} /\ (j + 1) + r - 1 <= Len(m)
  BY <1>2, <1>4
<1>6. /\ IsSeq(Cut(m, j + 1, r)) /\ Len(Cut(m, j + 1, r)) = r
      /\ \A k \in 1..r : Cut(m, j + 1, r)[k] = m[(j + 1) + k - 1]
  BY <1>2, <1>5, SeqCut
<1>7. \A k \in 1..r : (j + 1) + k - 1 = j + k
  BY <1>2, <1>4
<1> QED
  BY <1>2, <1>3, <1>6, <1>7 DEF n, r, j

\* A sequence with the blocks of a message in it is Blocks of it.
LEMMA BlocksAre ==
  ASSUME NEW m, IsSeq(m), NEW b, IsSeq(b), Len(b) = Len(m) \div Block,
         \A i \in 1..Len(b) : /\ IsSeq(b[i]) /\ Len(b[i]) = Block
                              /\ \A k \in 1..Block : b[i][k] = m[(i - 1) * Block + k]
  PROVE  b = Blocks(m)
<1> DEFINE c == Blocks(m)
<1>1. /\ IsSeq(c) /\ Len(c) = Len(b)
      /\ \A i \in 1..Len(b) : /\ IsSeq(c[i]) /\ Len(c[i]) = Block
                              /\ \A k \in 1..Block : c[i][k] = m[(i - 1) * Block + k]
  BY BlockFacts
<1> HIDE DEF c
<1>2. ASSUME NEW i \in 1..Len(b) PROVE b[i] = c[i]
  <2> DEFINE x == b[i]
             y == c[i]
  <2>1. IsSeq(x) /\ IsSeq(y) /\ Len(x) = Len(y) /\ Len(x) = Block
    BY <1>1
  <2>2. \A k \in 1..Block : x[k] = y[k]
    BY <1>1
  <2> HIDE DEF x, y
  <2>3. x = y
    BY <2>1, <2>2, SeqSame
  <2> QED
    BY <2>3 DEF x, y
<1>3. b = c
  BY <1>1, <1>2, SeqSame
<1> QED
  BY <1>3 DEF c

LEMMA RemainderIs ==
  ASSUME NEW m, IsSeq(m), NEW r, IsSeq(r), Len(r) = Len(m) % Block,
         \A k \in 1..Len(r) : r[k] = m[(Len(m) \div Block) * Block + k]
  PROVE  r = Remainder(m)
BY RemainderFacts, SeqSame

\* Data that does not fill the last block stays behind it.
LEMMA BlocksPartial ==
  ASSUME NEW m, NEW d, IsSeq(m), IsSeq(d), (Len(m) % Block) + Len(d) < Block
  PROVE  Blocks(m \o d) = Blocks(m) /\ Remainder(m \o d) = Remainder(m) \o d
<1> DEFINE n == Len(m) \div Block
           r == Len(m) % Block
           j == n * Block
           M == m \o d
<1>1. Block \in Nat \ {0} /\ Len(m) \in Nat /\ Len(d) \in Nat
  BY Sizes, SeqLen
<1>2. n \in Nat /\ r \in Nat /\ r < Block /\ Len(m) = n * Block + r
  BY <1>1, DivMod
<1>3. /\ IsSeq(M) /\ Len(M) = Len(m) + Len(d)
      /\ \A i \in 1..Len(m) : M[i] = m[i]
      /\ \A i \in 1..Len(d) : M[Len(m) + i] = d[i]
  BY SeqConcat
<1> HIDE DEF n, r, M
<1>4. Len(M) \div Block = n /\ Len(M) % Block = r + Len(d)
  <2>1. Len(M) = n * Block + (r + Len(d)) /\ r + Len(d) \in Nat /\ Len(M) \in Nat
    BY <1>1, <1>2, <1>3
  <2>2. r + Len(d) < Block
    BY DEF r
  <2> QED
    BY <1>1, <1>2, <2>1, <2>2, DivModUnique
<1>5. j \in Nat /\ Len(m) = j + r
  BY <1>1, <1>2
<1>6. Blocks(m) = Blocks(M)
  <2> DEFINE b == Blocks(m)
  <2>1. /\ IsSeq(b) /\ Len(b) = n
        /\ \A i \in 1..n : /\ IsSeq(b[i]) /\ Len(b[i]) = Block
                           /\ \A k \in 1..Block : b[i][k] = m[(i - 1) * Block + k]
    BY BlockFacts DEF n
  <2>2. ASSUME NEW i \in 1..n, NEW k \in 1..Block PROVE b[i][k] = M[(i - 1) * Block + k]
    <3>1. (i - 1) * Block + k \in 1..(n * Block)
      BY <1>1, <1>2, BlockPlaces
    <3>2. (i - 1) * Block + k \in 1..Len(m)
      BY <1>1, <1>2, <1>5, <3>1
    <3> QED
      BY <1>3, <2>1, <3>2
  <2> HIDE DEF b
  <2>3. b = Blocks(M)
    BY <1>3, <1>4, <2>1, <2>2, BlocksAre
  <2> QED
    BY <2>3 DEF b
<1>7. Remainder(m) \o d = Remainder(M)
  <2> DEFINE s == Remainder(m)
             t == s \o d
  <2>1. IsSeq(s) /\ Len(s) = r /\ \A k \in 1..r : s[k] = m[j + k]
    BY RemainderFacts DEF n, r
  <2> HIDE DEF s
  <2>2. /\ IsSeq(t) /\ Len(t) = r + Len(d)
        /\ \A k \in 1..r : t[k] = s[k]
        /\ \A k \in (r + 1)..(r + Len(d)) : t[k] = d[k - r]
    BY <2>1, SeqConcat
  <2> HIDE DEF t, j
  <2>3. ASSUME NEW k \in 1..Len(t) PROVE t[k] = M[j + k]
    <3>1. CASE k <= r
      <4>1. k \in 1..r /\ j + k \in 1..Len(m)
        BY <1>1, <1>2, <1>5, <3>1
      <4> QED
        BY <1>3, <2>1, <2>2, <4>1
    <3>2. CASE ~(k <= r)
      <4>1. k \in (r + 1)..(r + Len(d)) /\ k - r \in 1..Len(d) /\ j + k = Len(m) + (k - r)
        BY <1>1, <1>2, <1>5, <2>2, <3>2
      <4> QED
        BY <1>3, <2>2, <4>1
    <3> QED
      BY <3>1, <3>2
  <2>4. t = Remainder(M)
    <3>1. \A k \in 1..Len(t) : t[k] = M[(Len(M) \div Block) * Block + k]
      BY <1>4, <2>3 DEF j
    <3> QED
      BY <1>3, <1>4, <2>2, <3>1, RemainderIs
  <2> QED
    BY <2>4 DEF t, s
<1> QED
  BY <1>6, <1>7 DEF M

\* Data behind whole blocks is cut as if it stood alone.
LEMMA BlocksAligned ==
  ASSUME NEW m, NEW d, IsSeq(m), IsSeq(d), Len(m) % Block = 0
  PROVE  Blocks(m \o d) = Blocks(m) \o Blocks(d) /\ Remainder(m \o d) = Remainder(d)
<1> DEFINE n == Len(m) \div Block
           q == Len(d) \div Block
           r == Len(d) % Block
           M == m \o d
<1>1. Block \in Nat \ {0} /\ Len(m) \in Nat /\ Len(d) \in Nat
  BY Sizes, SeqLen
<1>2. n \in Nat /\ Len(m) = n * Block
  BY <1>1, DivMod
<1>3. q \in Nat /\ r \in Nat /\ r < Block /\ Len(d) = q * Block + r
  BY <1>1, DivMod
<1>4. /\ IsSeq(M) /\ Len(M) = Len(m) + Len(d)
      /\ \A i \in 1..Len(m) : M[i] = m[i]
      /\ \A i \in 1..Len(d) : M[Len(m) + i] = d[i]
  BY SeqConcat
<1> HIDE DEF n, M
<1>5. Len(M) \div Block = n + q /\ Len(M) % Block = r
  <2>1. (n * Block + Len(d)) \div Block = n + q /\ (n * Block + Len(d)) % Block = r
    BY <1>1, <1>2, DivModShift
  <2> QED
    BY <1>2, <1>4, <2>1
<1> HIDE DEF q, r
<1>6. Blocks(m) \o Blocks(d) = Blocks(M)
  <2> DEFINE b == Blocks(m)
             c == Blocks(d)
             e == b \o c
  <2>1. /\ IsSeq(b) /\ Len(b) = n
        /\ \A i \in 1..n : /\ IsSeq(b[i]) /\ Len(b[i]) = Block
                           /\ \A k \in 1..Block : b[i][k] = m[(i - 1) * Block + k]
    BY BlockFacts DEF n
  <2>2. /\ IsSeq(c) /\ Len(c) = q
        /\ \A i \in 1..q : /\ IsSeq(c[i]) /\ Len(c[i]) = Block
                           /\ \A k \in 1..Block : c[i][k] = d[(i - 1) * Block + k]
    BY BlockFacts DEF q
  <2> HIDE DEF b, c
  <2>3. /\ IsSeq(e) /\ Len(e) = n + q
        /\ \A i \in 1..n : e[i] = b[i]
        /\ \A i \in (n + 1)..(n + q) : e[i] = c[i - n]
    <3>1. /\ IsSeq(e) /\ Len(e) = Len(b) + Len(c)
          /\ \A i \in 1..Len(b) : e[i] = b[i]
          /\ \A i \in (Len(b) + 1)..(Len(b) + Len(c)) : e[i] = c[i - Len(b)]
      BY <2>1, <2>2, SeqConcat
    <3> QED
      BY <2>1, <2>2, <3>1
  <2> HIDE DEF e
  <2>4. ASSUME NEW i \in 1..(n + q)
        PROVE  /\ IsSeq(e[i]) /\ Len(e[i]) = Block
               /\ \A k \in 1..Block : e[i][k] = M[(i - 1) * Block + k]
    <3>1. CASE i <= n
      <4>1. i \in 1..n /\ e[i] = b[i]
        BY <1>2, <2>3, <3>1
      <4>2. ASSUME NEW k \in 1..Block PROVE (i - 1) * Block + k \in 1..Len(m)
        BY <1>1, <1>2, <4>1, BlockPlaces
      <4> QED
        BY <1>4, <2>1, <4>1, <4>2
    <3>2. CASE ~(i <= n)
      <4>1. i \in (n + 1)..(n + q) /\ i - n \in 1..q /\ e[i] = c[i - n]
        BY <1>2, <1>3, <2>3, <3>2
      <4>2. ASSUME NEW k \in 1..Block
            PROVE  /\ ((i - n) - 1) * Block + k \in 1..Len(d)
                   /\ (i - 1) * Block + k = Len(m) + (((i - n) - 1) * Block + k)
        <5> DEFINE h == i - n
        <5>1. h \in 1..q /\ i = n + h
          BY <1>2, <1>3, <4>1
        <5> HIDE DEF h
        <5>2. (h - 1) * Block + k \in 1..(q * Block) /\ (h - 1) * Block \in Int
          BY <1>1, <1>3, <5>1, BlockPlaces
        <5>3. (h - 1) * Block + k \in 1..Len(d)
          BY <1>1, <1>3, <5>2
        <5>4. ((n + h) - 1) * Block = n * Block + (h - 1) * Block
          BY <1>1, <1>2, <1>3, <5>1
        <5>5. (i - 1) * Block + k = Len(m) + ((h - 1) * Block + k)
          BY <1>1, <1>2, <5>1, <5>2, <5>4
        <5> QED
          BY <5>3, <5>5 DEF h
      <4> DEFINE x == c[i - n]
      <4>3. /\ IsSeq(x) /\ Len(x) = Block
            /\ \A k \in 1..Block : x[k] = d[((i - n) - 1) * Block + k]
        BY <2>2, <4>1
      <4>4. \A k \in 1..Block : d[((i - n) - 1) * Block + k] = M[(i - 1) * Block + k]
        BY <1>4, <4>2
      <4> QED
        BY <4>1, <4>3, <4>4
    <3> QED
      BY <3>1, <3>2
  <2>5. e = Blocks(M)
    <3>1. /\ Len(e) = Len(M) \div Block
          /\ \A i \in 1..Len(e) : /\ IsSeq(e[i]) /\ Len(e[i]) = Block
                                  /\ \A k \in 1..Block : e[i][k] = M[(i - 1) * Block + k]
      BY <1>5, <2>3, <2>4
    <3> QED
      BY <1>4, <2>3, <3>1, BlocksAre
  <2> QED
    BY <2>5 DEF e, b, c
<1>7. Remainder(d) = Remainder(M)
  <2> DEFINE s == Remainder(d)
  <2>1. IsSeq(s) /\ Len(s) = r /\ \A k \in 1..r : s[k] = d[q * Block + k]
    BY RemainderFacts DEF q, r
  <2> HIDE DEF s
  <2>2. ASSUME NEW k \in 1..r PROVE s[k] = M[(n + q) * Block + k]
    <3>1. q * Block + k \in 1..Len(d)
      BY <1>1, <1>3
    <3>2. (n + q) * Block + k = Len(m) + (q * Block + k)
      BY <1>1, <1>2, <1>3
    <3> QED
      BY <1>4, <2>1, <3>1, <3>2
  <2>3. s = Remainder(M)
    BY <1>4, <1>5, <2>1, <2>2, RemainderIs
  <2> QED
    BY <2>3 DEF s
<1> QED
  BY <1>6, <1>7 DEF M

\* Data that just fills the last block completes it.
LEMMA BlocksFilled ==
  ASSUME NEW m, NEW d, IsSeq(m), IsSeq(d), (Len(m) % Block) + Len(d) = Block
  PROVE  /\ Blocks(m \o d) = Blocks(m) \o <<Remainder(m) \o d>>
         /\ Len(m \o d) % Block = 0 /\ Remainder(m \o d) = <<>>
<1> DEFINE n == Len(m) \div Block
           r == Len(m) % Block
           M == m \o d
           s == Remainder(m)
           f == s \o d
           b == Blocks(m)
           e == b \o <<f>>
<1>1. Block \in Nat \ {0} /\ Len(m) \in Nat /\ Len(d) \in Nat
  BY Sizes, SeqLen
<1>2. n \in Nat /\ r \in Nat /\ r < Block /\ Len(m) = n * Block + r /\ r + Len(d) = Block
  BY <1>1, DivMod
<1>3. /\ IsSeq(M) /\ Len(M) = Len(m) + Len(d)
      /\ \A i \in 1..Len(m) : M[i] = m[i]
      /\ \A i \in 1..Len(d) : M[Len(m) + i] = d[i]
  BY SeqConcat
<1>4. IsSeq(s) /\ Len(s) = r /\ \A k \in 1..r : s[k] = m[n * Block + k]
  BY RemainderFacts
<1>5. /\ IsSeq(b) /\ Len(b) = n
      /\ \A i \in 1..n : /\ IsSeq(b[i]) /\ Len(b[i]) = Block
                         /\ \A k \in 1..Block : b[i][k] = m[(i - 1) * Block + k]
  BY BlockFacts
<1> HIDE DEF n, r, M, s, b
<1>6. Len(M) = (n + 1) * Block + 0 /\ n + 1 \in Nat /\ Len(M) \in Nat
  BY <1>1, <1>2, <1>3
<1>7. Len(M) \div Block = n + 1 /\ Len(M) % Block = 0
  BY <1>1, <1>6, DivModUnique
<1>8. /\ IsSeq(f) /\ Len(f) = Block
      /\ \A k \in 1..r : f[k] = s[k]
      /\ \A k \in (r + 1)..(r + Len(d)) : f[k] = d[k - r]
  <2>1. /\ IsSeq(f) /\ Len(f) = Len(s) + Len(d)
        /\ \A k \in 1..Len(s) : f[k] = s[k]
        /\ \A k \in (Len(s) + 1)..(Len(s) + Len(d)) : f[k] = d[k - Len(s)]
    BY <1>4, SeqConcat
  <2> QED
    BY <1>2, <1>4, <2>1
<1> HIDE DEF f
<1>9. /\ IsSeq(e) /\ Len(e) = n + 1
      /\ \A i \in 1..n : e[i] = b[i]
      /\ e[n + 1] = f
  <2> DEFINE o == <<f>>
  <2>1. IsSeq(o) /\ Len(o) = 1 /\ o[1] = f
    BY SeqOne
  <2> HIDE DEF o
  <2>2. /\ IsSeq(b \o o) /\ Len(b \o o) = Len(b) + Len(o)
        /\ \A i \in 1..Len(b) : (b \o o)[i] = b[i]
        /\ \A i \in 1..Len(o) : (b \o o)[Len(b) + i] = o[i]
    <3>1. IsSeq(b) /\ IsSeq(o)
      BY <1>5, <2>1
    <3> QED
      BY <3>1, SeqConcat
  <2>3. 1 \in 1..Len(o)
    BY <2>1
  <2>4. (b \o o)[n + 1] = f
    BY <1>5, <2>1, <2>2, <2>3
  <2> QED
    BY <1>5, <2>1, <2>2, <2>4 DEF o
<1> HIDE DEF e
<1>10. ASSUME NEW k \in 1..Block PROVE f[k] = M[n * Block + k]
  <2>1. CASE k <= r
    <3>1. k \in 1..r /\ n * Block + k \in 1..Len(m)
      BY <1>1, <1>2, <2>1
    <3> QED
      BY <1>3, <1>4, <1>8, <3>1
  <2>2. CASE ~(k <= r)
    <3>1. k \in (r + 1)..(r + Len(d)) /\ k - r \in 1..Len(d) /\ n * Block + k = Len(m) + (k - r)
      BY <1>1, <1>2, <2>2
    <3> QED
      BY <1>3, <1>8, <3>1
  <2> QED
    BY <2>1, <2>2
<1>11. ASSUME NEW i \in 1..(n + 1)
       PROVE  /\ IsSeq(e[i]) /\ Len(e[i]) = Block
              /\ \A k \in 1..Block : e[i][k] = M[(i - 1) * Block + k]
  <2>1. CASE i <= n
    <3>1. i \in 1..n
      BY <1>2, <2>1
    <3>3. e[i] = b[i]
      BY <1>9, <3>1
    <3>2. ASSUME NEW k \in 1..Block PROVE (i - 1) * Block + k \in 1..Len(m)
      <4>1. (i - 1) * Block + k \in 1..(n * Block)
        BY <1>1, <1>2, <3>1, BlockPlaces
      <4> QED
        BY <1>1, <1>2, <4>1
    <3> QED
      BY <1>3, <1>5, <3>1, <3>2, <3>3
  <2>2. CASE ~(i <= n)
    <3>1. i = n + 1 /\ i - 1 = n
      BY <1>2, <2>2
    <3> QED
      BY <1>8, <1>9, <1>10, <3>1
  <2> QED
    BY <2>1, <2>2
<1>12. e = Blocks(M)
  <2>1. /\ Len(e) = Len(M) \div Block
        /\ \A i \in 1..Len(e) : /\ IsSeq(e[i]) /\ Len(e[i]) = Block
                                /\ \A k \in 1..Block : e[i][k] = M[(i - 1) * Block + k]
    BY <1>7, <1>9, <1>11
  <2> QED
    BY <1>3, <1>9, <2>1, BlocksAre
<1>13. Remainder(M) = <<>>
  BY <1>3, <1>7, RemainderFacts, SeqEmpty
<1> QED
  BY <1>7, <1>12, <1>13 DEF e, f, b, s, M

-----------------------------------------------------------------------------
(* Update                                                                  *)

\* A hash that has taken the message m and no more.
Taken(h, m) ==
  /\ DOMAIN h = {"state", "buffer", "bitlen", "finalized"}
  /\ h.state = Blocks(m) /\ h.buffer = Remainder(m) /\ h.bitlen = (8 * Len(m)) % BitMod
  /\ h.finalized = FALSE

LEMMA FreshTaken == Taken(Fresh, <<>>)
<1>1. IsSeq(<<>>) /\ Len(<<>>) = 0
  BY SeqOne, SeqEmpty
<1>2. Block \in Nat \ {0} /\ BitMod \in Nat \ {0}
  BY Sizes
<1>3. 0 = 0 * Block + 0 /\ 0 = 0 * BitMod + 0
  BY <1>2
<1>4. 0 \div Block = 0 /\ 0 % Block = 0 /\ 0 % BitMod = 0
  BY <1>2, <1>3, DivModUnique
<1>5. Blocks(<<>>) = <<>>
  BY <1>1, <1>4, BlockFacts, SeqEmpty
<1>6. Remainder(<<>>) = <<>>
  BY <1>1, <1>4, RemainderFacts, SeqEmpty
<1>7. (8 * Len(<<>>)) % BitMod = 0
  BY <1>1, <1>4
<1> QED
  BY <1>5, <1>6, <1>7 DEF Taken, Fresh

LEMMA Replaced ==
  ASSUME NEW h, DOMAIN h = {"state", "buffer", "bitlen", "finalized"}, NEW s, NEW b, NEW l, NEW g,
         g = [h EXCEPT !.bitlen = l, !.state = s, !.buffer = b]
  PROVE  /\ DOMAIN g = {"state", "buffer", "bitlen", "finalized"}
         /\ g.state = s /\ g.buffer = b /\ g.bitlen = l /\ g.finalized = h.finalized
OBVIOUS

\* Update appends to the message, however it falls on the blocks.
LEMMA UpdateTakes ==
  ASSUME NEW h, NEW m, NEW data, IsSeq(m), IsSeq(data), Taken(h, m)
  PROVE  Taken(Update(h, data), m \o data)
<1> DEFINE r     == Len(m) % Block
           room  == IF h.buffer = <<>> THEN 0 ELSE Block - Len(h.buffer)
           k     == IF Len(data) < room THEN Len(data) ELSE room
           first == Cut(data, 1, k)
           full  == h.buffer \o first
           head  == IF Len(full) = Block THEN <<full>> ELSE <<>>
           rest  == Cut(data, k + 1, Len(data) - k)
           st    == h.state \o head \o Blocks(rest)
           bu    == (IF head = <<>> THEN full ELSE <<>>) \o Remainder(rest)
           M     == m \o data
<1>1. Block \in Nat \ {0} /\ Len(m) \in Nat /\ Len(data) \in Nat /\ BitMod \in Nat \ {0}
  BY Sizes, SeqLen
<1>2. h.state = Blocks(m) /\ h.buffer = Remainder(m) /\ h.bitlen = (8 * Len(m)) % BitMod
  BY DEF Taken
<1>3. /\ IsSeq(Remainder(m)) /\ Len(Remainder(m)) = r /\ r \in Nat /\ r < Block
      /\ IsSeq(Blocks(m))
  BY <1>1, RemainderFacts, BlockFacts, DivMod
<1>4. r = 0 <=> h.buffer = <<>>
  BY <1>2, <1>3, SeqEmpty
<1>5. LET g == Update(h, data)
      IN  /\ DOMAIN g = {"state", "buffer", "bitlen", "finalized"}
          /\ g.state = st /\ g.buffer = bu
          /\ g.bitlen = (h.bitlen + 8 * Len(data)) % BitMod /\ g.finalized = FALSE
  <2> DEFINE x == (h.bitlen + 8 * Len(data)) % BitMod
  <2>1. Update(h, data) = [h EXCEPT !.bitlen = x, !.state = st, !.buffer = bu]
    BY DEF Update
  <2>2. DOMAIN h = {"state", "buffer", "bitlen", "finalized"} /\ h.finalized = FALSE
    BY DEF Taken
  <2> HIDE DEF x, st, bu
  <2> QED
    BY <2>1, <2>2, Replaced DEF x
<1>6. (h.bitlen + 8 * Len(data)) % BitMod = (8 * Len(M)) % BitMod
  <2>1. 8 * Len(m) \in Nat /\ 8 * Len(data) \in Nat
    BY <1>1
  <2>2. (((8 * Len(m)) % BitMod) + 8 * Len(data)) % BitMod = (8 * Len(m) + 8 * Len(data)) % BitMod
    BY <1>1, <2>1, WrapAdd
  <2>3. Len(M) = Len(m) + Len(data)
    BY SeqConcat
  <2>4. 8 * Len(m) + 8 * Len(data) = 8 * Len(M)
    BY <1>1, <2>3
  <2> QED
    BY <1>2, <2>2, <2>4
<1>7. room \in Nat /\ room = IF r = 0 THEN 0 ELSE Block - r
  BY <1>1, <1>2, <1>3, <1>4
<1>8. k \in Nat /\ k <= Len(data) /\ k <= room
  BY <1>1, <1>7
<1> HIDE DEF k
<1>9. /\ IsSeq(first) /\ Len(first) = k /\ \A i \in 1..k : first[i] = data[1 + i - 1]
  <2>1. 1 + k - 1 <= Len(data)
    BY <1>1, <1>8
  <2> QED
    BY <1>8, <2>1, SeqCut
<1>10. /\ IsSeq(rest) /\ Len(rest) = Len(data) - k
       /\ \A i \in 1..(Len(data) - k) : rest[i] = data[(k + 1) + i - 1]
  <2>1. k + 1 \in Nat \ {0} /\ Len(data) - k \in Nat /\ (k + 1) + (Len(data) - k) - 1 <= Len(data)
    BY <1>1, <1>8
  <2> QED
    BY <2>1, SeqCut
<1>11. data = first \o rest
  BY <1>1, <1>8, <1>9, <1>10, CutsJoin
<1> HIDE DEF first, rest
<1>12. M = (m \o first) \o rest
  <2>1. (m \o first) \o rest = m \o (first \o rest)
    <3>1. IsSeq(m) /\ IsSeq(first) /\ IsSeq(rest)
      BY <1>9, <1>10
    <3> QED
      BY <3>1, SeqAssoc
  <2> QED
    BY <1>11, <2>1
<1>13. IsSeq(full) /\ Len(full) = r + k
  BY <1>2, <1>3, <1>9, SeqConcat
<1>14. /\ IsSeq(Blocks(rest)) /\ IsSeq(Remainder(rest))
  BY <1>10, BlockFacts, RemainderFacts
<1>15. st = Blocks(M) /\ bu = Remainder(M)
  <2>1. CASE r + k = Block
    <3>1. head = <<full>> /\ head # <<>>
      BY <1>13, <2>1
    <3>2. /\ Blocks(m \o first) = Blocks(m) \o <<full>> /\ Len(m \o first) % Block = 0
      BY <1>2, <1>9, <2>1, BlocksFilled
    <3>3. IsSeq(m \o first)
      BY <1>9, SeqConcat
    <3>4. /\ Blocks(M) = Blocks(m \o first) \o Blocks(rest)
          /\ Remainder(M) = Remainder(rest)
      <4> DEFINE a == m \o first
      <4>1. IsSeq(a) /\ IsSeq(rest) /\ Len(a) % Block = 0
        BY <1>10, <3>2, <3>3
      <4> HIDE DEF a
      <4>2. Blocks(a \o rest) = Blocks(a) \o Blocks(rest) /\ Remainder(a \o rest) = Remainder(rest)
        BY <4>1, BlocksAligned
      <4> QED
        BY <1>12, <4>2 DEF a
    <3>5. bu = Remainder(rest)
      BY <1>14, <3>1, SeqNeutral
    <3> QED
      BY <1>2, <3>1, <3>2, <3>4, <3>5
  <2>2. CASE r + k # Block
    <3>1. head = <<>>
      BY <1>13, <2>2
    <3>2. st = Blocks(m) \o Blocks(rest) /\ bu = full \o Remainder(rest)
      BY <1>2, <1>3, <3>1, SeqNeutral
    <3>3. r + k < Block
      BY <1>1, <1>3, <1>7, <1>8, <2>2
    <3>4. /\ Blocks(m \o first) = Blocks(m) /\ Remainder(m \o first) = full
      BY <1>2, <1>9, <3>3, BlocksPartial
    <3>5. IsSeq(m \o first) /\ Len(m \o first) = Len(m) + k
      BY <1>9, SeqConcat
    <3>6. CASE r = 0
      <4>1. k = 0
        BY <1>7, <1>8, <3>6
      <4>2. Len(m \o first) % Block = 0
        BY <1>1, <3>5, <3>6, <4>1
      <4>3. Blocks(M) = Blocks(m \o first) \o Blocks(rest) /\ Remainder(M) = Remainder(rest)
        <5> DEFINE a == m \o first
        <5>1. IsSeq(a) /\ IsSeq(rest) /\ Len(a) % Block = 0
          BY <1>10, <3>5, <4>2
        <5> HIDE DEF a
        <5>2. Blocks(a \o rest) = Blocks(a) \o Blocks(rest) /\ Remainder(a \o rest) = Remainder(rest)
          BY <5>1, BlocksAligned
        <5> QED
          BY <1>12, <5>2 DEF a
      <4>4. full = <<>>
        BY <1>1, <1>13, <3>6, <4>1, SeqEmpty
      <4>5. bu = Remainder(rest)
        BY <1>14, <3>2, <4>4, SeqNeutral
      <4> QED
        BY <3>2, <3>4, <4>3, <4>5
    <3>7. CASE r # 0
      <4>1. k = Len(data)
        BY <1>1, <1>3, <1>7, <1>8, <2>2, <3>7 DEF k
      <4>2. rest = <<>>
        BY <1>1, <1>10, <4>1, SeqEmpty
      <4>3. M = m \o first
        BY <1>12, <3>5, <4>2, SeqNeutral
      <4>4. Blocks(rest) = <<>> /\ Remainder(rest) = <<>>
        BY <4>2, FreshTaken DEF Taken, Fresh
      <4> QED
        BY <1>3, <1>13, <3>2, <3>4, <4>3, <4>4, SeqNeutral
    <3> QED
      BY <3>6, <3>7
  <2> QED
    BY <2>1, <2>2
<1> QED
  BY <1>5, <1>6, <1>15 DEF Taken

-----------------------------------------------------------------------------
(* Final                                                                   *)

LEMMA ZerosFacts ==
  ASSUME NEW n \in Nat
  PROVE  IsSeq(Zeros(n)) /\ Len(Zeros(n)) = n /\ \A i \in 1..n : Zeros(n)[i] = Zero
<1>1. Zeros(n) = [i \in 1..n |-> Zero]
  BY DEF Zeros
<1>2. Zeros(n) = [i \in 1..n |-> Zeros(n)[i]]
  BY <1>1
<1> QED
  BY <1>1, <1>2, SeqFun

LEMMA LenbufFacts ==
  ASSUME NEW n
  PROVE  IsSeq(Lenbuf(n)) /\ Len(Lenbuf(n)) = LenSize
<1>1. Lenbuf(n) = [i \in 1..LenSize |-> Lenbuf(n)[i]]
  BY DEF Lenbuf
<1> QED
  BY <1>1, Sizes, SeqFun

\* The message with the padding so far.
PaddedTo(m, z) == m \o <<Pad>> \o Zeros(z)

LEMMA PaddedToFacts ==
  ASSUME NEW m, IsSeq(m), NEW z \in Nat
  PROVE  /\ IsSeq(PaddedTo(m, z)) /\ Len(PaddedTo(m, z)) = Len(m) + 1 + z
         /\ PaddedTo(m, z + 1) = PaddedTo(m, z) \o <<Zero>>
         /\ PaddedTo(m, 0) = m \o <<Pad>>
<1> DEFINE p == m \o <<Pad>>
           o == <<Zero>>
<1>1. IsSeq(p) /\ Len(p) = Len(m) + 1
  BY SeqOne, SeqConcat
<1>2. IsSeq(o) /\ Len(o) = 1 /\ o[1] = Zero
  BY SeqOne
<1> HIDE DEF p, o
<1>3. Len(m) \in Nat
  BY SeqLen
<1>4. IsSeq(Zeros(z)) /\ Len(Zeros(z)) = z /\ \A i \in 1..z : Zeros(z)[i] = Zero
  BY ZerosFacts
<1>5. /\ IsSeq(Zeros(z + 1)) /\ Len(Zeros(z + 1)) = z + 1
      /\ \A i \in 1..(z + 1) : Zeros(z + 1)[i] = Zero
  BY ZerosFacts
<1>6. IsSeq(p \o Zeros(z)) /\ Len(p \o Zeros(z)) = Len(p) + Len(Zeros(z))
  BY <1>1, <1>4, SeqConcat
<1>7. Zeros(z) \o o = Zeros(z + 1)
  <2> DEFINE s == Zeros(z)
  <2>1. /\ IsSeq(s \o o) /\ Len(s \o o) = Len(s) + Len(o)
        /\ \A i \in 1..Len(s) : (s \o o)[i] = s[i]
        /\ \A i \in (Len(s) + 1)..(Len(s) + Len(o)) : (s \o o)[i] = o[i - Len(s)]
    <3>1. IsSeq(s) /\ IsSeq(o)
      BY <1>2, <1>4
    <3> QED
      BY <3>1, SeqConcat, Zenon
  <2> HIDE DEF s
  <2>2. IsSeq(s) /\ Len(s) = z /\ \A i \in 1..z : s[i] = Zero
    BY <1>4 DEF s
  <2>3. ASSUME NEW i \in 1..(z + 1) PROVE (s \o o)[i] = Zero
    <3>1. CASE i <= z
      BY <2>1, <2>2, <3>1
    <3>2. CASE ~(i <= z)
      <4>1. i = z + 1 /\ i - z = 1
        BY <3>2
      <4> QED
        BY <1>2, <2>1, <2>2, <4>1
    <3> QED
      BY <3>1, <3>2
  <2>4. s \o o = Zeros(z + 1)
    BY <1>2, <1>5, <2>1, <2>2, <2>3, SeqSame
  <2> QED
    BY <2>4 DEF s
<1>8. p \o Zeros(z + 1) = (p \o Zeros(z)) \o o
  <2>1. (p \o Zeros(z)) \o o = p \o (Zeros(z) \o o)
    <3>1. IsSeq(p) /\ IsSeq(Zeros(z)) /\ IsSeq(o)
      BY <1>1, <1>2, <1>4
    <3> QED
      BY <3>1, SeqAssoc
  <2> QED
    BY <1>7, <2>1
<1>9. p \o Zeros(0) = p
  <2>1. Zeros(0) = <<>>
    BY ZerosFacts, SeqEmpty
  <2> QED
    BY <1>1, <2>1, SeqNeutral
<1> QED
  BY <1>1, <1>3, <1>4, <1>6, <1>8, <1>9 DEF PaddedTo, p, o

\* A hash in Final's loop: the message and some of its padding, none of it
\* where the length could have gone.
Padding(h, m) ==
  \E z \in Nat : /\ Taken(h, PaddedTo(m, z))
                 /\ \A j \in 0..(z - 1) : (Len(m) + 1 + j) % Block # Block - LenSize

LEMMA PaddingBegins ==
  ASSUME NEW h, NEW m, IsSeq(m), Taken(h, m)
  PROVE  Padding(Update(h, <<Pad>>), m)
<1>1. Taken(Update(h, <<Pad>>), m \o <<Pad>>)
  BY SeqOne, UpdateTakes
<1>2. Taken(Update(h, <<Pad>>), PaddedTo(m, 0))
  BY <1>1, PaddedToFacts
<1>3. \A j \in 0..(0 - 1) : (Len(m) + 1 + j) % Block # Block - LenSize
  OBVIOUS
<1>4. 0 \in Nat
  OBVIOUS
<1> QED
  BY <1>2, <1>3, <1>4, Zenon DEF Padding

LEMMA PaddingGoesOn ==
  ASSUME NEW h, NEW m, IsSeq(m), Padding(h, m), Len(h.buffer) # Block - LenSize
  PROVE  Padding(Update(h, <<Zero>>), m)
<1>1. PICK z \in Nat : /\ Taken(h, PaddedTo(m, z))
                       /\ \A j \in 0..(z - 1) : (Len(m) + 1 + j) % Block # Block - LenSize
  BY DEF Padding
<1> DEFINE p == PaddedTo(m, z)
<1>2. IsSeq(p) /\ Len(p) = Len(m) + 1 + z /\ PaddedTo(m, z + 1) = p \o <<Zero>>
  BY PaddedToFacts
<1> HIDE DEF p
<1>3. Taken(Update(h, <<Zero>>), PaddedTo(m, z + 1))
  <2>1. Taken(h, p)
    BY <1>1 DEF p
  <2>2. Taken(Update(h, <<Zero>>), p \o <<Zero>>)
    BY <1>2, <2>1, SeqOne, UpdateTakes
  <2> QED
    BY <1>2, <2>2
<1>4. Len(h.buffer) = Len(p) % Block
  BY <1>1, <1>2, RemainderFacts DEF Taken, p
<1>5. ASSUME NEW j \in 0..((z + 1) - 1) PROVE (Len(m) + 1 + j) % Block # Block - LenSize
  <2>1. j = z \/ j \in 0..(z - 1)
    BY <1>1
  <2> QED
    BY <1>1, <1>2, <1>4, <2>1
<1>6. z + 1 \in Nat
  OBVIOUS
<1> QED
  BY <1>3, <1>5, <1>6, Zenon DEF Padding

\* The number of zeros in the definition of SHA-256 brings the message to the
\* place of the length field.
LEMMA ZerosReach ==
  ASSUME NEW a \in Nat, NEW z, z = (2 * Block - LenSize - 1 - (a % Block)) % Block
  PROVE  z \in 0..(Block - 1) /\ (a + 1 + z) % Block = Block - LenSize
<1> DEFINE n == a \div Block
           r == a % Block
           x == 2 * Block - LenSize - 1 - r
           q == x \div Block
           y == x % Block
<1>0. Block \in Nat \ {0} /\ LenSize \in Nat \ {0} /\ LenSize < Block
  BY Sizes
<1>1. n \in Nat /\ r \in Nat /\ r < Block /\ a = n * Block + r
  BY <1>0, DivMod
<1> HIDE DEF n, r
<1>2. x \in Nat /\ x < 2 * Block
  BY <1>0, <1>1
<1> HIDE DEF x
<1>3. q \in Nat /\ y \in Nat /\ y < Block /\ x = q * Block + y
  BY <1>0, <1>2, DivMod
<1> HIDE DEF q, y
<1>4. q \in {0, 1}
  <2>1. SUFFICES ASSUME q >= 2 PROVE FALSE
    BY <1>3
  <2>2. q - 2 \in Nat /\ (q - 2) * Block \in Nat
    BY <1>0, <1>3, <2>1
  <2>3. q * Block = (q - 2) * Block + 2 * Block
    BY <1>0, <1>3
  <2> QED
    BY <1>0, <1>2, <1>3, <2>2, <2>3
<1> DEFINE p == n + 1 - q
<1>5. p \in Nat
  BY <1>1, <1>4
<1>6. a + 1 + y = p * Block + (Block - LenSize)
  <2>1. p * Block = n * Block + Block - q * Block
    BY <1>0, <1>1, <1>3
  <2>2. y = 2 * Block - LenSize - 1 - r - q * Block
    BY <1>0, <1>1, <1>3 DEF x
  <2>3. n * Block \in Int /\ q * Block \in Int
    BY <1>0, <1>1, <1>3
  <2> HIDE DEF p
  <2> QED
    BY <1>0, <1>1, <2>1, <2>2, <2>3
<1> HIDE DEF p
<1>7. (a + 1 + y) % Block = Block - LenSize
  <2>1. a + 1 + y \in Nat /\ Block - LenSize \in Nat /\ Block - LenSize < Block
    BY <1>0, <1>3
  <2> QED
    BY <1>0, <1>5, <1>6, <2>1, DivModUnique
<1> QED
  BY <1>0, <1>3, <1>7 DEF y, x, r

\* Within a block no other number does.
LEMMA ZerosOnce ==
  ASSUME NEW a \in Nat, NEW y \in 0..(Block - 1), NEW z \in 0..(Block - 1),
         (a + 1 + y) % Block = (a + 1 + z) % Block
  PROVE  y = z
<1>0. Block \in Nat \ {0}
  BY Sizes
<1>1. y \in Nat /\ z \in Nat /\ y < Block /\ z < Block
  BY <1>0
<1> DEFINE u == a + 1 + y
           v == a + 1 + z
<1>2. u \in Nat /\ v \in Nat /\ u - v < Block /\ v - u < Block /\ u % Block = v % Block
  BY <1>0, <1>1
<1>3. u = v
  <2> HIDE DEF u, v
  <2>1. CASE u <= v
    BY <1>0, <1>2, <2>1, SameRemainder
  <2>2. CASE v <= u
    BY <1>0, <1>2, <2>2, SameRemainder
  <2> QED
    BY <1>2, <2>1, <2>2
<1> QED
  BY <1>1, <1>3

\* It is the first to do so.
LEMMA ZerosEnough ==
  ASSUME NEW a \in Nat, NEW z \in Nat, (a + 1 + z) % Block = Block - LenSize,
         \A j \in 0..(z - 1) : (a + 1 + j) % Block # Block - LenSize
  PROVE  z = (2 * Block - LenSize - 1 - (a % Block)) % Block
<1> DEFINE y == (2 * Block - LenSize - 1 - (a % Block)) % Block
<1>1. y \in 0..(Block - 1) /\ (a + 1 + y) % Block = Block - LenSize
  BY ZerosReach
<1> HIDE DEF y
<1>2. y \in Nat /\ ~(y \in 0..(z - 1))
  BY <1>1
<1>3. z \in 0..(Block - 1)
  BY <1>1, <1>2, Sizes
<1>4. z = y
  BY <1>1, <1>3, ZerosOnce
<1> QED
  BY <1>4 DEF y

\* With the length in its place the blocks are those of SHA-256.
LEMMA PaddingEnds ==
  ASSUME NEW h, NEW m, IsSeq(m), Padding(h, m), Len(h.buffer) = Block - LenSize
  PROVE  Append(h.state, h.buffer \o Lenbuf((8 * Len(m)) % BitMod)) = Sha(m)
<1>1. PICK z \in Nat : /\ Taken(h, PaddedTo(m, z))
                       /\ \A j \in 0..(z - 1) : (Len(m) + 1 + j) % Block # Block - LenSize
  BY DEF Padding
<1> DEFINE p == PaddedTo(m, z)
           l == Lenbuf((8 * Len(m)) % BitMod)
<1>2. IsSeq(p) /\ Len(p) = Len(m) + 1 + z
  BY PaddedToFacts
<1>3. h.state = Blocks(p) /\ h.buffer = Remainder(p)
  BY <1>1 DEF Taken
<1>4. IsSeq(l) /\ Len(l) = LenSize
  BY LenbufFacts
<1>5. Len(m) \in Nat /\ Block \in Nat \ {0} /\ LenSize \in Nat \ {0} /\ LenSize < Block
  BY Sizes, SeqLen
<1>6. Len(p) % Block = Block - LenSize
  BY <1>2, <1>3, RemainderFacts
<1>7. z = (2 * Block - LenSize - 1 - (Len(m) % Block)) % Block
  BY <1>1, <1>2, <1>5, <1>6, ZerosEnough
<1>8. Padded(m) = p \o l
  BY <1>7 DEF Padded, PaddedTo
<1> HIDE DEF p, l
<1>9. (Len(p) % Block) + Len(l) = Block
  BY <1>4, <1>5, <1>6
<1>10. Blocks(p \o l) = Blocks(p) \o <<Remainder(p) \o l>>
  BY <1>2, <1>4, <1>9, BlocksFilled
<1>11. IsSeq(Blocks(p))
  BY <1>2, BlockFacts
<1>12. Append(h.state, h.buffer \o l) = Blocks(p) \o <<Remainder(p) \o l>>
  BY <1>3, <1>11, SeqAppend
<1> QED
  BY <1>8, <1>10, <1>12 DEF l, Sha

\* Sha256::Hash, by which HmacSha256::Init shortens a key, is SHA-256.
LEMMA HashIsSha == ASSUME NEW m, IsSeq(m) PROVE Hash(m) = Sha(m)
<1> DEFINE h == Update(Fresh, m)
           zeros == CHOOSE n \in 0..(Block - 1) : Len(Zeroed(h, n).buffer) = Block - LenSize
<1>0. Block \in Nat \ {0} /\ LenSize \in Nat \ {0} /\ Len(m) \in Nat
  BY Sizes, SeqLen
<1>1. Taken(h, m)
  <2>1. IsSeq(<<>>)
    BY SeqOne, SeqEmpty
  <2>2. Taken(h, <<>> \o m)
    BY <2>1, FreshTaken, UpdateTakes
  <2> QED
    BY <2>2, SeqNeutral
<1> HIDE DEF h
<1>2. ASSUME NEW n \in 0..(Block - 1)
      PROVE  /\ Taken(Zeroed(h, n), PaddedTo(m, n))
             /\ Len(Zeroed(h, n).buffer) = (Len(m) + 1 + n) % Block
  <2>1. n \in Nat
    BY <1>0
  <2>2. Taken(Update(h, <<Pad>>), m \o <<Pad>>) /\ IsSeq(m \o <<Pad>>)
    BY <1>1, SeqOne, SeqConcat, UpdateTakes
  <2>3. IsSeq(Zeros(n))
    BY <2>1, ZerosFacts
  <2>4. Taken(Zeroed(h, n), PaddedTo(m, n))
    BY <2>2, <2>3, UpdateTakes DEF PaddedTo, Zeroed
  <2>5. IsSeq(PaddedTo(m, n)) /\ Len(PaddedTo(m, n)) = Len(m) + 1 + n
    BY <2>1, PaddedToFacts
  <2> QED
    BY <2>4, <2>5, RemainderFacts DEF Taken
<1>3. zeros \in 0..(Block - 1) /\ Len(Zeroed(h, zeros).buffer) = Block - LenSize
  <2> DEFINE y == (2 * Block - LenSize - 1 - (Len(m) % Block)) % Block
  <2>1. y \in 0..(Block - 1) /\ (Len(m) + 1 + y) % Block = Block - LenSize
    BY <1>0, ZerosReach
  <2> HIDE DEF y
  <2>2. \E n \in 0..(Block - 1) : Len(Zeroed(h, n).buffer) = Block - LenSize
    BY <1>2, <2>1
  <2> QED
    BY <2>2
<1> HIDE DEF zeros
<1>4. ASSUME NEW j \in 0..(zeros - 1) PROVE (Len(m) + 1 + j) % Block # Block - LenSize
  <2>1. j \in 0..(Block - 1) /\ j # zeros
    BY <1>0, <1>3
  <2>2. (Len(m) + 1 + zeros) % Block = Block - LenSize
    BY <1>2, <1>3
  <2> QED
    BY <1>0, <1>3, <2>1, <2>2, ZerosOnce
<1>5. Padding(Zeroed(h, zeros), m)
  <2>1. zeros \in Nat
    BY <1>0, <1>3
  <2> QED
    BY <1>2, <1>3, <1>4, <2>1 DEF Padding
<1>6. Append(Zeroed(h, zeros).state, Zeroed(h, zeros).buffer \o Lenbuf((8 * Len(m)) % BitMod)) = Sha(m)
  BY <1>3, <1>5, PaddingEnds
<1>7. h.bitlen = (8 * Len(m)) % BitMod
  BY <1>1 DEF Taken
<1>8. Hash(m) = Append(Zeroed(h, zeros).state, Zeroed(h, zeros).buffer \o Lenbuf(h.bitlen))
  BY Zenon DEF Hash, Finished, h, zeros
<1> QED
  BY <1>6, <1>7, <1>8

\* A hash that Final has returned the digest of m from.
Ended(h, m) ==
  /\ DOMAIN h = {"state", "buffer", "bitlen", "finalized"}
  /\ h.state = Sha(m) /\ h.buffer = <<>> /\ h.finalized = TRUE

LEMMA FinalEnds ==
  ASSUME NEW h, DOMAIN h = {"state", "buffer", "bitlen", "finalized"}, NEW m,
         NEW g, g = [h EXCEPT !.state = Sha(m), !.buffer = <<>>, !.finalized = TRUE]
  PROVE  Ended(g, m)
<1>1. /\ DOMAIN g = {"state", "buffer", "bitlen", "finalized"}
      /\ g.state = Sha(m) /\ g.buffer = <<>> /\ g.finalized = TRUE
  OBVIOUS
<1> QED
  BY <1>1 DEF Ended

\* What TypeOK asks of a hash.
Sound(h) ==
  /\ Len(h.buffer) < Block /\ h.finalized \in BOOLEAN
  /\ \A i \in 1..Len(h.state) : Len(h.state[i]) = Block

LEMMA BlocksSound ==
  ASSUME NEW m, IsSeq(m), NEW i \in 1..Len(Blocks(m))
  PROVE  Len(Blocks(m)[i]) = Block
BY BlockFacts

LEMMA TakenSound == ASSUME NEW h, NEW m, IsSeq(m), Taken(h, m) PROVE Sound(h)
<1>1. Len(h.buffer) < Block /\ h.finalized \in BOOLEAN /\ h.state = Blocks(m)
  BY RemainderFacts DEF Taken
<1> QED
  BY <1>1, BlocksSound DEF Sound

LEMMA PaddingSound == ASSUME NEW h, NEW m, IsSeq(m), Padding(h, m) PROVE Sound(h)
BY PaddedToFacts, TakenSound DEF Padding

LEMMA PaddedSeq == ASSUME NEW m, IsSeq(m) PROVE IsSeq(Padded(m))
<1> DEFINE z == (2 * Block - LenSize - 1 - (Len(m) % Block)) % Block
           l == Lenbuf((8 * Len(m)) % BitMod)
<1>1. Block \in Nat \ {0} /\ LenSize \in Nat \ {0} /\ LenSize < Block /\ Len(m) \in Nat
  BY Sizes, SeqLen
<1>2. (Len(m) % Block) \in Nat /\ (Len(m) % Block) < Block
  BY <1>1, DivMod
<1>3. 2 * Block - LenSize - 1 - (Len(m) % Block) \in Nat
  BY <1>1, <1>2
<1>4. z \in Nat
  BY <1>1, <1>3, DivMod
<1>5. IsSeq(l)
  BY LenbufFacts
<1> HIDE DEF z, l
<1>6. IsSeq(PaddedTo(m, z))
  BY <1>4, PaddedToFacts
<1>7. Padded(m) = PaddedTo(m, z) \o l
  BY DEF Padded, PaddedTo, z, l
<1> QED
  BY <1>5, <1>6, <1>7, SeqConcat

LEMMA EndedSound == ASSUME NEW h, NEW m, IsSeq(m), Ended(h, m) PROVE Sound(h)
<1>1. h.state = Blocks(Padded(m)) /\ h.finalized \in BOOLEAN
  BY DEF Ended, Sha
<1>2. Len(h.buffer) < Block
  BY Sizes, SeqEmpty DEF Ended
<1> QED
  BY <1>1, <1>2, PaddedSeq, BlocksSound DEF Sound

-----------------------------------------------------------------------------
(* The messages of the hashes                                              *)

InnerMsg(k, m) == (IF k = NoKey THEN <<>> ELSE Xor("ipad", k)) \o m
OuterMsg(k, m) == Xor("opad", k) \o Digest(Sha(InnerMsg(k, m)))

LEMMA XorSeq == ASSUME NEW p, NEW k PROVE IsSeq(Xor(p, k))
<1>1. Xor(p, k) = [i \in 1..Block |-> Xor(p, k)[i]]
  BY DEF Xor
<1> QED
  BY <1>1, Sizes, SeqFun

LEMMA DigestSeq == ASSUME NEW s PROVE IsSeq(Digest(s))
<1>1. Digest(s) = [i \in 1..DigestSize |-> Digest(s)[i]]
  BY DEF Digest
<1> QED
  BY <1>1, Sizes, SeqFun

\* The key block of HmacSha256::Init is that of HMAC.
LEMMA XorIsMasked ==
  ASSUME NEW p, NEW k \in Keys
  PROVE  Xor(p, k) = Masked(p, k)
<1>0. IsSeq(k)
  BY HashAssumption DEF IsSeq
<1> DEFINE short == IF Len(k) > Block THEN Digest(Sha(k)) ELSE k
           z == Zeros(Block - Len(short))
<1>1. IsSeq(short) /\ Len(short) \in Nat /\ Block \in Nat
  BY <1>0, DigestSeq, SeqLen, Sizes
<1>2. KeyBlock[k] = [i \in 1..Block |-> IF i <= Len(short) THEN short[i] ELSE Zero]
  <2>1. Hash(k) = Sha(k)
    BY <1>0, HashIsSha
  <2> QED
    BY <2>1 DEF KeyBlock
<1>3. HmacKey(k) = short \o z
  BY DEF HmacKey
<1> HIDE DEF short
<1>4. ASSUME NEW i \in 1..Block PROVE HmacKey(k)[i] = KeyBlock[k][i]
  <2>1. CASE i <= Len(short)
    <3>1. IsSeq(z)
      <4>1. CASE Len(short) <= Block
        <5>1. Block - Len(short) \in Nat
          BY <1>1, <4>1
        <5> QED
          BY <5>1, ZerosFacts
      <4>2. CASE ~(Len(short) <= Block)
        <5>1. 1..(Block - Len(short)) = 1..0
          BY <1>1, <4>2
        <5>2. z = Zeros(0)
          BY <5>1 DEF Zeros
        <5> QED
          BY <5>2, ZerosFacts
      <4> QED
        BY <4>1, <4>2
    <3> HIDE DEF z
    <3>2. i \in 1..Len(short)
      BY <1>1, <2>1
    <3>3. (short \o z)[i] = short[i]
      BY <1>1, <3>1, <3>2, SeqConcat
    <3> QED
      BY <1>2, <1>3, <2>1, <3>3
  <2>2. CASE ~(i <= Len(short))
    <3>1. Block - Len(short) \in Nat /\ i - Len(short) \in 1..(Block - Len(short))
      BY <1>1, <2>2
    <3>2. IsSeq(z) /\ Len(z) = Block - Len(short) /\ z[i - Len(short)] = Zero
      BY <3>1, ZerosFacts
    <3> HIDE DEF z
    <3>3. i \in (Len(short) + 1)..(Len(short) + Len(z))
      BY <1>1, <2>2, <3>2
    <3>4. (short \o z)[i] = z[i - Len(short)]
      BY <1>1, <3>2, <3>3, SeqConcat
    <3> QED
      BY <1>2, <1>3, <2>2, <3>2, <3>4
  <2> QED
    BY <2>1, <2>2
<1> QED
  BY <1>4 DEF Xor, Masked

LEMMA NothingSeq == IsSeq(<<>>) /\ Len(<<>>) = 0
BY SeqOne, SeqEmpty

LEMMA MsgSeq ==
  ASSUME NEW k, NEW m, IsSeq(m)
  PROVE  IsSeq(InnerMsg(k, m)) /\ IsSeq(OuterMsg(k, m))
<1>1. IsSeq(InnerMsg(k, m))
  BY XorSeq, NothingSeq, SeqConcat DEF InnerMsg
<1>2. IsSeq(OuterMsg(k, m))
  BY XorSeq, DigestSeq, SeqConcat DEF OuterMsg
<1> QED
  BY <1>1, <1>2

LEMMA InnerGrows ==
  ASSUME NEW k, NEW m, NEW d, IsSeq(m), IsSeq(d)
  PROVE  InnerMsg(k, m) \o d = InnerMsg(k, m \o d)
<1> DEFINE x == IF k = NoKey THEN <<>> ELSE Xor("ipad", k)
<1>1. IsSeq(x)
  BY XorSeq, NothingSeq
<1> HIDE DEF x
<1>2. (x \o m) \o d = x \o (m \o d)
  BY <1>1, SeqAssoc
<1> QED
  BY <1>2 DEF InnerMsg, x

LEMMA MadeTaken == ASSUME NEW k PROVE Taken(Made(k), InnerMsg(k, <<>>))
<1>1. CASE k = NoKey
  <2>1. InnerMsg(k, <<>>) = <<>>
    BY <1>1, NothingSeq, SeqNeutral DEF InnerMsg
  <2> QED
    BY <1>1, <2>1, FreshTaken DEF Made
<1>2. CASE k # NoKey
  <2> DEFINE x == Xor("ipad", k)
  <2>1. IsSeq(x)
    BY XorSeq
  <2> HIDE DEF x
  <2>2. Taken(Update(Fresh, x), <<>> \o x)
    BY <2>1, NothingSeq, FreshTaken, UpdateTakes
  <2>3. <<>> \o x = x \o <<>>
    BY <2>1, SeqNeutral
  <2> QED
    BY <1>2, <2>2, <2>3 DEF Made, InnerMsg, x
<1> QED
  BY <1>1, <1>2

LEMMA OuterTaken ==
  ASSUME NEW k, NEW s
  PROVE  Taken(Update(Update(Fresh, Xor("opad", k)), Digest(s)), Xor("opad", k) \o Digest(s))
<1> DEFINE x == Xor("opad", k)
<1>1. IsSeq(x) /\ IsSeq(Digest(s))
  BY XorSeq, DigestSeq
<1> HIDE DEF x
<1>2. Taken(Update(Fresh, x), <<>> \o x)
  BY <1>1, NothingSeq, FreshTaken, UpdateTakes
<1>3. Taken(Update(Fresh, x), x)
  BY <1>1, <1>2, SeqNeutral
<1>4. Taken(Update(Update(Fresh, x), Digest(s)), x \o Digest(s))
  BY <1>1, <1>3, UpdateTakes
<1> QED
  BY <1>4 DEF x

\* Final returns the reference: of the inner hash when there is no key, of the
\* outer one otherwise.
LEMMA ReferenceIs ==
  ASSUME NEW m, IsSeq(m), key \in Keys \cup {NoKey}
  PROVE  Reference(m) = IF key = NoKey THEN Sha(InnerMsg(key, m)) ELSE Sha(OuterMsg(key, m))
<1>1. CASE key = NoKey
  <2>1. InnerMsg(key, m) = m
    BY <1>1, SeqNeutral DEF InnerMsg
  <2> QED
    BY <1>1, <2>1 DEF Reference
<1>2. CASE key # NoKey
  <2>1. Xor("ipad", key) = Masked("ipad", key) /\ Xor("opad", key) = Masked("opad", key)
    BY <1>2, XorIsMasked
  <2> QED
    BY <1>2, <2>1 DEF Reference, Hmac, OuterMsg, InnerMsg
<1> QED
  BY <1>1, <1>2

-----------------------------------------------------------------------------
(* The hashers                                                             *)

\* Outside Final the inner hash has taken the key and what it was fed, or its
\* digest has been returned.  Inside, it is being padded, or it is done and
\* the outer hash is at work on its digest.
Hashing ==
  /\ DOMAIN sha = {"inner", "outer"} /\ IsSeq(fed) /\ obj \in {"inner", "outer"}
  /\ pc \in {"idle", "read", "write", "final", "zero"} /\ key \in Keys \cup {NoKey}
  /\ Sound(sha["outer"])
  /\ obj = "inner" =>
       IF pc = "zero"
         THEN Padding(sha["inner"], InnerMsg(key, fed)) /\ bits = (8 * Len(InnerMsg(key, fed))) % BitMod
         ELSE Taken(sha["inner"], InnerMsg(key, fed)) \/ Ended(sha["inner"], InnerMsg(key, fed))
  /\ obj = "outer" =>
       /\ key # NoKey /\ pc \in {"final", "zero"} /\ Ended(sha["inner"], InnerMsg(key, fed))
       /\ IF pc = "zero"
            THEN Padding(sha["outer"], OuterMsg(key, fed)) /\ bits = (8 * Len(OuterMsg(key, fed))) % BitMod
            ELSE Taken(sha["outer"], OuterMsg(key, fed))

LEMMA HashingSound == Hashing => Sound(sha["inner"]) /\ Sound(sha["outer"])
<1> SUFFICES ASSUME Hashing PROVE Sound(sha["inner"])
  BY DEF Hashing
<1> DEFINE m == InnerMsg(key, fed)
           h == sha["inner"]
<1>1. IsSeq(m)
  BY MsgSeq DEF Hashing
<1>2. Padding(h, m) \/ Taken(h, m) \/ Ended(h, m)
  BY DEF Hashing
<1> HIDE DEF m, h
<1>3. Sound(h)
  BY <1>1, <1>2, PaddingSound, TakenSound, EndedSound
<1> QED
  BY <1>3 DEF h

LEMMA HashingNew ==
  ASSUME NEW h, h = [inner |-> Made(key), outer |-> Fresh]
  PROVE  /\ DOMAIN h = {"inner", "outer"} /\ Sound(h["outer"])
         /\ Taken(h["inner"], InnerMsg(key, <<>>))
<1>1. DOMAIN h = {"inner", "outer"} /\ h["inner"] = Made(key) /\ h["outer"] = Fresh
  OBVIOUS
<1> QED
  BY <1>1, MadeTaken, FreshTaken, NothingSeq, TakenSound

LEMMA HashingInit == Init => Hashing
<1> SUFFICES ASSUME Init PROVE Hashing
  OBVIOUS
<1>1. /\ DOMAIN sha = {"inner", "outer"} /\ Sound(sha["outer"])
      /\ Taken(sha["inner"], InnerMsg(key, fed)) /\ IsSeq(fed)
  BY HashingNew, NothingSeq DEF Init
<1> QED
  BY <1>1 DEF Init, Hashing

\* The steps that leave the hashes alone.
LEMMA HashingKept ==
  ASSUME Hashing, UNCHANGED <<key, sha, obj, bits, fed>>,
         pc \in {"final", "zero"} => pc' = "idle" /\ obj = "inner" /\ pc # "zero",
         pc' \in {"idle", "read", "write", "final"}
  PROVE  Hashing'
BY DEF Hashing

LEMMA HashingFed ==
  ASSUME Hashing, WriteHash, ~sha["inner"].finalized, IsSeq(piece), pc' \in {"read", "write"}
  PROVE  Hashing'
<1> DEFINE m == InnerMsg(key, fed)
           h == sha["inner"]
<1>1. IsSeq(fed) /\ IsSeq(m) /\ obj = "inner" /\ DOMAIN sha = {"inner", "outer"}
  BY MsgSeq DEF Hashing, WriteHash
<1>2. Taken(h, m)
  BY <1>1 DEF Hashing, WriteHash, Ended
<1>3. sha' = [sha EXCEPT !["inner"] = Update(h, piece)] /\ fed' = fed \o piece /\ UNCHANGED <<key, obj>>
  BY DEF WriteHash
<1>4. sha'["inner"] = Update(h, piece) /\ sha'["outer"] = sha["outer"] /\ DOMAIN sha' = {"inner", "outer"}
  BY <1>1, <1>3
<1>5. Taken(Update(h, piece), m \o piece)
  BY <1>1, <1>2, UpdateTakes
<1>8. m \o piece = InnerMsg(key, fed \o piece)
  BY <1>1, InnerGrows
<1>6. m \o piece = InnerMsg(key', fed')
  BY <1>3, <1>8 DEF InnerMsg
<1>7. IsSeq(fed')
  BY <1>1, <1>3, SeqConcat
<1> QED
  BY <1>1, <1>3, <1>4, <1>5, <1>6, <1>7 DEF Hashing

LEMMA HashingPad == Hashing /\ FinalPad => Hashing'
<1> SUFFICES ASSUME Hashing, FinalPad PROVE Hashing'
  OBVIOUS
<1> DEFINE m == IF obj = "inner" THEN InnerMsg(key, fed) ELSE OuterMsg(key, fed)
           h == sha[obj]
           g == Update(h, <<Pad>>)
<1>1. IsSeq(fed) /\ IsSeq(m) /\ obj \in {"inner", "outer"} /\ DOMAIN sha = {"inner", "outer"}
  BY MsgSeq DEF Hashing
<1>2. /\ pc = "final" /\ pc' = "zero" /\ UNCHANGED <<key, obj, fed>> /\ ~h.finalized
      /\ bits' = h.bitlen /\ sha' = [sha EXCEPT ![obj] = g]
  BY DEF FinalPad
<1>3. Taken(h, m)
  BY <1>1, <1>2 DEF Hashing, Ended
<1>4. Padding(g, m)
  BY <1>1, <1>3, PaddingBegins
<1>5. bits' = (8 * Len(m)) % BitMod
  BY <1>2, <1>3 DEF Taken
<1>6. Sound(g)
  BY <1>1, <1>4, PaddingSound
<1>7. /\ DOMAIN sha' = {"inner", "outer"} /\ sha'[obj] = g
      /\ \A o \in {"inner", "outer"} : o # obj => sha'[o] = sha[o]
  BY <1>1, <1>2
<1> HIDE DEF g, h
<1>8. CASE obj = "inner"
  BY <1>1, <1>2, <1>4, <1>5, <1>6, <1>7, <1>8 DEF Hashing
<1>9. CASE obj = "outer"
  BY <1>1, <1>2, <1>4, <1>5, <1>6, <1>7, <1>9 DEF Hashing
<1> QED
  BY <1>1, <1>8, <1>9

LEMMA HashingZero == Hashing /\ FinalZero => Hashing'
<1> SUFFICES ASSUME Hashing, FinalZero PROVE Hashing'
  OBVIOUS
<1> DEFINE m == IF obj = "inner" THEN InnerMsg(key, fed) ELSE OuterMsg(key, fed)
           h == sha[obj]
           g == Update(h, <<Zero>>)
<1>1. IsSeq(fed) /\ IsSeq(m) /\ obj \in {"inner", "outer"} /\ DOMAIN sha = {"inner", "outer"}
  BY MsgSeq DEF Hashing
<1>2. /\ pc = "zero" /\ UNCHANGED <<key, obj, fed, pc, bits>>
      /\ Len(h.buffer) # Block - LenSize /\ sha' = [sha EXCEPT ![obj] = g]
  BY DEF FinalZero
<1>3. Padding(h, m) /\ bits = (8 * Len(m)) % BitMod
  BY <1>1, <1>2 DEF Hashing
<1>4. Padding(g, m)
  BY <1>1, <1>2, <1>3, PaddingGoesOn
<1>6. Sound(g)
  BY <1>1, <1>4, PaddingSound
<1>7. /\ DOMAIN sha' = {"inner", "outer"} /\ sha'[obj] = g
      /\ \A o \in {"inner", "outer"} : o # obj => sha'[o] = sha[o]
  BY <1>1, <1>2
<1> HIDE DEF g, h
<1>8. CASE obj = "inner"
  BY <1>1, <1>2, <1>3, <1>4, <1>6, <1>7, <1>8 DEF Hashing
<1>9. CASE obj = "outer"
  BY <1>1, <1>2, <1>3, <1>4, <1>6, <1>7, <1>9 DEF Hashing
<1> QED
  BY <1>1, <1>8, <1>9

\* The last step of Final: the digest is the reference.
LEMMA HashingLength ==
  ASSUME Hashing, FinalLength
  PROVE  Hashing' /\ (pc' = "idle" => result'.value = Reference(fed))
<1> DEFINE m     == IF obj = "inner" THEN InnerMsg(key, fed) ELSE OuterMsg(key, fed)
           h     == sha[obj]
           state == Append(h.state, h.buffer \o Lenbuf(bits))
           over  == [h EXCEPT !.state = state, !.buffer = <<>>, !.finalized = TRUE]
<1>1. IsSeq(fed) /\ IsSeq(m) /\ obj \in {"inner", "outer"} /\ DOMAIN sha = {"inner", "outer"}
  BY MsgSeq DEF Hashing
<1>2. pc = "zero" /\ UNCHANGED <<key, fed, bits>> /\ Len(h.buffer) = Block - LenSize
  BY DEF FinalLength
<1>3. Padding(h, m) /\ bits = (8 * Len(m)) % BitMod
  BY <1>1, <1>2 DEF Hashing
<1> HIDE DEF m, h
<1>4. state = Sha(m) /\ Ended(over, m)
  <2>1. Append(h.state, h.buffer \o Lenbuf(bits)) = Sha(m)
    BY <1>1, <1>2, <1>3, PaddingEnds
  <2>2. state = Sha(m)
    BY <2>1
  <2> HIDE DEF state
  <2>3. over = [h EXCEPT !.state = Sha(m), !.buffer = <<>>, !.finalized = TRUE]
    BY <2>2
  <2>4. DOMAIN h = {"state", "buffer", "bitlen", "finalized"}
    BY <1>3 DEF Padding, Taken
  <2> HIDE DEF over
  <2>5. Ended(over, m)
    BY <2>3, <2>4, FinalEnds
  <2> QED
    BY <2>2, <2>5
<1> USE DEF m, h
<1>5. Sound(over)
  BY <1>1, <1>4, EndedSound
<1>6. CASE key # NoKey /\ obj = "inner"
  <2> DEFINE outer == Update(Update(Fresh, Xor("opad", key)), Digest(state))
  <2>1. sha' = [inner |-> over, outer |-> outer] /\ obj' = "outer" /\ pc' = "final"
    BY <1>6 DEF FinalLength
  <2>2. Taken(outer, Xor("opad", key) \o Digest(state))
    BY OuterTaken
  <2> HIDE DEF outer, state, over
  <2>3. DOMAIN sha' = {"inner", "outer"} /\ sha'["inner"] = over /\ sha'["outer"] = outer
    BY <2>1
  <2>4. Taken(outer, OuterMsg(key, fed)) /\ m = InnerMsg(key, fed)
    BY <1>4, <1>6, <2>2 DEF OuterMsg
  <2>5. Sound(outer)
    BY <1>1, <2>4, MsgSeq, TakenSound
  <2> QED
    BY <1>1, <1>2, <1>4, <1>6, <2>1, <2>3, <2>4, <2>5 DEF Hashing
<1>7. CASE ~(key # NoKey /\ obj = "inner")
  <2>1. /\ sha' = [sha EXCEPT ![obj] = over] /\ obj' = "inner" /\ pc' = "idle"
        /\ result'.value = state
    BY <1>7 DEF FinalLength, Returns
  <2> HIDE DEF state, over
  <2>2. /\ DOMAIN sha' = {"inner", "outer"} /\ sha'[obj] = over
        /\ \A o \in {"inner", "outer"} : o # obj => sha'[o] = sha[o]
    BY <1>1, <2>1
  <2>3. Ended(sha'["inner"], InnerMsg(key, fed)) /\ Sound(sha'["outer"])
    BY <1>1, <1>4, <1>5, <1>7, <2>2 DEF Hashing
  <2>4. Hashing'
    BY <1>1, <1>2, <2>1, <2>2, <2>3 DEF Hashing
  <2>5. m = IF key = NoKey THEN InnerMsg(key, fed) ELSE OuterMsg(key, fed)
    BY <1>1, <1>7 DEF Hashing
  <2>6. result'.value = Reference(fed)
    BY <1>1, <1>4, <2>1, <2>5, ReferenceIs DEF Hashing
  <2> QED
    BY <2>4, <2>6
<1> QED
  BY <1>6, <1>7

-----------------------------------------------------------------------------
(* Pieces of a source                                                      *)

LEMMA CutCut ==
  ASSUME NEW s, IsSeq(s), NEW i \in Nat \ {0}, NEW k \in Nat, i + k - 1 <= Len(s),
         NEW j \in Nat \ {0}, NEW n \in Nat, j + n - 1 <= k
  PROVE  Cut(Cut(s, i, k), j, n) = Cut(s, i + j - 1, n)
<1> DEFINE c == Cut(s, i, k)
           d == Cut(s, i + j - 1, n)
<1>1. IsSeq(c) /\ Len(c) = k /\ \A x \in 1..k : c[x] = s[i + x - 1]
  BY SeqCut
<1>2. i + j - 1 \in Nat \ {0} /\ (i + j - 1) + n - 1 <= Len(s)
  BY SeqLen
<1>3. IsSeq(d) /\ Len(d) = n /\ \A x \in 1..n : d[x] = s[(i + j - 1) + x - 1]
  BY <1>2, SeqCut
<1> HIDE DEF c, d
<1>4. IsSeq(Cut(c, j, n)) /\ Len(Cut(c, j, n)) = n /\ \A x \in 1..n : Cut(c, j, n)[x] = c[j + x - 1]
  BY <1>1, SeqCut
<1>5. \A x \in 1..n : Cut(c, j, n)[x] = d[x]
  <2> SUFFICES ASSUME NEW x \in 1..n PROVE Cut(c, j, n)[x] = d[x]
    OBVIOUS
  <2>1. j + x - 1 \in 1..k /\ i + (j + x - 1) - 1 = (i + j - 1) + x - 1
    OBVIOUS
  <2>2. Cut(c, j, n)[x] = c[j + x - 1]
    BY <1>4
  <2>3. c[j + x - 1] = s[i + (j + x - 1) - 1]
    BY <1>1, <2>1
  <2>4. d[x] = s[(i + j - 1) + x - 1]
    BY <1>3
  <2> QED
    BY <2>1, <2>2, <2>3, <2>4
<1>6. Cut(c, j, n) = d
  BY <1>3, <1>4, <1>5, SeqSame
<1> QED
  BY <1>6 DEF c, d

\* A reader that has given t bytes gives n more.
LEMMA Rest ==
  ASSUME NEW s, IsSeq(s), NEW t \in Nat, t <= Len(s), NEW r, r = Cut(s, t + 1, Len(s) - t)
  PROVE  IsSeq(r) /\ Len(r) = Len(s) - t
<1> DEFINE k == Len(s) - t
<1>1. Len(s) \in Nat
  BY SeqLen
<1>2. t + 1 \in Nat \ {0} /\ k \in Nat /\ (t + 1) + k - 1 <= Len(s)
  BY <1>1
<1>3. r = Cut(s, t + 1, k)
  OBVIOUS
<1> HIDE DEF k
<1>4. IsSeq(r) /\ Len(r) = k
  BY <1>2, <1>3, SeqCut
<1> QED
  BY <1>4 DEF k

LEMMA RestGoesOn ==
  ASSUME NEW s, IsSeq(s), NEW t \in Nat, t <= Len(s), NEW r, r = Cut(s, t + 1, Len(s) - t),
         NEW n \in Nat, n <= Len(r)
  PROVE  /\ t + n <= Len(s) /\ Cut(r, 1, n) = Cut(s, t + 1, n)
         /\ Cut(r, n + 1, Len(r) - n) = Cut(s, (t + n) + 1, Len(s) - (t + n))
<1> DEFINE k == Len(s) - t
           l == Len(r) - n
           i == t + 1
           j == n + 1
<1>1. Len(s) \in Nat /\ Len(r) = Len(s) - t
  BY SeqLen, Rest
<1>2. /\ t + n <= Len(s) /\ i \in Nat \ {0} /\ j \in Nat \ {0} /\ k \in Nat /\ l \in Nat
      /\ i + k - 1 <= Len(s) /\ 1 + n - 1 <= k /\ j + l - 1 <= k
      /\ l = Len(s) - (t + n) /\ i + j - 1 = (t + n) + 1 /\ i + 1 - 1 = t + 1
  BY <1>1
<1>3. r = Cut(s, i, k)
  OBVIOUS
<1> HIDE DEF k, l, i, j
<1>4. Cut(r, 1, n) = Cut(s, i + 1 - 1, n)
  BY <1>2, <1>3, CutCut
<1>5. Cut(r, j, l) = Cut(s, i + j - 1, l)
  BY <1>2, <1>3, CutCut
<1>6. Cut(r, j, l) = Cut(s, (t + n) + 1, Len(s) - (t + n))
  BY <1>2, <1>5
<1> QED
  BY <1>2, <1>4, <1>6 DEF j, l

LEMMA CutGrows ==
  ASSUME NEW s, IsSeq(s), NEW a \in Nat, NEW n \in Nat, a + n <= Len(s)
  PROVE  Cut(s, 1, a) \o Cut(s, a + 1, n) = Cut(s, 1, a + n)
<1> DEFINE c == Cut(s, 1, a + n)
<1>1. IsSeq(c) /\ Len(c) = a + n
  BY SeqLen, SeqCut
<1>2. Cut(c, 1, a) = Cut(s, 1, a)
  BY SeqLen, CutCut
<1>3. Cut(c, a + 1, n) = Cut(s, a + 1, n)
  <2>1. Cut(c, a + 1, n) = Cut(s, 1 + (a + 1) - 1, n)
    BY SeqLen, CutCut
  <2> QED
    BY <2>1
<1> HIDE DEF c
<1>4. a <= Len(c) /\ Len(c) - a = n
  BY <1>1
<1>5. c = Cut(c, 1, a) \o Cut(c, a + 1, Len(c) - a)
  BY <1>1, <1>4, CutsJoin
<1> QED
  BY <1>2, <1>3, <1>4, <1>5 DEF c

LEMMA CutWhole == ASSUME NEW s, IsSeq(s) PROVE Cut(s, 1, Len(s)) = s /\ Cut(s, 1, 0) = <<>>
<1>1. Len(s) \in Nat
  BY SeqLen
<1>2. IsSeq(Cut(s, 1, Len(s))) /\ Len(Cut(s, 1, Len(s))) = Len(s) /\ \A k \in 1..Len(s) : Cut(s, 1, Len(s))[k] = s[1 + k - 1]
  BY <1>1, SeqCut
<1>3. \A k \in 1..Len(s) : Cut(s, 1, Len(s))[k] = s[k]
  BY <1>1, <1>2
<1>4. Cut(s, 1, Len(s)) = s
  BY <1>2, <1>3, SeqSame
<1>5. IsSeq(Cut(s, 1, 0)) /\ Len(Cut(s, 1, 0)) = 0
  BY <1>1, SeqCut
<1> QED
  BY <1>4, <1>5, SeqEmpty

\* What was appended to a sequence is what is cut off behind it.
LEMMA CutBehind ==
  ASSUME NEW s, NEW t, IsSeq(s), IsSeq(t)
  PROVE  Cut(s \o t, Len(s) + 1, Len(s \o t) - Len(s)) = t
<1> DEFINE u == s \o t
<1>1. /\ IsSeq(u) /\ Len(u) = Len(s) + Len(t)
      /\ \A i \in 1..Len(t) : u[Len(s) + i] = t[i]
  BY SeqConcat
<1> HIDE DEF u
<1>2. Len(s) \in Nat /\ Len(t) \in Nat
  BY SeqLen
<1>3. Len(u) - Len(s) = Len(t) /\ Len(s) + 1 \in Nat \ {0} /\ (Len(s) + 1) + Len(t) - 1 <= Len(u)
  BY <1>1, <1>2
<1> DEFINE c == Cut(u, Len(s) + 1, Len(t))
<1>4. IsSeq(c) /\ Len(c) = Len(t) /\ \A k \in 1..Len(t) : c[k] = u[(Len(s) + 1) + k - 1]
  BY <1>1, <1>2, <1>3, SeqCut
<1> HIDE DEF c
<1>5. \A k \in 1..Len(t) : c[k] = t[k]
  BY <1>1, <1>2, <1>4
<1>6. c = t
  BY <1>4, <1>5, SeqSame
<1> QED
  BY <1>3, <1>6 DEF u, c

LEMMA SourceSeq == ASSUME NEW n \in Nat PROVE IsSeq(Source(n)) /\ Len(Source(n)) = n
<1>1. Source(n) = [i \in 1..n |-> Source(n)[i]]
  BY DEF Source
<1> QED
  BY <1>1, SeqFun

-----------------------------------------------------------------------------
(* What a copy has delivered                                               *)

Names == {"hash", "span", "count", "file"}

\* What each writer has now, and had when the call began.
Now == [w \in Names |-> IF w = "hash" THEN fed ELSE sinks[w]]
Was == [w \in Names |-> IF w = "hash" THEN before.fed ELSE before.sinks[w]]

IsPipe(p) ==
  Len(p) \in {1, 2} /\ p[1] \in Names /\ p[Len(p)] \in Names /\ (Len(p) = 2 => p[1] # p[2])

HasFirst(got, had, s, n) == got = had \o Cut(s, 1, n)

\* Of the source s the first writer of the pipe p has the first a bytes and
\* the last writer the first b, at most one read of the given size apart.
Reached(now, was, s, p, size, a, b) ==
  /\ a \in Nat /\ b \in Nat /\ b <= a /\ a <= b + size /\ a <= Len(s)
  /\ HasFirst(now[p[1]], was[p[1]], s, a)
  /\ HasFirst(now[p[Len(p)]], was[p[Len(p)]], s, b)

LEMMA PipesAre == ASSUME NEW p \in Pipes \cup {<<"hash">>} PROVE IsPipe(p)
<1>1. CASE p \in Pipes
  <2>1. p \in Seq(Names) /\ Len(p) \in {1, 2} /\ (Len(p) = 2 => p[1] # p[2])
    BY <1>1, HashAssumption DEF Names
  <2>2. p[1] \in Names /\ p[Len(p)] \in Names
    BY <2>1
  <2> QED
    BY <2>1, <2>2 DEF IsPipe
<1>2. CASE p = <<"hash">>
  <2>1. Len(p) = 1 /\ p[1] = "hash"
    BY <1>2, SeqOne
  <2> QED
    BY <2>1 DEF IsPipe, Names
<1> QED
  BY <1>1, <1>2

LEMMA Delivered ==
  ASSUME NEW got, NEW had, NEW s, NEW a \in Nat, NEW n \in Nat, NEW b, NEW d,
         HasFirst(got, had, s, a), IsSeq(s), IsSeq(had), b = a + n, b <= Len(s),
         d = Cut(s, a + 1, n)
  PROVE  HasFirst(got \o d, had, s, b)
<1> DEFINE c == Cut(s, 1, a)
<1>1. IsSeq(had) /\ IsSeq(c) /\ IsSeq(d)
  BY SeqLen, SeqCut
<1>2. c \o d = Cut(s, 1, b)
  BY CutGrows
<1>3. got = had \o c
  BY DEF HasFirst
<1> HIDE DEF c
<1>4. (had \o c) \o d = had \o (c \o d)
  BY ONLY <1>1, SeqAssoc
<1> QED
  BY <1>2, <1>3, <1>4 DEF HasFirst

LEMMA ReachedStart ==
  ASSUME NEW was, NEW s, NEW p, NEW size \in Nat, IsSeq(s), IsPipe(p), \A w \in Names : IsSeq(was[w])
  PROVE  Reached(was, was, s, p, size, 0, 0)
<1>1. Cut(s, 1, 0) = <<>> /\ Len(s) \in Nat
  BY CutWhole, SeqLen
<1>2. \A w \in Names : was[w] \o <<>> = was[w]
  BY SeqNeutral
<1>3. p[1] \in Names /\ p[Len(p)] \in Names
  BY DEF IsPipe
<1>4. was[p[1]] = was[p[1]] \o Cut(s, 1, 0) /\ was[p[Len(p)]] = was[p[Len(p)]] \o Cut(s, 1, 0)
  BY <1>1, <1>2, <1>3
<1>5. 0 \in Nat /\ 0 <= 0 /\ 0 <= 0 + size /\ 0 <= Len(s)
  BY <1>1
<1> QED
  BY <1>4, <1>5 DEF Reached, HasFirst

\* The first writer takes n more bytes.
LEMMA FirstGrows ==
  ASSUME NEW now, NEW was, NEW s, NEW p, NEW size \in Nat, NEW t, NEW n \in Nat, NEW new,
         IsSeq(s), IsPipe(p), \A w \in Names : IsSeq(was[w]),
         Reached(now, was, s, p, size, t, t), n <= size, t + n <= Len(s),
         new[p[1]] = now[p[1]] \o Cut(s, t + 1, n),
         \A w \in Names \ {p[1]} : new[w] = now[w]
  PROVE  Reached(new, was, s, p, size, t + n, IF Len(p) = 1 THEN t + n ELSE t)
<1>1. /\ t \in Nat /\ HasFirst(now[p[1]], was[p[1]], s, t)
      /\ HasFirst(now[p[Len(p)]], was[p[Len(p)]], s, t)
  BY DEF Reached
<1>2. p[1] \in Names /\ p[Len(p)] \in Names /\ Len(p) \in {1, 2} /\ (Len(p) = 2 => p[1] # p[2])
  BY DEF IsPipe
<1>3. IsSeq(was[p[1]]) /\ Len(s) \in Nat
  BY <1>2, SeqLen
<1>4. HasFirst(new[p[1]], was[p[1]], s, t + n)
  BY <1>1, <1>3, Delivered
<1>5. /\ t + n \in Nat /\ t + n <= (t + n) + size /\ t + n <= t + size
      /\ t <= t + n /\ t + n <= t + n
  BY <1>1
<1>6. CASE Len(p) = 1
  BY <1>1, <1>4, <1>5, <1>6 DEF Reached
<1>7. CASE Len(p) = 2
  <2>1. HasFirst(new[p[2]], was[p[2]], s, t)
    BY <1>1, <1>2, <1>7
  <2> QED
    BY <1>1, <1>4, <1>5, <1>7, <2>1 DEF Reached
<1> QED
  BY <1>2, <1>6, <1>7

\* The second writer of a tee takes n bytes of what the first has got.
LEMMA LastGrows ==
  ASSUME NEW now, NEW was, NEW s, NEW p, NEW size \in Nat, NEW t, NEW l \in Nat, NEW n \in Nat, NEW new,
         IsSeq(s), IsPipe(p), Len(p) = 2, \A w \in Names : IsSeq(was[w]),
         Reached(now, was, s, p, size, t + l, t), t \in Nat, n <= l,
         new[p[2]] = now[p[2]] \o Cut(s, t + 1, n),
         \A w \in Names \ {p[2]} : new[w] = now[w]
  PROVE  Reached(new, was, s, p, size, t + l, t + n)
<1>1. /\ t + l <= Len(s) /\ t + l <= t + size
      /\ HasFirst(now[p[1]], was[p[1]], s, t + l) /\ HasFirst(now[p[2]], was[p[2]], s, t)
  BY DEF Reached
<1>2. p[1] \in Names /\ p[2] \in Names /\ p[1] # p[2]
  BY DEF IsPipe
<1>3. Len(s) \in Nat /\ IsSeq(was[p[2]])
  BY <1>2, SeqLen
<1>4. t + n <= Len(s)
  BY <1>1, <1>3
<1>5. HasFirst(new[p[2]], was[p[2]], s, t + n)
  BY <1>1, <1>3, <1>4, Delivered
<1>6. HasFirst(new[p[1]], was[p[1]], s, t + l)
  BY <1>1, <1>2
<1>7. t + l \in Nat /\ t + n \in Nat /\ t + n <= t + l /\ t + l <= (t + n) + size
  BY <1>1
<1> QED
  BY <1>1, <1>5, <1>6, <1>7 DEF Reached

LEMMA HasFirstGrown ==
  ASSUME NEW got, NEW had, NEW s, NEW n \in Nat, IsSeq(s), IsSeq(had), n <= Len(s),
         HasFirst(got, had, s, n),
         NEW g, g = Cut(got, Len(had) + 1, Len(got) - Len(had))
  PROVE  Len(g) = n /\ IsPrefix(g, s) /\ (n = Len(s) => g = s)
<1> DEFINE c == Cut(s, 1, n)
<1>1. IsSeq(c) /\ Len(c) = n
  BY SeqLen, SeqCut
<1>2. got = had \o c
  BY DEF HasFirst
<1>3. g = c
  <2> HIDE DEF c
  <2> QED
    BY <1>1, <1>2, CutBehind
<1>4. Cut(c, 1, Len(c)) = c
  <2> HIDE DEF c
  <2> QED
    BY <1>1, CutWhole
<1>5. SubSeq(c, 1, n) = c
  <2>1. 1 + n - 1 = n
    OBVIOUS
  <2> HIDE DEF c
  <2> QED
    BY <1>1, <1>4, <2>1 DEF Cut
<1>6. SubSeq(s, 1, n) = c
  BY DEF Cut
<1> HIDE DEF c
<1>7. IsPrefix(g, s)
  BY <1>1, <1>3, <1>5, <1>6 DEF IsPrefix
<1>8. n = Len(s) => c = s
  BY CutWhole DEF c
<1> QED
  BY <1>1, <1>3, <1>7, <1>8

-----------------------------------------------------------------------------
(* The calls                                                               *)

Shapes ==
  /\ DOMAIN sinks = {"span", "count", "file"} /\ DOMAIN before.sinks = {"span", "count", "file"}
  /\ \A w \in Names : IsSeq(Now[w]) /\ IsSeq(Was[w])
  /\ IsSeq(before.src) /\ IsSeq(src) /\ IsSeq(piece)
  /\ Len(sinks["span"]) <= Capacity /\ sink \in 1..2 /\ scratch \in Nat

\* Which call is at which place, and what an answer is the answer to.
Control ==
  /\ call \in {"copy", "stream"} => IsPipe(pipe)
  /\ call = "stream" => pipe = <<"hash">>
  /\ pc \in {"read", "write"} => call \in {"copy", "stream"} /\ scratch # 0
  /\ pc \in {"final", "zero"} => call = "final" \/ (call = "stream" /\ scratch # 0)
  /\ pc = "idle" =>
       result.call = call /\ (call \in {"copy", "stream"} /\ scratch = 0 => ~result.ok)

\* How far a copy is: between two reads every writer of the pipe has the first
\* total bytes of the source and the reader the others; between a read and its
\* last write the piece is what comes next.
Copying ==
  LET s       == before.src
      At(a, b) == Reached(Now, Was, s, pipe, scratch, a, b)
      Left(n) == Cut(s, n + 1, Len(s) - n)
  IN  (call \in {"copy", "stream"} /\ scratch # 0) =>
        /\ pc = "read" => At(total, total) /\ src = Left(total)
        /\ pc = "write" =>
             /\ Len(piece) \in 1..scratch /\ total \in Nat /\ total + Len(piece) <= Len(s)
             /\ piece = Cut(s, total + 1, Len(piece)) /\ src = Left(total + Len(piece))
             /\ \/ sink = 1 /\ At(total, total)
                \/ sink = 2 /\ Len(pipe) = 2 /\ At(total + Len(piece), total)
        /\ pc \in {"final", "zero"} => At(Len(s), Len(s))
        /\ pc = "idle" =>
             /\ \E a, b \in Nat : At(a, b)
             /\ result.ok => At(Len(s), Len(s))
             /\ result.ok /\ call = "copy" => result.value = <<Len(s)>>

Answers ==
  (pc = "idle" /\ result.ok /\ result.call \in {"stream", "final"}) => result.value = Reference(fed)

IInv == Hashing /\ Shapes /\ Control /\ Copying /\ Answers

LEMMA CopyingReached ==
  ASSUME Hashing, Copying, call \in {"copy", "stream"}, scratch # 0
  PROVE  \E a, b \in Nat : Reached(Now, Was, before.src, pipe, scratch, a, b)
<1>1. pc \in {"idle", "read", "write", "final", "zero"}
  BY DEF Hashing
<1>2. \A a, b : Reached(Now, Was, before.src, pipe, scratch, a, b) => a \in Nat /\ b \in Nat
  BY DEF Reached
<1>3. \E a, b : Reached(Now, Was, before.src, pipe, scratch, a, b)
  BY <1>1 DEF Copying
<1> QED
  BY <1>2, <1>3

LEMMA IInvTypes == IInv => TypeOK
<1> SUFFICES ASSUME IInv PROVE TypeOK
  OBVIOUS
<1>1. Sound(sha["inner"]) /\ Sound(sha["outer"])
  BY HashingSound DEF IInv
<1> QED
  BY <1>1 DEF IInv, Hashing, Shapes, TypeOK, Sound

LEMMA IInvExact == IInv => CopyIsExact
<1> SUFFICES ASSUME IInv, call \in {"copy", "stream"}, scratch # 0
             PROVE  /\ \A i \in 1..Len(pipe) : IsPrefix(Grown(pipe[i]), before.src)
                    /\ Len(pipe) = 2 =>
                         /\ Len(Grown(pipe[2])) <= Len(Grown(pipe[1]))
                         /\ Len(Grown(pipe[1])) <= Len(Grown(pipe[2])) + scratch
                    /\ (call = "copy" /\ pc = "idle" /\ result.ok) =>
                         /\ result.value = <<Len(before.src)>>
                         /\ \A i \in 1..Len(pipe) : Grown(pipe[i]) = before.src
  BY DEF CopyIsExact
<1> DEFINE s == before.src
           At(a, b) == Reached(Now, Was, s, pipe, scratch, a, b)
<1>1. /\ IsSeq(s) /\ Len(s) \in Nat /\ \A w \in Names : IsSeq(Was[w])
      /\ Len(pipe) \in {1, 2} /\ pipe[1] \in Names /\ pipe[Len(pipe)] \in Names
  BY SeqLen DEF IInv, Shapes, Control, IsPipe
<1>2. \A w \in Names : Grown(w) = Cut(Now[w], Len(Was[w]) + 1, Len(Now[w]) - Len(Was[w]))
  BY DEF Now, Was, Grown, Names
<1>w. ASSUME NEW w \in Names, NEW n \in Nat, n <= Len(s), HasFirst(Now[w], Was[w], s, n)
      PROVE  Len(Grown(w)) = n /\ IsPrefix(Grown(w), s) /\ (n = Len(s) => Grown(w) = s)
  <2> DEFINE got == Now[w]
             had == Was[w]
             g   == Grown(w)
  <2>1. IsSeq(had) /\ HasFirst(got, had, s, n) /\ g = Cut(got, Len(had) + 1, Len(got) - Len(had))
    BY <1>1, <1>2, <1>w
  <2> HIDE DEF got, had, g, s
  <2>2. Len(g) = n /\ IsPrefix(g, s) /\ (n = Len(s) => g = s)
    BY <1>1, <1>w, <2>1, HasFirstGrown
  <2> QED
    BY <2>2 DEF g
<1>3. ASSUME NEW a, NEW b, At(a, b)
      PROVE  /\ \A i \in 1..Len(pipe) : IsPrefix(Grown(pipe[i]), s)
             /\ Len(Grown(pipe[1])) = a /\ Len(Grown(pipe[Len(pipe)])) = b
             /\ a \in Nat /\ b \in Nat /\ b <= a /\ a <= b + scratch
             /\ a = Len(s) /\ b = Len(s) => \A i \in 1..Len(pipe) : Grown(pipe[i]) = s
  <2>1. /\ a \in Nat /\ b \in Nat /\ b <= a /\ a <= b + scratch /\ a <= Len(s) /\ b <= Len(s)
        /\ HasFirst(Now[pipe[1]], Was[pipe[1]], s, a)
        /\ HasFirst(Now[pipe[Len(pipe)]], Was[pipe[Len(pipe)]], s, b)
    BY <1>1, <1>3 DEF Reached
  <2>2. Len(Grown(pipe[1])) = a /\ IsPrefix(Grown(pipe[1]), s) /\ (a = Len(s) => Grown(pipe[1]) = s)
    BY <1>1, <1>w, <2>1
  <2>3. /\ Len(Grown(pipe[Len(pipe)])) = b /\ IsPrefix(Grown(pipe[Len(pipe)]), s)
        /\ b = Len(s) => Grown(pipe[Len(pipe)]) = s
    BY <1>1, <1>w, <2>1
  <2>4. \A i \in 1..Len(pipe) : i = 1 \/ i = Len(pipe)
    BY <1>1
  <2> QED
    BY <2>1, <2>2, <2>3, <2>4
<1>4. PICK a, b \in Nat : At(a, b)
  BY CopyingReached DEF IInv
<1>5. (call = "copy" /\ pc = "idle" /\ result.ok) => At(Len(s), Len(s)) /\ result.value = <<Len(s)>>
  BY DEF IInv, Copying
<1> HIDE DEF At, s
<1>6. \A i \in 1..Len(pipe) : IsPrefix(Grown(pipe[i]), s)
  BY <1>3, <1>4
<1>7. Len(pipe) = 2 => /\ Len(Grown(pipe[2])) <= Len(Grown(pipe[1]))
                       /\ Len(Grown(pipe[1])) <= Len(Grown(pipe[2])) + scratch
  BY <1>3, <1>4
<1>8. (call = "copy" /\ pc = "idle" /\ result.ok) =>
        result.value = <<Len(s)>> /\ \A i \in 1..Len(pipe) : Grown(pipe[i]) = s
  BY <1>3, <1>5
<1> QED
  BY <1>6, <1>7, <1>8 DEF s

LEMMA IInvDigest == IInv => DigestIsReference
<1> SUFFICES ASSUME IInv, pc = "idle", result.ok
             PROVE  /\ result.call \in {"stream", "final"} => result.value = Reference(fed)
                    /\ result.call = "stream" => fed = before.fed \o before.src
  BY DEF DigestIsReference
<1>1. result.call \in {"stream", "final"} => result.value = Reference(fed)
  BY DEF IInv, Answers
<1>2. ASSUME result.call = "stream" PROVE fed = before.fed \o before.src
  <2> DEFINE s == before.src
  <2>1. call = "stream" /\ scratch # 0 /\ pipe = <<"hash">>
    BY <1>2 DEF IInv, Control
  <2>2. Reached(Now, Was, s, pipe, scratch, Len(s), Len(s))
    BY <2>1 DEF IInv, Copying
  <2>3. pipe[1] = "hash" /\ Now["hash"] = fed /\ Was["hash"] = before.fed
    BY <2>1, SeqOne DEF Now, Was, Names
  <2>4. fed = before.fed \o Cut(s, 1, Len(s))
    BY <2>2, <2>3 DEF Reached, HasFirst
  <2>5. Cut(s, 1, Len(s)) = s
    BY CutWhole DEF IInv, Shapes
  <2> QED
    BY <2>4, <2>5
<1> QED
  BY <1>1, <1>2

LEMMA NowKept ==
  /\ UNCHANGED <<fed, sinks>> => Now' = Now
  /\ UNCHANGED before => Was' = Was
BY DEF Now, Was

LEMMA NothingIs ==
  /\ DOMAIN Nothing = {"span", "count", "file"} /\ Len(Nothing["span"]) <= Capacity
  /\ \A w \in Names \ {"hash"} : Nothing[w] = <<>>
<1>1. Len(<<>>) = 0 /\ Capacity \in Nat
  BY NothingSeq, HashAssumption
<1>2. DOMAIN Nothing = {"span", "count", "file"} /\ \A w \in {"span", "count", "file"} : Nothing[w] = <<>>
  BY DEF Nothing
<1>3. Len(Nothing["span"]) <= Capacity
  BY <1>1, <1>2
<1> QED
  BY <1>2, <1>3 DEF Names

LEMMA InitIInv == Init => IInv
<1> SUFFICES ASSUME Init PROVE IInv
  OBVIOUS
<1>1. Hashing
  BY HashingInit
<1>2. \A w \in Names : Now[w] = <<>> /\ Was[w] = <<>>
  BY NothingIs DEF Init, Now, Was
<1>3. Shapes
  <2>1. DOMAIN sinks = {"span", "count", "file"} /\ DOMAIN before.sinks = {"span", "count", "file"}
    BY NothingIs DEF Init
  <2>2. IsSeq(before.src) /\ IsSeq(src) /\ IsSeq(piece)
    BY NothingSeq DEF Init
  <2>3. Len(sinks["span"]) <= Capacity /\ sink \in 1..2 /\ scratch \in Nat
    BY NothingIs DEF Init
  <2> QED
    BY <1>2, <2>1, <2>2, <2>3, NothingSeq DEF Shapes
<1>4. Control /\ Copying /\ Answers
  BY DEF Init, Control, Copying, Answers
<1> QED
  BY <1>1, <1>3, <1>4 DEF IInv

LEMMA ResetKeeps == IInv /\ Reset => IInv'
<1> SUFFICES ASSUME IInv, Reset PROVE IInv'
  OBVIOUS
<1>1. /\ pc' = "idle" /\ call' = "reset" /\ result'.call = "reset" /\ result'.value = <<>>
      /\ fed' = <<>> /\ sinks' = Nothing /\ sha' = [inner |-> Made(key), outer |-> Fresh]
      /\ UNCHANGED <<key, obj, pipe, scratch, src, piece, sink, total, bits, before>>
  BY DEF Reset, Returns, copy
<1>2. Hashing'
  <2>1. /\ DOMAIN sha' = {"inner", "outer"} /\ Sound(sha'["outer"])
        /\ Taken(sha'["inner"], InnerMsg(key, <<>>))
    BY <1>1, HashingNew
  <2>2. obj = "inner"
    BY DEF IInv, Hashing, Reset
  <2>3. key' \in Keys \cup {NoKey}
    BY <1>1 DEF IInv, Hashing
  <2> QED
    BY <1>1, <2>1, <2>2, <2>3, NothingSeq DEF Hashing
<1>3. Shapes'
  <2>1. \A w \in Names : Now'[w] = <<>>
    BY <1>1, NothingIs DEF Now
  <2>2. Was' = Was
    BY <1>1, NowKept
  <2>3. DOMAIN sinks' = {"span", "count", "file"} /\ Len(sinks'["span"]) <= Capacity
    BY <1>1, NothingIs
  <2> QED
    BY <1>1, <2>1, <2>2, <2>3, NothingSeq DEF IInv, Shapes
<1>4. Control' /\ Copying' /\ Answers'
  BY <1>1 DEF Control, Copying, Answers
<1> QED
  BY <1>2, <1>3, <1>4 DEF IInv

LEMMA CopyKeeps == IInv /\ Copy => IInv'
<1> SUFFICES ASSUME IInv, Copy PROVE IInv'
  OBVIOUS
<1>1. PICK n \in Lengths, z \in Scratches :
        /\ src' = Source(n) /\ scratch' = z
        /\ before' = [sinks |-> sinks, fed |-> fed, src |-> Source(n)]
        /\ \/ call' = "copy" /\ pipe' \in Pipes
           \/ call' = "stream" /\ pipe' = <<"hash">>
        /\ IF z = 0 THEN Returns(FALSE, <<>>) ELSE pc' = "read" /\ UNCHANGED result
  BY DEF Copy
<1>2. /\ piece' = <<>> /\ total' = 0 /\ sink' = 1 /\ pc = "idle"
      /\ UNCHANGED <<key, sha, sinks, obj, bits, fed>>
  BY DEF Copy
<1>3. n \in Nat /\ z \in Nat
  BY HashAssumption
<1>4. pc' = IF z = 0 THEN "idle" ELSE "read"
  BY <1>1 DEF Returns
<1>5. z = 0 => result'.call = call' /\ ~result'.ok
  BY <1>1 DEF Returns
<1>6. Hashing'
  BY <1>2, <1>4, HashingKept DEF IInv
<1>7. Now' = Now /\ Was' = Now
  BY <1>1, <1>2, NowKept DEF Now, Was
<1>8. before'.src = Source(n) /\ before'.sinks = sinks
  BY <1>1
<1>9. Shapes'
  BY <1>1, <1>2, <1>3, <1>7, <1>8, SourceSeq, NothingSeq DEF IInv, Shapes
<1>10. IsPipe(pipe')
  BY <1>1, PipesAre
<1>11. Control'
  BY <1>1, <1>4, <1>5, <1>10 DEF Control
<1>12. Copying'
  <2> DEFINE s == Source(n)
  <2>1. IsSeq(s) /\ Len(s) = n
    BY <1>3, SourceSeq
  <2> HIDE DEF s
  <2>2. Reached(Now, Now, s, pipe', z, 0, 0)
    BY <1>3, <1>10, <2>1, ReachedStart DEF IInv, Shapes
  <2>3. s = Cut(s, 0 + 1, Len(s) - 0)
    BY <1>3, <2>1, CutWhole
  <2>4. before'.src = s /\ src' = s /\ scratch' = z
    BY <1>1, <1>8 DEF s
  <2> QED
    BY <1>2, <1>4, <1>7, <2>2, <2>3, <2>4 DEF Copying
<1>13. Answers'
  BY <1>4, <1>5 DEF Answers
<1> QED
  BY <1>6, <1>9, <1>11, <1>12, <1>13 DEF IInv

LEMMA ReadKeeps == IInv /\ Read => IInv'
<1> SUFFICES ASSUME IInv, Read PROVE IInv'
  OBVIOUS
<1> DEFINE s == before.src
<1>1. PICK n \in 1..scratch :
        n <= Len(src) /\ piece' = Cut(src, 1, n) /\ src' = Cut(src, n + 1, Len(src) - n)
  BY DEF Read
<1>2. /\ pc = "read" /\ pc' = "write" /\ sink' = 1
      /\ UNCHANGED <<key, sha, sinks, obj, call, pipe, scratch, total, bits, result, fed, before>>
  BY DEF Read, args
<1>3. Hashing'
  BY <1>2, HashingKept DEF IInv
<1>4. Now' = Now /\ Was' = Was
  BY <1>2, NowKept
<1>5. /\ call \in {"copy", "stream"} /\ scratch # 0 /\ scratch \in Nat /\ n \in Nat \ {0} /\ n <= scratch
      /\ IsSeq(src) /\ IsSeq(s) /\ Len(s) \in Nat /\ Len(src) \in Nat
  BY <1>2, SeqLen DEF IInv, Control, Shapes
<1>6. Reached(Now, Was, s, pipe, scratch, total, total) /\ src = Cut(s, total + 1, Len(s) - total)
  BY <1>2, <1>5 DEF IInv, Copying
<1>7. total \in Nat /\ total <= Len(s)
  BY <1>6 DEF Reached
<1>8. /\ Cut(src, 1, n) = Cut(s, total + 1, n) /\ total + n <= Len(s)
      /\ Cut(src, n + 1, Len(src) - n) = Cut(s, (total + n) + 1, Len(s) - (total + n))
  <2> DEFINE t == total
             r == src
  <2>1. /\ IsSeq(s) /\ t \in Nat /\ t <= Len(s) /\ r = Cut(s, t + 1, Len(s) - t)
        /\ n \in Nat /\ n <= Len(r)
    BY <1>1, <1>5, <1>6, <1>7
  <2> HIDE DEF s, t, r
  <2>2. /\ Cut(r, 1, n) = Cut(s, t + 1, n) /\ t + n <= Len(s)
        /\ Cut(r, n + 1, Len(r) - n) = Cut(s, (t + n) + 1, Len(s) - (t + n))
    BY ONLY <2>1, RestGoesOn
  <2> QED
    BY <2>2 DEF t, r
<1>9. IsSeq(piece') /\ Len(piece') = n
  BY <1>1, <1>5, SeqCut
<1>10. IsSeq(src')
  BY <1>1, <1>5, SeqCut
<1>11. Shapes'
  BY <1>2, <1>4, <1>9, <1>10 DEF IInv, Shapes
<1>12. Control'
  BY <1>2 DEF IInv, Control
<1>13. piece' = Cut(s, total + 1, n) /\ src' = Cut(s, (total + n) + 1, Len(s) - (total + n))
  BY <1>1, <1>8
<1>16. Copying'
  BY <1>2, <1>4, <1>5, <1>6, <1>7, <1>8, <1>9, <1>13 DEF Copying
<1>17. Answers'
  BY <1>2 DEF Answers
<1> QED
  BY <1>3, <1>11, <1>12, <1>16, <1>17 DEF IInv

\* A writer takes the first n bytes of the piece.
LEMMA WriteReaches ==
  ASSUME IInv, pc = "write", NEW n \in 0..Len(piece), NEW new,
         new[pipe[sink]] = Now[pipe[sink]] \o Cut(piece, 1, n),
         \A w \in Names \ {pipe[sink]} : new[w] = Now[w]
  PROVE  /\ sink = 1 => Reached(new, Was, before.src, pipe, scratch, total + n,
                                IF Len(pipe) = 1 THEN total + n ELSE total)
         /\ sink = 2 => /\ Len(pipe) = 2
                        /\ Reached(new, Was, before.src, pipe, scratch, total + Len(piece), total + n)
<1> DEFINE s == before.src
           l == Len(piece)
           t == total
<1>1. /\ call \in {"copy", "stream"} /\ scratch # 0 /\ scratch \in Nat /\ IsPipe(pipe) /\ IsSeq(s)
      /\ \A w \in Names : IsSeq(Was[w])
  BY DEF IInv, Control, Shapes
<1>2. /\ l \in 1..scratch /\ t \in Nat /\ t + l <= Len(s) /\ piece = Cut(s, t + 1, l)
      /\ \/ sink = 1 /\ Reached(Now, Was, s, pipe, scratch, t, t)
         \/ sink = 2 /\ Len(pipe) = 2 /\ Reached(Now, Was, s, pipe, scratch, t + l, t)
  BY <1>1 DEF IInv, Copying
<1>3. l \in Nat /\ n \in Nat /\ n <= l /\ n <= scratch /\ Len(s) \in Nat /\ t + n <= Len(s)
  BY <1>1, <1>2, SeqLen
<1>4. Cut(piece, 1, n) = Cut(s, t + 1, n)
  <2> DEFINE i == t + 1
  <2>1. i \in Nat \ {0} /\ i + l - 1 <= Len(s) /\ 1 + n - 1 <= l /\ i + 1 - 1 = i
    BY <1>2, <1>3
  <2>2. piece = Cut(s, i, l)
    BY <1>2
  <2> HIDE DEF i, s, l
  <2>3. Cut(Cut(s, i, l), 1, n) = Cut(s, i + 1 - 1, n)
    BY <1>1, <1>3, <2>1, CutCut
  <2> QED
    BY <2>1, <2>2, <2>3 DEF i
<1> HIDE DEF s, l, t
<1>5. CASE sink = 1
  <2>1. Reached(Now, Was, s, pipe, scratch, t, t)
    BY <1>2, <1>5
  <2>2. /\ new[pipe[1]] = Now[pipe[1]] \o Cut(s, t + 1, n)
        /\ \A w \in Names \ {pipe[1]} : new[w] = Now[w]
    BY <1>4, <1>5
  <2>3. Reached(new, Was, s, pipe, scratch, t + n, IF Len(pipe) = 1 THEN t + n ELSE t)
    BY ONLY <1>1, <1>3, <2>1, <2>2, FirstGrows
  <2> QED
    BY <1>5, <2>3 DEF s, t
<1>6. CASE sink = 2
  <2>1. Reached(Now, Was, s, pipe, scratch, t + l, t) /\ Len(pipe) = 2 /\ t \in Nat
    BY <1>2, <1>6
  <2>2. /\ new[pipe[2]] = Now[pipe[2]] \o Cut(s, t + 1, n)
        /\ \A w \in Names \ {pipe[2]} : new[w] = Now[w]
    BY <1>4, <1>6
  <2>3. Reached(new, Was, s, pipe, scratch, t + l, t + n)
    BY ONLY <1>1, <1>3, <2>1, <2>2, LastGrows
  <2> QED
    BY <1>6, <2>1, <2>3 DEF s, t, l
<1> QED
  BY <1>5, <1>6

\* A writer that takes all of the piece.
LEMMA WrittenKeeps ==
  ASSUME IInv, pc = "write", Written,
         UNCHANGED <<call, pipe, scratch, src, piece, before, result>>,
         Now'[pipe[sink]] = Now[pipe[sink]] \o piece,
         \A w \in Names \ {pipe[sink]} : Now'[w] = Now[w]
  PROVE  pc' \in {"read", "write"} /\ sink' \in 1..2 /\ Control' /\ Copying' /\ Answers'
<1> DEFINE s == before.src
           l == Len(piece)
<1>1. call \in {"copy", "stream"} /\ scratch # 0 /\ Len(pipe) \in {1, 2} /\ sink \in {1, 2} /\ IsSeq(piece)
  BY DEF IInv, Control, Shapes, IsPipe
<1>2. /\ l \in 1..scratch /\ total \in Nat /\ total + l <= Len(s) /\ l \in Nat
      /\ piece = Cut(s, total + 1, l) /\ src = Cut(s, (total + l) + 1, Len(s) - (total + l))
  BY <1>1, SeqLen DEF IInv, Copying
<1>3. Cut(piece, 1, l) = piece /\ l \in 0..Len(piece)
  BY <1>1, <1>2, CutWhole
<1> DEFINE now == Now'
<1>4. /\ sink = 1 => Reached(now, Was, s, pipe, scratch, total + l,
                             IF Len(pipe) = 1 THEN total + l ELSE total)
      /\ sink = 2 => Len(pipe) = 2 /\ Reached(now, Was, s, pipe, scratch, total + l, total + l)
  <2>1. /\ now[pipe[sink]] = Now[pipe[sink]] \o Cut(piece, 1, l)
        /\ \A w \in Names \ {pipe[sink]} : now[w] = Now[w]
    BY <1>3
  <2> HIDE DEF now
  <2> QED
    BY <1>3, <2>1, WriteReaches
<1>5. Was' = Was
  BY NowKept
<1>8. IF sink < Len(pipe) THEN sink = 1 /\ Len(pipe) = 2 ELSE sink = 2 \/ (sink = 1 /\ Len(pipe) = 1)
  <2> DEFINE k == Len(pipe)
  <2>1. sink \in {1, 2} /\ k \in {1, 2}
    BY <1>1
  <2> HIDE DEF k
  <2>2. IF sink < k THEN sink = 1 /\ k = 2 ELSE sink = 2 \/ (sink = 1 /\ k = 1)
    BY ONLY <2>1
  <2> QED
    BY <2>2 DEF k
<1>6. CASE sink < Len(pipe)
  <2>a. sink = 1 /\ Len(pipe) = 2
    BY <1>6, <1>8
  <2>b. sink' = sink + 1 /\ UNCHANGED <<pc, total>>
    BY <1>6 DEF Written
  <2>1. sink = 1 /\ Len(pipe) = 2 /\ sink' = 2 /\ pc' = "write" /\ total' = total
    BY <2>a, <2>b
  <2>2. Control' /\ Answers'
    BY <2>1 DEF IInv, Control, Answers
  <2>3. Copying'
    BY <1>2, <1>4, <1>5, <2>1 DEF Copying
  <2> QED
    BY <2>1, <2>2, <2>3
<1>7. CASE ~(sink < Len(pipe))
  <2>1. sink' = 1 /\ pc' = "read" /\ total' = total + l
    BY <1>7 DEF Written
  <2>2. Control' /\ Answers'
    BY <1>1, <2>1 DEF IInv, Control, Answers
  <2>a. sink = 2 \/ (sink = 1 /\ Len(pipe) = 1)
    BY <1>7, <1>8
  <2> HIDE DEF now, s, l
  <2>3. Reached(now, Was, s, pipe, scratch, total + l, total + l)
    BY <1>4, <2>a
  <2> USE DEF now, s, l
  <2>4. Copying'
    BY <1>2, <1>5, <2>1, <2>3 DEF Copying
  <2> QED
    BY <2>1, <2>2, <2>4
<1> QED
  BY <1>6, <1>7

\* A copy that gives up leaves the writers where they are.
LEMMA GivenUp ==
  ASSUME IInv, pc \in {"read", "write"}, pc' = "idle", ~result'.ok, result'.call = call,
         UNCHANGED <<call, pipe, scratch, before>>,
         \E a, b \in Nat : Reached(Now', Was', before.src, pipe, scratch, a, b)
  PROVE  Control' /\ Copying' /\ Answers'
<1>1. Control'
  BY DEF IInv, Control
<1>2. Copying'
  BY DEF Copying
<1>3. Answers'
  BY DEF Answers
<1> QED
  BY <1>1, <1>2, <1>3

LEMMA ReadFailsKeeps == IInv /\ ReadFails => IInv'
<1> SUFFICES ASSUME IInv, ReadFails PROVE IInv'
  OBVIOUS
<1>1. /\ pc = "read" /\ pc' = "idle" /\ ~result'.ok /\ result'.call = call
      /\ UNCHANGED <<key, sha, sinks, obj, call, pipe, scratch, src, piece, sink, total, bits, fed, before>>
  BY DEF ReadFails, Returns, copy
<1>2. Now' = Now /\ Was' = Was
  BY <1>1, NowKept
<1>3. \E a, b \in Nat : Reached(Now, Was, before.src, pipe, scratch, a, b)
  BY <1>1, CopyingReached DEF IInv, Control
<1>4. Hashing'
  BY <1>1, HashingKept DEF IInv
<1>5. Shapes'
  BY <1>1, <1>2 DEF IInv, Shapes
<1>6. Control' /\ Copying' /\ Answers'
  BY <1>1, <1>2, <1>3, GivenUp
<1> QED
  BY <1>4, <1>5, <1>6 DEF IInv

LEMMA WriteHashKeeps == IInv /\ WriteHash => IInv'
<1> SUFFICES ASSUME IInv, WriteHash PROVE IInv'
  OBVIOUS
<1>1. pc = "write" /\ pipe[sink] = "hash" /\ UNCHANGED <<key, sinks, obj, pipe, scratch, src, piece, bits, before>>
  BY DEF WriteHash
<1>2. CASE sha["inner"].finalized
  <2>1. pc' = "idle" /\ ~result'.ok /\ result'.call = call /\ UNCHANGED <<call, sha, fed, sink, total>>
    BY <1>2 DEF WriteHash, Returns
  <2>2. Now' = Now /\ Was' = Was
    BY <1>1, <2>1, NowKept
  <2>3. \E a, b \in Nat : Reached(Now, Was, before.src, pipe, scratch, a, b)
    BY <1>1, CopyingReached DEF IInv, Control
  <2>4. Hashing'
    BY <1>1, <2>1, HashingKept DEF IInv
  <2>5. Shapes'
    BY <1>1, <2>1, <2>2 DEF IInv, Shapes
  <2>6. Control' /\ Copying' /\ Answers'
    BY <1>1, <2>1, <2>2, <2>3, GivenUp
  <2> QED
    BY <2>4, <2>5, <2>6 DEF IInv
<1>3. CASE ~sha["inner"].finalized
  <2>1. fed' = fed \o piece /\ Written /\ UNCHANGED <<call, result>>
    BY <1>3 DEF WriteHash
  <2>2. Now'["hash"] = Now["hash"] \o piece /\ \A w \in Names \ {"hash"} : Now'[w] = Now[w]
    BY <1>1, <2>1 DEF Now, Names
  <2>3. pc' \in {"read", "write"} /\ sink' \in 1..2 /\ Control' /\ Copying' /\ Answers'
    BY <1>1, <2>1, <2>2, WrittenKeeps
  <2>4. IsSeq(piece) /\ IsSeq(Now["hash"]) /\ "hash" \in Names
    BY DEF IInv, Shapes, Names
  <2>5. Hashing'
    BY <1>3, <2>3, <2>4, HashingFed DEF IInv
  <2>6. IsSeq(Now'["hash"])
    BY <2>2, <2>4, SeqConcat
  <2>7. Was' = Was
    BY <1>1, NowKept
  <2>8. Shapes'
    BY <1>1, <2>2, <2>3, <2>6, <2>7 DEF IInv, Shapes
  <2> QED
    BY <2>3, <2>5, <2>8 DEF IInv
<1> QED
  BY <1>2, <1>3

LEMMA SinkNamed == ASSUME IInv, pc = "write" PROVE pipe[sink] \in Names
<1>1. call \in {"copy", "stream"} /\ scratch # 0 /\ IsPipe(pipe)
  BY DEF IInv, Control
<1>2. sink = 1 \/ (sink = 2 /\ Len(pipe) = 2)
  BY <1>1 DEF IInv, Copying
<1> QED
  BY <1>1, <1>2 DEF IsPipe

\* A writer other than the hasher takes some bytes.
LEMMA SinkTakes ==
  ASSUME IInv, NEW w \in Names \ {"hash"}, NEW d, IsSeq(d),
         sinks' = [sinks EXCEPT ![w] = @ \o d], UNCHANGED <<fed, before>>,
         w = "span" => Len(d) <= Capacity - Len(sinks[w])
  PROVE  /\ DOMAIN sinks' = {"span", "count", "file"} /\ Len(sinks'["span"]) <= Capacity
         /\ Now'[w] = Now[w] \o d /\ (\A v \in Names \ {w} : Now'[v] = Now[v]) /\ Was' = Was
         /\ \A v \in Names : IsSeq(Now'[v])
<1>1. DOMAIN sinks = {"span", "count", "file"} /\ w \in {"span", "count", "file"}
  BY DEF IInv, Shapes, Names
<1>2. /\ DOMAIN sinks' = {"span", "count", "file"} /\ sinks'[w] = sinks[w] \o d
      /\ \A v \in {"span", "count", "file"} \ {w} : sinks'[v] = sinks[v]
  BY <1>1
<1>3. Now'[w] = Now[w] \o d /\ (\A v \in Names \ {w} : Now'[v] = Now[v]) /\ Now[w] = sinks[w]
  BY <1>1, <1>2 DEF Now, Names
<1>4. IsSeq(Now[w]) /\ Was' = Was
  BY NowKept DEF IInv, Shapes
<1>5. IsSeq(Now'[w]) /\ Len(Now'[w]) = Len(Now[w]) + Len(d)
  <2> DEFINE h == Now[w]
  <2>1. IsSeq(h) /\ IsSeq(d)
    BY <1>4
  <2> HIDE DEF h
  <2>2. IsSeq(h \o d) /\ Len(h \o d) = Len(h) + Len(d)
    BY ONLY <2>1, SeqConcat
  <2> QED
    BY <1>3, <2>2 DEF h
<1>6. \A v \in Names : IsSeq(Now'[v])
  BY <1>3, <1>5 DEF IInv, Shapes
<1>7. Len(sinks'["span"]) <= Capacity
  <2>1. CASE w = "span"
    <3>1. Len(sinks["span"]) \in Nat /\ Len(d) \in Nat /\ Capacity \in Nat
      BY <1>3, <1>4, <2>1, SeqLen, HashAssumption
    <3>2. Len(sinks'["span"]) = Len(sinks["span"]) + Len(d)
      BY <1>2, <1>3, <1>5, <2>1
    <3>3. Len(d) <= Capacity - Len(sinks["span"])
      BY <2>1
    <3> DEFINE x == Len(sinks["span"])
               y == Len(d)
               z == Len(sinks'["span"])
    <3>4. x \in Nat /\ y \in Nat /\ z = x + y /\ y <= Capacity - x /\ Capacity \in Nat
      BY <3>1, <3>2, <3>3
    <3> HIDE DEF x, y, z
    <3>5. z <= Capacity
      BY ONLY <3>4
    <3> QED
      BY <3>5 DEF z
  <2>2. CASE w # "span"
    BY <1>2, <2>2 DEF IInv, Shapes
  <2> QED
    BY <2>1, <2>2
<1> QED
  BY <1>2, <1>3, <1>4, <1>6, <1>7

LEMMA WriteSinkKeeps == IInv /\ WriteSink => IInv'
<1> SUFFICES ASSUME IInv, WriteSink PROVE IInv'
  OBVIOUS
<1> DEFINE w == pipe[sink]
<1>1. /\ pc = "write" /\ w # "hash" /\ Fits(w) /\ Written
      /\ sinks' = [sinks EXCEPT ![w] = @ \o piece]
      /\ UNCHANGED <<key, sha, obj, call, pipe, scratch, src, piece, bits, result, fed, before>>
  BY DEF WriteSink, args
<1>2. w \in Names \ {"hash"} /\ IsSeq(piece) /\ (w = "span" => Len(piece) <= Capacity - Len(sinks[w]))
  BY <1>1, SinkNamed DEF IInv, Shapes, Fits
<1> HIDE DEF w
<1>3. /\ DOMAIN sinks' = {"span", "count", "file"} /\ Len(sinks'["span"]) <= Capacity
      /\ Now'[w] = Now[w] \o piece /\ (\A v \in Names \ {w} : Now'[v] = Now[v]) /\ Was' = Was
      /\ \A v \in Names : IsSeq(Now'[v])
  BY <1>1, <1>2, SinkTakes
<1>4. pc' \in {"read", "write"} /\ sink' \in 1..2 /\ Control' /\ Copying' /\ Answers'
  BY <1>1, <1>3, WrittenKeeps DEF w
<1>5. Hashing'
  BY <1>1, <1>4, HashingKept DEF IInv
<1>6. Shapes'
  BY <1>1, <1>3, <1>4 DEF IInv, Shapes
<1> QED
  BY <1>4, <1>5, <1>6 DEF IInv

LEMMA WriteFailsKeeps == IInv /\ WriteFails => IInv'
<1> SUFFICES ASSUME IInv, WriteFails PROVE IInv'
  OBVIOUS
<1>1. /\ pc = "write" /\ pc' = "idle" /\ ~result'.ok /\ result'.call = call
      /\ UNCHANGED <<key, sha, obj, call, pipe, scratch, src, piece, sink, total, bits, fed, before>>
  BY DEF WriteFails, Returns, copy
<1>2. Hashing'
  BY <1>1, HashingKept DEF IInv
<1>3. Was' = Was
  BY <1>1, NowKept
<1>4. CASE UNCHANGED sinks
  <2>1. Now' = Now
    BY <1>1, <1>4, NowKept
  <2>2. \E a, b \in Nat : Reached(Now, Was, before.src, pipe, scratch, a, b)
    BY <1>1, CopyingReached DEF IInv, Control
  <2>3. Shapes'
    BY <1>1, <1>3, <1>4, <2>1 DEF IInv, Shapes
  <2>4. Control' /\ Copying' /\ Answers'
    BY <1>1, <1>3, <2>1, <2>2, GivenUp
  <2> QED
    BY <1>2, <2>3, <2>4 DEF IInv
<1>5. CASE pipe[sink] = "file" /\ \E n \in 0..(Len(piece) - 1) :
             sinks' = [sinks EXCEPT !["file"] = @ \o Cut(piece, 1, n)]
  <2>1. PICK n \in 0..(Len(piece) - 1) : sinks' = [sinks EXCEPT !["file"] = @ \o Cut(piece, 1, n)]
    BY <1>5
  <2>2. IsSeq(piece) /\ Len(piece) \in Nat
    BY SeqLen DEF IInv, Shapes
  <2>3. n \in 0..Len(piece) /\ n \in Nat /\ 1 + n - 1 <= Len(piece)
    BY <2>2
  <2> DEFINE d == Cut(piece, 1, n)
  <2>4. IsSeq(d)
    BY <2>2, <2>3, SeqCut
  <2> HIDE DEF d
  <2>5. sinks' = [sinks EXCEPT !["file"] = @ \o d] /\ "file" \in Names \ {"hash"}
    BY <2>1 DEF d, Names
  <2>6. /\ DOMAIN sinks' = {"span", "count", "file"} /\ Len(sinks'["span"]) <= Capacity
        /\ Now'["file"] = Now["file"] \o d /\ (\A v \in Names \ {"file"} : Now'[v] = Now[v])
        /\ \A v \in Names : IsSeq(Now'[v])
    BY <1>1, <2>4, <2>5, SinkTakes
  <2>7. Shapes'
    BY <1>1, <1>3, <2>6 DEF IInv, Shapes
  <2>8. \E a, b : Reached(Now', Was, before.src, pipe, scratch, a, b)
    <3> DEFINE now == Now'
    <3>1. /\ now[pipe[sink]] = Now[pipe[sink]] \o Cut(piece, 1, n)
          /\ \A v \in Names \ {pipe[sink]} : now[v] = Now[v]
      BY <1>5, <2>6 DEF d
    <3>2. sink = 1 \/ sink = 2
      BY DEF IInv, Shapes
    <3> HIDE DEF now
    <3>3. \E a, b : Reached(now, Was, before.src, pipe, scratch, a, b)
      BY <1>1, <2>3, <3>1, <3>2, WriteReaches
    <3> QED
      BY <3>3 DEF now
  <2>9. \E a, b \in Nat : Reached(Now', Was', before.src, pipe, scratch, a, b)
    BY <1>3, <2>8 DEF Reached
  <2>10. Control' /\ Copying' /\ Answers'
    BY <1>1, <2>9, GivenUp
  <2> QED
    BY <1>2, <2>7, <2>10 DEF IInv
<1> QED
  BY <1>4, <1>5 DEF WriteFails

LEMMA CopyDoneKeeps == IInv /\ CopyDone => IInv'
<1> SUFFICES ASSUME IInv, CopyDone PROVE IInv'
  OBVIOUS
<1> DEFINE s == before.src
<1>1. /\ pc = "read" /\ src = <<>>
      /\ UNCHANGED <<key, sha, sinks, obj, call, pipe, scratch, src, piece, sink, total, bits, fed, before>>
  BY DEF CopyDone, copy, Returns
<1>2. IF call = "stream" THEN pc' = "final" ELSE pc' = "idle" /\ result' = [call |-> call, ok |-> TRUE, value |-> <<total>>]
  BY DEF CopyDone, Returns
<1>3. call \in {"copy", "stream"} /\ scratch # 0 /\ IsSeq(s) /\ Len(s) \in Nat /\ Len(src) = 0
  BY <1>1, SeqLen, NothingSeq DEF IInv, Control, Shapes
<1>4. Reached(Now, Was, s, pipe, scratch, total, total) /\ src = Cut(s, total + 1, Len(s) - total)
  BY <1>1, <1>3 DEF IInv, Copying
<1>5. total \in Nat /\ total <= Len(s)
  BY <1>4 DEF Reached
<1>6. total = Len(s)
  <2>1. Len(src) = Len(s) - total
    <3> DEFINE t == total
               r == src
    <3>1. IsSeq(s) /\ t \in Nat /\ t <= Len(s) /\ r = Cut(s, t + 1, Len(s) - t)
      BY <1>3, <1>4, <1>5
    <3> HIDE DEF s, t, r
    <3>2. Len(r) = Len(s) - t
      BY ONLY <3>1, Rest
    <3> QED
      BY <3>2 DEF r, t
  <2> QED
    BY <1>3, <1>5, <2>1
<1>7. Now' = Now /\ Was' = Was
  BY <1>1, NowKept
<1>8. Reached(Now, Was, s, pipe, scratch, Len(s), Len(s))
  BY <1>4, <1>6
<1>9. Hashing'
  BY <1>1, <1>2, HashingKept DEF IInv
<1>10. Shapes'
  BY <1>1, <1>7 DEF IInv, Shapes
<1>11. CASE call = "stream"
  <2>1. Control' /\ Answers'
    BY <1>1, <1>2, <1>3, <1>11 DEF IInv, Control, Answers
  <2>2. Copying'
    BY <1>1, <1>2, <1>7, <1>8, <1>11 DEF Copying
  <2> QED
    BY <1>9, <1>10, <2>1, <2>2 DEF IInv
<1>12. CASE call # "stream"
  <2>1. pc' = "idle" /\ result'.call = call /\ result'.value = <<total>> /\ call = "copy"
    BY <1>2, <1>3, <1>12
  <2>2. Control' /\ Answers'
    BY <1>1, <1>3, <2>1 DEF IInv, Control, Answers
  <2>3. Copying'
    BY <1>1, <1>3, <1>6, <1>7, <1>8, <2>1 DEF Copying
  <2> QED
    BY <1>9, <1>10, <2>2, <2>3 DEF IInv
<1> QED
  BY <1>11, <1>12

LEMMA FinalKeeps == IInv /\ Final => IInv'
<1> SUFFICES ASSUME IInv, Final PROVE IInv'
  OBVIOUS
<1>1. /\ pc = "idle" /\ pc' = "final" /\ call' = "final"
      /\ UNCHANGED <<key, sha, sinks, obj, pipe, scratch, src, piece, sink, total, bits, fed, before>>
  BY DEF Final, copy
<1>2. Hashing'
  BY <1>1, HashingKept DEF IInv
<1>3. Now' = Now /\ Was' = Was
  BY <1>1, NowKept
<1>4. Shapes'
  BY <1>1, <1>3 DEF IInv, Shapes
<1>5. Control' /\ Copying' /\ Answers'
  BY <1>1 DEF Control, Copying, Answers
<1> QED
  BY <1>2, <1>4, <1>5 DEF IInv

\* The steps of Final leave the writers where the copy left them.
LEMMA FinalCopied ==
  ASSUME IInv, pc \in {"final", "zero"}, pc' \in {"final", "zero", "idle"},
         UNCHANGED <<sinks, call, pipe, scratch, src, piece, sink, fed, before>>,
         pc' = "idle" => result'.call = call
  PROVE  Shapes' /\ Control' /\ Copying'
<1>1. Now' = Now /\ Was' = Was
  BY NowKept
<1>2. Shapes'
  BY <1>1 DEF IInv, Shapes
<1>3. Control'
  BY DEF IInv, Control
<1>4. ASSUME call \in {"copy", "stream"}, scratch # 0
      PROVE  Reached(Now, Was, before.src, pipe, scratch, Len(before.src), Len(before.src)) /\ call = "stream"
  BY <1>4 DEF IInv, Copying, Control
<1>5. IsSeq(before.src) /\ Len(before.src) \in Nat
  BY SeqLen DEF IInv, Shapes
<1>6. Copying'
  BY <1>1, <1>4, <1>5 DEF Copying
<1> QED
  BY <1>2, <1>3, <1>6

LEMMA PadKeeps == IInv /\ FinalPad => IInv'
<1> SUFFICES ASSUME IInv, FinalPad PROVE IInv'
  OBVIOUS
<1>1. /\ pc = "final" /\ pc' = "zero"
      /\ UNCHANGED <<sinks, call, pipe, scratch, src, piece, sink, fed, before>>
  BY DEF FinalPad, copy, args
<1>2. Hashing'
  BY HashingPad DEF IInv
<1>3. Shapes' /\ Control' /\ Copying'
  BY <1>1, FinalCopied
<1>4. Answers'
  BY <1>1 DEF Answers
<1> QED
  BY <1>2, <1>3, <1>4 DEF IInv

LEMMA ZeroKeeps == IInv /\ FinalZero => IInv'
<1> SUFFICES ASSUME IInv, FinalZero PROVE IInv'
  OBVIOUS
<1>1. /\ pc = "zero" /\ pc' = "zero"
      /\ UNCHANGED <<sinks, call, pipe, scratch, src, piece, sink, fed, before>>
  BY DEF FinalZero, copy, args
<1>2. Hashing'
  BY HashingZero DEF IInv
<1>3. Shapes' /\ Control' /\ Copying'
  BY <1>1, FinalCopied
<1>4. Answers'
  BY <1>1 DEF Answers
<1> QED
  BY <1>2, <1>3, <1>4 DEF IInv

LEMMA RefusedKeeps == IInv /\ FinalRefused => IInv'
<1> SUFFICES ASSUME IInv, FinalRefused PROVE IInv'
  OBVIOUS
<1>1. /\ pc = "final" /\ pc' = "idle" /\ sha[obj].finalized /\ ~result'.ok /\ result'.call = call
      /\ UNCHANGED <<key, sha, sinks, obj, call, pipe, scratch, src, piece, sink, bits, fed, before>>
  BY DEF FinalRefused, copy, Returns
<1>2. obj = "inner"
  <2> SUFFICES ASSUME obj = "outer" PROVE FALSE
    BY DEF IInv, Hashing
  <2>1. Taken(sha["outer"], OuterMsg(key, fed))
    BY <1>1 DEF IInv, Hashing
  <2> QED
    BY <1>1, <2>1 DEF Taken
<1>3. Hashing'
  BY <1>1, <1>2, HashingKept DEF IInv
<1>4. Shapes' /\ Control' /\ Copying'
  BY <1>1, FinalCopied
<1>5. Answers'
  BY <1>1 DEF Answers
<1> QED
  BY <1>3, <1>4, <1>5 DEF IInv

LEMMA LengthKeeps == IInv /\ FinalLength => IInv'
<1> SUFFICES ASSUME IInv, FinalLength PROVE IInv'
  OBVIOUS
<1>1. /\ pc = "zero" /\ pc' \in {"final", "idle"} /\ (pc' = "idle" => result'.call = call)
      /\ UNCHANGED <<key, sinks, call, pipe, scratch, src, piece, sink, fed, before>>
  BY DEF FinalLength, copy, Returns
<1>2. Hashing' /\ (pc' = "idle" => result'.value = Reference(fed))
  BY HashingLength DEF IInv
<1>3. Shapes' /\ Control' /\ Copying'
  BY <1>1, FinalCopied
<1>4. Reference(fed)' = Reference(fed)
  BY <1>1 DEF Reference
<1>5. Answers'
  BY <1>1, <1>2, <1>4 DEF Answers
<1> QED
  BY <1>2, <1>3, <1>5 DEF IInv

LEMMA StutterKeeps == IInv /\ UNCHANGED vars => IInv'
<1> SUFFICES ASSUME IInv, UNCHANGED vars PROVE IInv'
  OBVIOUS
<1>1. UNCHANGED <<key, sha, sinks, pc, obj, call, pipe, scratch, src, piece, sink, total, bits, result, fed, before>>
  BY DEF vars, args, copy
<1>2. Now' = Now /\ Was' = Was /\ Reference(fed)' = Reference(fed)
  BY <1>1, NowKept DEF Reference
<1>3. Hashing'
  BY <1>1 DEF IInv, Hashing
<1>4. Shapes' /\ Control' /\ Answers'
  BY <1>1, <1>2 DEF IInv, Shapes, Control, Answers
<1>5. Copying'
  BY <1>1, <1>2 DEF IInv, Copying
<1> QED
  BY <1>3, <1>4, <1>5 DEF IInv

LEMMA StepIInv == IInv /\ [Next]_vars => IInv'
<1> SUFFICES ASSUME IInv, [Next]_vars PROVE IInv'
  OBVIOUS
<1>1. CASE Reset          BY <1>1, ResetKeeps
<1>2. CASE Copy           BY <1>2, CopyKeeps
<1>3. CASE Read           BY <1>3, ReadKeeps
<1>4. CASE ReadFails      BY <1>4, ReadFailsKeeps
<1>5. CASE WriteHash      BY <1>5, WriteHashKeeps
<1>6. CASE WriteSink      BY <1>6, WriteSinkKeeps
<1>7. CASE WriteFails     BY <1>7, WriteFailsKeeps
<1>8. CASE CopyDone       BY <1>8, CopyDoneKeeps
<1>9. CASE Final          BY <1>9, FinalKeeps
<1>10. CASE FinalPad      BY <1>10, PadKeeps
<1>11. CASE FinalRefused  BY <1>11, RefusedKeeps
<1>12. CASE FinalZero     BY <1>12, ZeroKeeps
<1>13. CASE FinalLength   BY <1>13, LengthKeeps
<1>14. CASE UNCHANGED vars BY <1>14, StutterKeeps
<1> QED
  BY <1>1, <1>2, <1>3, <1>4, <1>5, <1>6, <1>7, <1>8, <1>9, <1>10, <1>11, <1>12, <1>13, <1>14
     DEF Next, Step

LEMMA AlwaysIInv == Spec => []IInv
BY InitIInv, StepIInv, PTL DEF Spec

-----------------------------------------------------------------------------

\* Sha256::Update leaves less than a block in buffer_ and compresses nothing
\* but whole blocks, whatever it is called with, and no SpanWriter takes more
\* than its buffer holds.
THEOREM HashTypes == Spec => []TypeOK
BY AlwaysIInv, IInvTypes, PTL

\* Final of Sha256 and of HmacSha256 returns the hash of everything Update was
\* given since the hasher was made, whatever the pieces, and HashStream on a
\* new hasher that of its source: for every block, length field, digest and
\* key size, and for messages whose length in bits wraps.
THEOREM DigestsAreReference == Spec => []DigestIsReference
BY AlwaysIInv, IInvDigest, PTL

\* io::Copy gives each writer a beginning of the source at every moment, the
\* two of a TeeWriter no more than one read apart, and all of it when it
\* returns Ok.
THEOREM CopiesAreExact == Spec => []CopyIsExact
BY AlwaysIInv, IInvExact, PTL

=============================================================================
