--------------------------- MODULE ObjToHexProofs ---------------------------
(***************************************************************************)
(* Proofs about module ObjToHex: its types, that no work file is left, and *)
(* that what a run has written is the image.                               *)
(*                                                                         *)
(* The argument: each block in memory has a buffer of its own and shows    *)
(* the bytes put so far (Shows), whatever loadBlk took from whom; the      *)
(* lines so far, read by a loader, hold the bytes of the blocks below      *)
(* curAddr (Laid); the table is put item by item where its symbol says     *)
(* (TableInv); and each sum counts the bytes of the image before loc       *)
(* (Counting) and stays right when the next ones are put (AllRight).       *)
(***************************************************************************)
EXTENDS ObjToHex, TLAPS, FiniteSetTheorems, WellFoundedInduction

-----------------------------------------------------------------------------
(* Induction over the natural numbers *)

\* A set of natural numbers has a smallest element.
LEMMA Least == ASSUME NEW S, S \subseteq Nat, S # {}
               PROVE  \E x \in S : \A y \in S : x <= y
<1> DEFINE T == {1..n : n \in S}
<1>0. \A n \in S : n \in Nat /\ 1..n \in FiniteSubsetsOf(Int) /\ 1..n \in T
  BY FS_Interval DEF FiniteSubsetsOf
<1>1. IsWellFoundedOn(StrictSubsetOrdering(Int), FiniteSubsetsOf(Int))
  BY FS_StrictSubsetOrderingWellFounded
<1>2. T \subseteq FiniteSubsetsOf(Int) /\ T # {}
  BY <1>0
<1> HIDE DEF T
<1>3. PICK t \in T : \A y \in T : <<y, t>> \notin StrictSubsetOrdering(Int)
  BY <1>1, <1>2, WFMin
<1>4. PICK x \in S : t = 1..x
  BY <1>3 DEF T
<1>5. ASSUME NEW y \in S, y < x PROVE FALSE
  <2>1. 1..y \in T /\ x \in Nat /\ y \in Nat
    BY <1>0, <1>5
  <2>2. 1..y \subseteq 1..x /\ x \in 1..x /\ x \notin 1..y
    BY <1>5, <2>1
  <2>3. <<1..y, 1..x>> \in StrictSubsetOrdering(Int)
    BY <2>1, <2>2 DEF StrictSubsetOrdering
  <2> QED BY <1>3, <1>4, <2>1, <2>3
<1>6. \A y \in S : x <= y
  BY <1>5
<1> QED BY <1>6

\* What holds of 0, and of n + 1 when it holds of n, holds of every natural number.
LEMMA Induct == ASSUME NEW S, 0 \in S, \A n \in S : n + 1 \in S PROVE Nat \subseteq S
<1> SUFFICES ASSUME Nat \ S # {} PROVE FALSE
  OBVIOUS
<1>1. PICK x \in Nat \ S : \A y \in Nat \ S : x <= y
  BY Least
<1>2. x # 0 /\ x - 1 \in Nat
  BY <1>1
<1>3. x - 1 \in S
  BY <1>1, <1>2
<1> QED BY <1>1, <1>3

-----------------------------------------------------------------------------
(* Quotients and remainders *)

LEMMA DivUnique ==
  ASSUME NEW x \in Nat, NEW n \in Nat \ {0}, NEW q \in Nat, NEW r \in 0..(n - 1), x = n * q + r
  PROVE  x \div n = q /\ x % n = r
OBVIOUS

LEMMA DivMod ==
  ASSUME NEW x \in Nat, NEW n \in Nat \ {0}
  PROVE  x \div n \in Nat /\ x % n \in 0..(n - 1) /\ x = n * (x \div n) + (x % n)
<1> DEFINE P == {y \in Nat : \E q \in Nat, r \in 0..(n - 1) : y = n * q + r}
<1>1. 0 \in P
  BY 0 = n * 0 + 0
<1>2. ASSUME NEW y \in P PROVE y + 1 \in P
  <2>1. PICK q \in Nat, r \in 0..(n - 1) : y = n * q + r
    OBVIOUS
  <2>2. CASE r + 1 < n
    <3>1. r + 1 \in 0..(n - 1) /\ y + 1 = n * q + (r + 1)
      BY <2>1, <2>2
    <3> QED BY <3>1
  <2>3. CASE r + 1 = n
    <3>1. PICK p \in Nat : p = q + 1
      OBVIOUS
    <3>2. 0 \in 0..(n - 1) /\ y + 1 = n * p + 0
      BY <2>1, <2>3, <3>1
    <3> QED BY <3>2
  <2> QED BY <2>2, <2>3
<1> HIDE DEF P
<1>3. Nat \subseteq P
  BY <1>1, <1>2, Induct
<1>4. PICK q \in Nat, r \in 0..(n - 1) : x = n * q + r
  BY <1>3 DEF P
<1> DEFINE d == x \div n
           e == x % n
<1>5. d = q /\ e = r
  BY <1>4, DivUnique
<1> HIDE DEF d, e
<1>6. d \in Nat /\ e \in 0..(n - 1) /\ x = n * d + e
  BY <1>4, <1>5
<1> QED BY <1>6 DEF d, e

LEMMA DivLess ==
  ASSUME NEW x \in Nat, NEW n \in Nat \ {0}, NEW m \in Nat, x < n * m
  PROVE  x \div n < m
<1> DEFINE q == x \div n
<1>1. q \in Nat /\ n * q <= x
  BY DivMod
<1> HIDE DEF q
<1>2. ASSUME q >= m PROVE FALSE
  <2>1. n * (q - m) >= 0
    BY <1>1, <1>2
  <2> QED BY <1>1, <2>1
<1> QED BY <1>1, <1>2 DEF q

\* Whole multiples do not change a remainder.
LEMMA ModShift ==
  ASSUME NEW x \in Nat, NEW n \in Nat \ {0}, NEW k \in Nat
  PROVE  (x + n * k) % n = x % n /\ (x + n * k) \div n = x \div n + k
<1> DEFINE q == x \div n
           r == x % n
<1>1. q \in Nat /\ r \in 0..(n - 1) /\ x = n * q + r
  BY DivMod
<1> HIDE DEF q, r
<1>2. x + n * k = n * (q + k) + r /\ q + k \in Nat /\ x + n * k \in Nat
  BY <1>1
<1>3. (x + n * k) \div n = q + k /\ (x + n * k) % n = r
  BY <1>1, <1>2, DivUnique
<1> QED BY <1>3 DEF q, r

LEMMA ModMod ==
  ASSUME NEW x \in Nat, NEW n \in Nat \ {0}, NEW m \in Nat \ {0}
  PROVE  (x % (n * m)) % n = x % n
<1> DEFINE s == n * m
           q == x \div s
           r == x % s
<1>1. s \in Nat \ {0}
  OBVIOUS
<1>2. q \in Nat /\ r \in Nat /\ x = s * q + r
  <2> HIDE DEF s
  <2> QED BY <1>1, DivMod
<1>3. x = r + n * (m * q) /\ m * q \in Nat
  <2> HIDE DEF q, r
  <2> QED BY <1>2 DEF s
<1>4. (r + n * (m * q)) % n = r % n
  BY <1>2, <1>3, ModShift
<1> QED BY <1>3, <1>4

\* Only the remainder of a number counts for that of a sum.
LEMMA ModPlus ==
  ASSUME NEW x \in Nat, NEW y \in Nat, NEW n \in Nat \ {0}
  PROVE  ((x % n) + y) % n = (x + y) % n
<1> DEFINE q == x \div n
           r == x % n
<1>1. q \in Nat /\ r \in Nat /\ x = n * q + r
  BY DivMod
<1> HIDE DEF q, r
<1>2. x + y = (r + y) + n * q /\ r + y \in Nat
  BY <1>1
<1>3. ((r + y) + n * q) % n = (r + y) % n
  BY <1>1, <1>2, ModShift
<1> QED BY <1>2, <1>3 DEF r

-----------------------------------------------------------------------------
(* Sums *)

\* f is the function that Plus counts up with, as far as m
PlusTo(s, f, m) == f = [n \in 0..m |-> IF n = 0 THEN 0 ELSE f[n - 1] + s[n]]

LEMMA PlusExists == ASSUME NEW s PROVE \A m \in Nat : \E f : PlusTo(s, f, m)
<1> DEFINE P == {m \in Nat : \E f : PlusTo(s, f, m)}
<1>1. 0 \in P
  <2> DEFINE f == [n \in 0..0 |-> 0]
  <2>1. PlusTo(s, f, 0)
    BY DEF PlusTo
  <2> QED BY <2>1
<1>2. ASSUME NEW m \in P PROVE m + 1 \in P
  <2>1. PICK f : PlusTo(s, f, m)
    OBVIOUS
  <2> DEFINE g == [n \in 0..(m + 1) |-> IF n <= m THEN f[n] ELSE f[m] + s[m + 1]]
  <2>2. ASSUME NEW n \in 0..(m + 1)
        PROVE  g[n] = IF n = 0 THEN 0 ELSE g[n - 1] + s[n]
    <3>1. CASE n = 0
      BY <2>1, <3>1 DEF PlusTo
    <3>2. CASE n \in 1..m
      <4>1. n \in 0..m /\ n - 1 \in 0..m /\ n # 0
        BY <3>2
      <4>2. g[n] = f[n] /\ g[n - 1] = f[n - 1]
        BY <4>1
      <4>3. f[n] = f[n - 1] + s[n]
        <5> HIDE DEF g
        <5> QED BY <2>1, <4>1 DEF PlusTo
      <4> QED BY <4>1, <4>2, <4>3, Zenon
    <3>3. CASE n = m + 1
      <4>1. m \in Nat /\ n \notin 0..m /\ n - 1 = m /\ m \in 0..(m + 1) /\ n # 0 /\ m \in 0..m
        BY <3>3
      <4>2. g[n] = f[m] + s[m + 1] /\ g[m] = f[m]
        BY <4>1, <3>3
      <4> QED BY <4>1, <4>2, <3>3, Zenon
    <3> QED BY <3>1, <3>2, <3>3
  <2>3. PlusTo(s, g, m + 1)
    <3>1. g = [n \in 0..(m + 1) |-> g[n]]
      OBVIOUS
    <3> HIDE DEF g
    <3>2. [n \in 0..(m + 1) |-> g[n]]
            = [n \in 0..(m + 1) |-> IF n = 0 THEN 0 ELSE g[n - 1] + s[n]]
      BY <2>2, Zenon
    <3> QED BY <3>1, <3>2, Zenon DEF PlusTo
  <2> QED BY <2>3
<1> HIDE DEF P
<1>3. Nat \subseteq P
  BY <1>1, <1>2, Induct
<1> QED BY <1>3 DEF P

\* Sequences that agree so far are counted through alike.
LEMMA PlusUnique ==
  ASSUME NEW s, NEW t, NEW f, NEW g, NEW m \in Nat, NEW k \in Nat, m <= k,
         PlusTo(s, f, m), PlusTo(t, g, k), \A i \in 1..m : s[i] = t[i]
  PROVE  \A n \in 0..m : f[n] = g[n]
<1> DEFINE P == {n \in Nat : n <= m => f[n] = g[n]}
<1>1. 0 \in P
  BY DEF PlusTo
<1>2. ASSUME NEW n \in P PROVE n + 1 \in P
  <2>1. SUFFICES ASSUME n + 1 <= m PROVE f[n + 1] = g[n + 1]
    OBVIOUS
  <2>2. /\ n + 1 \in 0..m /\ n + 1 \in 0..k /\ n + 1 # 0 /\ (n + 1) - 1 = n
        /\ f[n] = g[n] /\ s[n + 1] = t[n + 1]
    BY <2>1
  <2>3. f[n + 1] = f[n] + s[n + 1]
    <3>1. f[n + 1] = IF n + 1 = 0 THEN 0 ELSE f[(n + 1) - 1] + s[n + 1]
      BY <2>2, Zenon DEF PlusTo
    <3> QED BY <2>2, <3>1, Zenon
  <2>4. g[n + 1] = g[n] + t[n + 1]
    <3>1. g[n + 1] = IF n + 1 = 0 THEN 0 ELSE g[(n + 1) - 1] + t[n + 1]
      BY <2>2, Zenon DEF PlusTo
    <3> QED BY <2>2, <3>1, Zenon
  <2> QED BY <2>2, <2>3, <2>4, Zenon
<1> HIDE DEF P
<1>3. Nat \subseteq P
  BY <1>1, <1>2, Induct
<1> QED BY <1>3 DEF P

LEMMA PlusIs ==
  ASSUME NEW s, Len(s) \in Nat, NEW f, PlusTo(s, f, Len(s))
  PROVE  Plus(s) = f[Len(s)]
<1>1. PICK g : PlusTo(s, g, Len(s)) /\ Plus(s) = g[Len(s)]
  BY Zenon DEF Plus, Through, PlusTo
<1>2. g[Len(s)] = f[Len(s)]
  BY <1>1, PlusUnique
<1> QED BY <1>1, <1>2

LEMMA PlusNone == ASSUME NEW s, Len(s) = 0 PROVE Plus(s) = 0
<1>1. PICK f : PlusTo(s, f, Len(s))
  BY PlusExists
<1>2. Plus(s) = f[Len(s)]
  BY <1>1, PlusIs
<1>3. f[0] = 0
  BY <1>1 DEF PlusTo
<1> QED BY <1>2, <1>3

LEMMA PlusOne ==
  ASSUME NEW s, NEW t, Len(s) \in Nat, Len(t) = Len(s) + 1, \A i \in 1..Len(s) : s[i] = t[i]
  PROVE  Plus(t) = Plus(s) + t[Len(s) + 1]
<1>1. PICK f : PlusTo(s, f, Len(s))
  BY PlusExists
<1>2. PICK g : PlusTo(t, g, Len(s) + 1)
  BY PlusExists
<1>3. Plus(s) = f[Len(s)] /\ Plus(t) = g[Len(s) + 1]
  BY <1>1, <1>2, PlusIs
<1>4. f[Len(s)] = g[Len(s)]
  BY <1>1, <1>2, PlusUnique
<1>5. Len(s) + 1 \in 0..(Len(s) + 1) /\ Len(s) + 1 # 0 /\ (Len(s) + 1) - 1 = Len(s)
  OBVIOUS
<1>6. g[Len(s) + 1] = g[Len(s)] + t[Len(s) + 1]
  <2>1. g[Len(s) + 1] = IF Len(s) + 1 = 0 THEN 0
                        ELSE g[(Len(s) + 1) - 1] + t[Len(s) + 1]
    BY <1>2, <1>5, Zenon DEF PlusTo
  <2> QED BY <1>5, <2>1, Zenon
<1> QED BY <1>3, <1>4, <1>6, Zenon

LEMMA PlusNat ==
  ASSUME NEW s, Len(s) \in Nat, \A i \in 1..Len(s) : s[i] \in Nat
  PROVE  Plus(s) \in Nat
<1>1. PICK f : PlusTo(s, f, Len(s))
  BY PlusExists
<1> DEFINE P == {n \in Nat : n <= Len(s) => f[n] \in Nat}
<1>2. 0 \in P
  BY <1>1 DEF PlusTo
<1>3. ASSUME NEW n \in P PROVE n + 1 \in P
  <2>1. SUFFICES ASSUME n + 1 <= Len(s) PROVE f[n + 1] \in Nat
    OBVIOUS
  <2>2. n + 1 \in 1..Len(s) /\ n + 1 \in 0..Len(s) /\ n + 1 # 0 /\ (n + 1) - 1 = n /\ f[n] \in Nat
    BY <2>1
  <2>3. f[n + 1] = f[n] + s[n + 1]
    <3>1. f[n + 1] = IF n + 1 = 0 THEN 0 ELSE f[(n + 1) - 1] + s[n + 1]
      BY <1>1, <2>2, Zenon DEF PlusTo
    <3> QED BY <2>2, <3>1
  <2>4. s[n + 1] \in Nat
    BY <2>2
  <2> QED BY <2>2, <2>3, <2>4
<1> HIDE DEF P
<1>4. Nat \subseteq P
  BY <1>2, <1>3, Induct
<1>5. f[Len(s)] \in Nat
  BY <1>4 DEF P
<1> QED BY <1>1, <1>5, PlusIs

LEMMA PlusSame ==
  ASSUME NEW s, NEW t, Len(s) \in Nat, Len(t) = Len(s), \A i \in 1..Len(s) : s[i] = t[i]
  PROVE  Plus(s) = Plus(t)
<1>1. PICK f : PlusTo(s, f, Len(s))
  BY PlusExists
<1>2. PICK g : PlusTo(t, g, Len(t))
  BY PlusExists
<1>3. f[Len(s)] = g[Len(s)]
  BY <1>1, <1>2, PlusUnique
<1> QED BY <1>1, <1>2, <1>3, PlusIs

-----------------------------------------------------------------------------
(* Sizes *)

LEMMA Sizes ==
  /\ Nibble \in Nat \ {0} /\ Byte \in Nat \ {0} /\ Seg \in Nat \ {0} /\ Limit \in Nat \ {0}
  /\ BlkSize \in Nat \ {0} /\ Line \in Nat \ {0} /\ AsmLine \in Nat \ {0}
  /\ Line <= BlkSize /\ AsmLine <= BlkSize /\ Line + 4 < Byte
  /\ Byte = Nibble * Nibble /\ Seg = Byte * Byte /\ Seg <= Limit /\ Limit <= Seg * Nibble
  /\ Byte <= Seg
  /\ Bytes = 0..(Byte - 1)
  /\ Limit % BlkSize = 0 /\ Seg % BlkSize = 0
<1>1. /\ Nibble \in Nat \ {0} /\ Byte = Nibble * Nibble /\ BlkSize \in Nat \ {0}
      /\ Limit \in Seg..(Seg * Nibble) /\ Line \in 1..BlkSize /\ AsmLine \in 1..BlkSize
      /\ Line + 4 < Byte
  BY ObjToHexAssumption
<1>2. Byte \in Nat \ {0}
  BY <1>1
<1>3. Seg \in Nat \ {0} /\ Byte <= Seg
  <2>1. \A x \in Nat \ {0} : x * x \in Nat \ {0} /\ x <= x * x
    OBVIOUS
  <2> QED BY <1>2, <2>1 DEF Seg
<1>4. Seg * Nibble \in Nat
  BY <1>1, <1>3
<1>5. Limit \in Nat \ {0} /\ Seg <= Limit /\ Limit <= Seg * Nibble
  BY <1>1, <1>3, <1>4
<1>6. Limit % BlkSize = 0 /\ Seg % BlkSize = 0
  BY ObjToHexAssumption
<1> QED BY <1>1, <1>2, <1>3, <1>5, <1>6 DEF Seg, Bytes

LEMMA InBlock ==
  ASSUME NEW a \in 0..(Limit - 1)
  PROVE  /\ a \div BlkSize \in Blocks /\ a % BlkSize \in 0..(BlkSize - 1)
         /\ a = (a \div BlkSize) * BlkSize + (a % BlkSize)
<1> DEFINE q == a \div BlkSize
           r == a % BlkSize
           n == Limit \div BlkSize
<1>1. BlkSize \in Nat \ {0} /\ Limit \in Nat \ {0} /\ Limit % BlkSize = 0
  BY Sizes
<1>2. q \in Nat /\ r \in 0..(BlkSize - 1) /\ a = BlkSize * q + r
  <2>1. a \in Nat
    BY <1>1
  <2> QED BY <1>1, <2>1, DivMod, Zenon
<1>3. n \in Nat /\ Limit = BlkSize * n
  BY <1>1, DivMod
<1>4. q < n
  BY <1>1, <1>3, DivLess
<1>5. q \in 0..(n - 1)
  <2> HIDE DEF q, n, r
  <2> QED BY <1>2, <1>3, <1>4
<1>6. a = q * BlkSize + r
  <2> HIDE DEF q, n, r
  <2> QED BY <1>1, <1>2
<1> QED BY <1>2, <1>5, <1>6 DEF Blocks

\* the place of a byte in a block, and the block of a place
LEMMA BlockOf ==
  ASSUME NEW b \in Blocks, NEW i \in 0..(BlkSize - 1)
  PROVE  /\ b \in Nat /\ b * BlkSize + i \in 0..(Limit - 1)
         /\ (b * BlkSize + i) \div BlkSize = b /\ (b * BlkSize + i) % BlkSize = i
<1> DEFINE n == Limit \div BlkSize
<1>1. BlkSize \in Nat \ {0} /\ Limit \in Nat \ {0} /\ Limit % BlkSize = 0
  BY Sizes
<1>2. n \in Nat /\ Limit = BlkSize * n
  BY <1>1, DivMod
<1>3. b \in 0..(n - 1)
  BY DEF Blocks
<1> HIDE DEF n
<1>4. b \in Nat /\ b * BlkSize + i \in Nat /\ b * BlkSize + i = BlkSize * b + i
  BY <1>1, <1>2, <1>3
<1>5. b * BlkSize + i < Limit
  <2>1. (n - (b + 1)) * BlkSize >= 0
    BY <1>1, <1>2, <1>3
  <2>2. (n - (b + 1)) * BlkSize = Limit - b * BlkSize - BlkSize
    BY <1>1, <1>2, <1>3
  <2> QED BY <1>1, <1>4, <2>1, <2>2
<1> QED BY <1>1, <1>4, <1>5, DivUnique

-----------------------------------------------------------------------------
(* What a loader makes of the lines *)

\* f is the function that LoadAll counts up with, as far as m
LoadTo(s, f, m, base) == f = [n \in 0..m |-> IF n = 0 THEN [base |-> base, image |-> <<>>] ELSE LoadLine(f[n - 1], s[n])]

LEMMA LoadExists == ASSUME NEW base, NEW s PROVE \A m \in Nat : \E f : LoadTo(s, f, m, base)
<1> DEFINE P == {m \in Nat : \E f : LoadTo(s, f, m, base)}
<1>1. 0 \in P
  <2> DEFINE f == [n \in 0..0 |-> [base |-> base, image |-> <<>>]]
  <2>1. LoadTo(s, f, 0, base)
    BY DEF LoadTo
  <2> QED BY <2>1
<1>2. ASSUME NEW m \in P PROVE m + 1 \in P
  <2>1. PICK f : LoadTo(s, f, m, base)
    OBVIOUS
  <2> DEFINE g == [n \in 0..(m + 1) |-> IF n <= m THEN f[n] ELSE LoadLine(f[m], s[m + 1])]
  <2>2. ASSUME NEW n \in 0..(m + 1)
        PROVE  g[n] = IF n = 0 THEN [base |-> base, image |-> <<>>] ELSE LoadLine(g[n - 1], s[n])
    <3>1. CASE n = 0
      BY <2>1, <3>1 DEF LoadTo
    <3>2. CASE n \in 1..m
      <4>1. n \in 0..m /\ n - 1 \in 0..m /\ n # 0
        BY <3>2
      <4>2. g[n] = f[n] /\ g[n - 1] = f[n - 1]
        BY <4>1
      <4>3. f[n] = LoadLine(f[n - 1], s[n])
        <5> HIDE DEF g
        <5> QED BY <2>1, <4>1 DEF LoadTo
      <4> QED BY <4>1, <4>2, <4>3, Zenon
    <3>3. CASE n = m + 1
      <4>1. m \in Nat /\ n \notin 0..m /\ n - 1 = m /\ m \in 0..(m + 1) /\ n # 0 /\ m \in 0..m
        BY <3>3
      <4>2. g[n] = LoadLine(f[m], s[m + 1]) /\ g[m] = f[m]
        BY <4>1, <3>3
      <4> QED BY <4>1, <4>2, <3>3, Zenon
    <3> QED BY <3>1, <3>2, <3>3
  <2>3. LoadTo(s, g, m + 1, base)
    <3>1. g = [n \in 0..(m + 1) |-> g[n]]
      OBVIOUS
    <3> HIDE DEF g
    <3>2. [n \in 0..(m + 1) |-> g[n]]
            = [n \in 0..(m + 1) |-> IF n = 0 THEN [base |-> base, image |-> <<>>] ELSE LoadLine(g[n - 1], s[n])]
      BY <2>2, Zenon
    <3> QED BY <3>1, <3>2, Zenon DEF LoadTo
  <2> QED BY <2>3
<1> HIDE DEF P
<1>3. Nat \subseteq P
  BY <1>1, <1>2, Induct
<1> QED BY <1>3 DEF P

\* Sequences that agree so far are counted through alike.
LEMMA LoadUnique ==
  ASSUME NEW base, NEW s, NEW t, NEW f, NEW g, NEW m \in Nat, NEW k \in Nat, m <= k,
         LoadTo(s, f, m, base), LoadTo(t, g, k, base), \A i \in 1..m : s[i] = t[i]
  PROVE  \A n \in 0..m : f[n] = g[n]
<1> DEFINE P == {n \in Nat : n <= m => f[n] = g[n]}
<1>1. 0 \in P
  BY DEF LoadTo
<1>2. ASSUME NEW n \in P PROVE n + 1 \in P
  <2>1. SUFFICES ASSUME n + 1 <= m PROVE f[n + 1] = g[n + 1]
    OBVIOUS
  <2>2. /\ n + 1 \in 0..m /\ n + 1 \in 0..k /\ n + 1 # 0 /\ (n + 1) - 1 = n
        /\ f[n] = g[n] /\ s[n + 1] = t[n + 1]
    BY <2>1
  <2>3. f[n + 1] = LoadLine(f[n], s[n + 1])
    <3>1. f[n + 1] = IF n + 1 = 0 THEN [base |-> base, image |-> <<>>] ELSE LoadLine(f[(n + 1) - 1], s[n + 1])
      BY <2>2, Zenon DEF LoadTo
    <3> QED BY <2>2, <3>1, Zenon
  <2>4. g[n + 1] = LoadLine(g[n], t[n + 1])
    <3>1. g[n + 1] = IF n + 1 = 0 THEN [base |-> base, image |-> <<>>] ELSE LoadLine(g[(n + 1) - 1], t[n + 1])
      BY <2>2, Zenon DEF LoadTo
    <3> QED BY <2>2, <3>1, Zenon
  <2> QED BY <2>2, <2>3, <2>4, Zenon
<1> HIDE DEF P
<1>3. Nat \subseteq P
  BY <1>1, <1>2, Induct
<1> QED BY <1>3 DEF P

LEMMA LoadIs ==
  ASSUME NEW base, NEW s, Len(s) \in Nat, NEW f, LoadTo(s, f, Len(s), base)
  PROVE  LoadAll(base, s) = f[Len(s)]
<1>1. PICK g : LoadTo(s, g, Len(s), base) /\ LoadAll(base, s) = g[Len(s)]
  BY Zenon DEF LoadAll, Through, LoadTo
<1>2. g[Len(s)] = f[Len(s)]
  BY <1>1, LoadUnique
<1> QED BY <1>1, <1>2

LEMMA LoadNone == ASSUME NEW base, NEW s, Len(s) = 0 PROVE LoadAll(base, s) = [base |-> base, image |-> <<>>]
<1>1. PICK f : LoadTo(s, f, Len(s), base)
  BY LoadExists
<1>2. LoadAll(base, s) = f[Len(s)]
  BY <1>1, LoadIs
<1>3. f[0] = [base |-> base, image |-> <<>>]
  BY <1>1 DEF LoadTo
<1> QED BY <1>2, <1>3

LEMMA LoadOne ==
  ASSUME NEW base, NEW s, NEW t, Len(s) \in Nat, Len(t) = Len(s) + 1, \A i \in 1..Len(s) : s[i] = t[i]
  PROVE  LoadAll(base, t) = LoadLine(LoadAll(base, s), t[Len(s) + 1])
<1>1. PICK f : LoadTo(s, f, Len(s), base)
  BY LoadExists
<1>2. PICK g : LoadTo(t, g, Len(s) + 1, base)
  BY LoadExists
<1>3. LoadAll(base, s) = f[Len(s)] /\ LoadAll(base, t) = g[Len(s) + 1]
  BY <1>1, <1>2, LoadIs
<1>4. f[Len(s)] = g[Len(s)]
  BY <1>1, <1>2, LoadUnique
<1>5. Len(s) + 1 \in 0..(Len(s) + 1) /\ Len(s) + 1 # 0 /\ (Len(s) + 1) - 1 = Len(s)
  OBVIOUS
<1>6. g[Len(s) + 1] = LoadLine(g[Len(s)], t[Len(s) + 1])
  <2>1. g[Len(s) + 1] = IF Len(s) + 1 = 0 THEN [base |-> base, image |-> <<>>]
                        ELSE LoadLine(g[(Len(s) + 1) - 1], t[Len(s) + 1])
    BY <1>2, <1>5, Zenon DEF LoadTo
  <2> QED BY <1>5, <2>1, Zenon
<1> QED BY <1>3, <1>4, <1>6, Zenon

-----------------------------------------------------------------------------
(* Blocks *)

\* f is the function that PutMem counts up with, as far as m
PutTo(s, f, m, m0, data, at) == f = [n \in 0..m |-> IF n = 0 THEN m0 ELSE PutBlock(f[n - 1], s[n], data, at)]

LEMMA PutExists == ASSUME NEW m0, NEW data, NEW at, NEW s PROVE \A m \in Nat : \E f : PutTo(s, f, m, m0, data, at)
<1> DEFINE P == {m \in Nat : \E f : PutTo(s, f, m, m0, data, at)}
<1>1. 0 \in P
  <2> DEFINE f == [n \in 0..0 |-> m0]
  <2>1. PutTo(s, f, 0, m0, data, at)
    BY DEF PutTo
  <2> QED BY <2>1
<1>2. ASSUME NEW m \in P PROVE m + 1 \in P
  <2>1. PICK f : PutTo(s, f, m, m0, data, at)
    OBVIOUS
  <2> DEFINE g == [n \in 0..(m + 1) |-> IF n <= m THEN f[n] ELSE PutBlock(f[m], s[m + 1], data, at)]
  <2>2. ASSUME NEW n \in 0..(m + 1)
        PROVE  g[n] = IF n = 0 THEN m0 ELSE PutBlock(g[n - 1], s[n], data, at)
    <3>1. CASE n = 0
      BY <2>1, <3>1 DEF PutTo
    <3>2. CASE n \in 1..m
      <4>1. n \in 0..m /\ n - 1 \in 0..m /\ n # 0
        BY <3>2
      <4>2. g[n] = f[n] /\ g[n - 1] = f[n - 1]
        BY <4>1
      <4>3. f[n] = PutBlock(f[n - 1], s[n], data, at)
        <5> HIDE DEF g
        <5> QED BY <2>1, <4>1 DEF PutTo
      <4> QED BY <4>1, <4>2, <4>3, Zenon
    <3>3. CASE n = m + 1
      <4>1. m \in Nat /\ n \notin 0..m /\ n - 1 = m /\ m \in 0..(m + 1) /\ n # 0 /\ m \in 0..m
        BY <3>3
      <4>2. g[n] = PutBlock(f[m], s[m + 1], data, at) /\ g[m] = f[m]
        BY <4>1, <3>3
      <4> QED BY <4>1, <4>2, <3>3, Zenon
    <3> QED BY <3>1, <3>2, <3>3
  <2>3. PutTo(s, g, m + 1, m0, data, at)
    <3>1. g = [n \in 0..(m + 1) |-> g[n]]
      OBVIOUS
    <3> HIDE DEF g
    <3>2. [n \in 0..(m + 1) |-> g[n]]
            = [n \in 0..(m + 1) |-> IF n = 0 THEN m0 ELSE PutBlock(g[n - 1], s[n], data, at)]
      BY <2>2, Zenon
    <3> QED BY <3>1, <3>2, Zenon DEF PutTo
  <2> QED BY <2>3
<1> HIDE DEF P
<1>3. Nat \subseteq P
  BY <1>1, <1>2, Induct
<1> QED BY <1>3 DEF P

\* Sequences that agree so far are counted through alike.
LEMMA PutUnique ==
  ASSUME NEW m0, NEW data, NEW at, NEW s, NEW t, NEW f, NEW g, NEW m \in Nat, NEW k \in Nat, m <= k,
         PutTo(s, f, m, m0, data, at), PutTo(t, g, k, m0, data, at), \A i \in 1..m : s[i] = t[i]
  PROVE  \A n \in 0..m : f[n] = g[n]
<1> DEFINE P == {n \in Nat : n <= m => f[n] = g[n]}
<1>1. 0 \in P
  BY DEF PutTo
<1>2. ASSUME NEW n \in P PROVE n + 1 \in P
  <2>1. SUFFICES ASSUME n + 1 <= m PROVE f[n + 1] = g[n + 1]
    OBVIOUS
  <2>2. /\ n + 1 \in 0..m /\ n + 1 \in 0..k /\ n + 1 # 0 /\ (n + 1) - 1 = n
        /\ f[n] = g[n] /\ s[n + 1] = t[n + 1]
    BY <2>1
  <2>3. f[n + 1] = PutBlock(f[n], s[n + 1], data, at)
    <3>1. f[n + 1] = IF n + 1 = 0 THEN m0 ELSE PutBlock(f[(n + 1) - 1], s[n + 1], data, at)
      BY <2>2, Zenon DEF PutTo
    <3> QED BY <2>2, <3>1, Zenon
  <2>4. g[n + 1] = PutBlock(g[n], t[n + 1], data, at)
    <3>1. g[n + 1] = IF n + 1 = 0 THEN m0 ELSE PutBlock(g[(n + 1) - 1], t[n + 1], data, at)
      BY <2>2, Zenon DEF PutTo
    <3> QED BY <2>2, <3>1, Zenon
  <2> QED BY <2>2, <2>3, <2>4, Zenon
<1> HIDE DEF P
<1>3. Nat \subseteq P
  BY <1>1, <1>2, Induct
<1> QED BY <1>3 DEF P

LEMMA PutIs ==
  ASSUME NEW m0, NEW data, NEW at, NEW s, Len(s) \in Nat, NEW f, PutTo(s, f, Len(s), m0, data, at)
  PROVE  PutBlocks(m0, s, data, at) = f[Len(s)]
<1>1. PICK g : PutTo(s, g, Len(s), m0, data, at) /\ PutBlocks(m0, s, data, at) = g[Len(s)]
  BY Zenon DEF PutBlocks, Through, PutTo
<1>2. g[Len(s)] = f[Len(s)]
  BY <1>1, PutUnique
<1> QED BY <1>1, <1>2

LEMMA PutNone == ASSUME NEW m0, NEW data, NEW at, NEW s, Len(s) = 0 PROVE PutBlocks(m0, s, data, at) = m0
<1>1. PICK f : PutTo(s, f, Len(s), m0, data, at)
  BY PutExists
<1>2. PutBlocks(m0, s, data, at) = f[Len(s)]
  BY <1>1, PutIs
<1>3. f[0] = m0
  BY <1>1 DEF PutTo
<1> QED BY <1>2, <1>3

LEMMA PutOne ==
  ASSUME NEW m0, NEW data, NEW at, NEW s, NEW t, Len(s) \in Nat, Len(t) = Len(s) + 1, \A i \in 1..Len(s) : s[i] = t[i]
  PROVE  PutBlocks(m0, t, data, at) = PutBlock(PutBlocks(m0, s, data, at), t[Len(s) + 1], data, at)
<1>1. PICK f : PutTo(s, f, Len(s), m0, data, at)
  BY PutExists
<1>2. PICK g : PutTo(t, g, Len(s) + 1, m0, data, at)
  BY PutExists
<1>3. PutBlocks(m0, s, data, at) = f[Len(s)] /\ PutBlocks(m0, t, data, at) = g[Len(s) + 1]
  BY <1>1, <1>2, PutIs
<1>4. f[Len(s)] = g[Len(s)]
  BY <1>1, <1>2, PutUnique
<1>5. Len(s) + 1 \in 0..(Len(s) + 1) /\ Len(s) + 1 # 0 /\ (Len(s) + 1) - 1 = Len(s)
  OBVIOUS
<1>6. g[Len(s) + 1] = PutBlock(g[Len(s)], t[Len(s) + 1], data, at)
  <2>1. g[Len(s) + 1] = IF Len(s) + 1 = 0 THEN m0
                        ELSE PutBlock(g[(Len(s) + 1) - 1], t[Len(s) + 1], data, at)
    BY <1>2, <1>5, Zenon DEF PutTo
  <2> QED BY <1>5, <2>1, Zenon
<1> QED BY <1>3, <1>4, <1>6, Zenon

\* Blocks with a buffer of their own, unless something went wrong.
MemOK(m) ==
  /\ m \in [ptr : [Blocks -> Nat], loaded : SUBSET Blocks,
            buf : Seq([0..(BlkSize - 1) -> Bytes]),
            fault : {"none", "null", "memory", "big"}, swapped : BOOLEAN]
  /\ Len(m.buf) <= job.bufs
  /\ \A b \in Blocks : m.ptr[b] <= Len(m.buf)
  /\ m.fault = "none" => \A b \in m.loaded : m.ptr[b] # 0
  /\ m.fault = "none" => \A b, c \in m.loaded : m.ptr[b] = m.ptr[c] => b = c

\* The blocks in memory are those of the image im, and nothing of it is in a block that was
\* never asked for.
Shows(m, im) ==
  /\ \A b \in m.loaded, i \in 0..(BlkSize - 1) : m.buf[m.ptr[b]][i] = ByteAt(im, b * BlkSize + i)
  /\ \A a \in DOMAIN im : a \div BlkSize \in Blocks /\ m.ptr[a \div BlkSize] # 0

\* l is m with block b in memory
LoadedFrom(m, l, b) ==
  /\ b \in l.loaded
  /\ \A c \in Blocks : m.ptr[c] # 0 => l.ptr[c] # 0
  /\ \A c \in l.loaded : \/ c \in m.loaded /\ l.buf[l.ptr[c]] = m.buf[m.ptr[c]]
                         \/ c = b /\ m.ptr[b] = 0 /\ l.buf[l.ptr[c]] = Zeros

LEMMA ZerosType == Zeros \in [0..(BlkSize - 1) -> Bytes]
<1>1. 0 \in Bytes
  BY Sizes
<1> QED BY <1>1 DEF Zeros

LEMMA MinIn ==
  ASSUME NEW S, S \subseteq Nat, S # {}
  PROVE  Min(S) \in S /\ \A y \in S : Min(S) <= y
<1>1. \E x \in S : \A y \in S : x <= y
  BY Least
<1> QED BY <1>1 DEF Min

\* loadBlk leaves every buffer to one block, and what the blocks in memory hold.
LEMMA LoadOK ==
  ASSUME NEW m, MemOK(m), m.fault = "none", NEW b \in Blocks, job.bufs \in Nat
  PROVE  /\ MemOK(Load(m, b))
         /\ Load(m, b).fault \in {"none", "null", "memory"}
         /\ Load(m, b).fault = "none" => LoadedFrom(m, Load(m, b), b)
<1> DEFINE l == Load(m, b)
           Block == [0..(BlkSize - 1) -> Bytes]
<1>0. /\ m.ptr \in [Blocks -> Nat] /\ m.loaded \subseteq Blocks /\ m.buf \in Seq(Block)
      /\ Len(m.buf) \in Nat
      /\ \A c \in Blocks : m.ptr[c] \in 0..Len(m.buf)
      /\ \A c \in m.loaded : m.ptr[c] # 0
      /\ \A c, d \in m.loaded : m.ptr[c] = m.ptr[d] => c = d
      /\ Zeros \in Block /\ m.fault = "none" /\ Len(m.buf) <= job.bufs
  <2>1. m.buf \in Seq(Block) /\ m.ptr \in [Blocks -> Nat]
    BY DEF MemOK
  <2> QED BY <2>1, ZerosType DEF MemOK
<1>r. m = [ptr |-> m.ptr, loaded |-> m.loaded, buf |-> m.buf, fault |-> m.fault,
           swapped |-> m.swapped]
  BY DEF MemOK
<1>s. m.swapped \in BOOLEAN
  BY DEF MemOK
<1> HIDE DEF Block
<1>1. CASE m.ptr[b] # 0 /\ b \in m.loaded
  <2>1. l = m
    BY <1>1 DEF Load
  <2>2. LoadedFrom(m, m, b)
    BY <1>1 DEF LoadedFrom
  <2> QED BY <1>0, <2>1, <2>2
<1>2. CASE m.ptr[b] # 0 /\ b \notin m.loaded
  <2>1. l = [m EXCEPT !.ptr[b] = 0, !.loaded = @ \cup {b}, !.fault = "null"]
    BY <1>0, <1>2 DEF Load
  <2>2. /\ l.ptr = [m.ptr EXCEPT ![b] = 0] /\ l.loaded = m.loaded \cup {b} /\ l.buf = m.buf
        /\ l.fault = "null" /\ l.swapped = m.swapped
        /\ l = [ptr |-> l.ptr, loaded |-> l.loaded, buf |-> l.buf, fault |-> l.fault,
                swapped |-> l.swapped]
    BY <1>0, <1>r, <2>1
  <2> HIDE DEF l
  <2>3. MemOK(l)
    <3>1. l.ptr \in [Blocks -> Nat] /\ \A c \in Blocks : l.ptr[c] <= Len(l.buf)
      BY <1>0, <2>2
    <3>2. l \in [ptr : [Blocks -> Nat], loaded : SUBSET Blocks, buf : Seq(Block),
                 fault : {"none", "null", "memory", "big"}, swapped : BOOLEAN]
      BY <1>0, <1>s, <2>2, <3>1
    <3> QED BY <1>0, <2>2, <3>1, <3>2 DEF MemOK, Block
  <2> QED BY <2>2, <2>3 DEF l
<1>3. CASE m.ptr[b] = 0 /\ Len(m.buf) < job.bufs
  <2>1. l = [m EXCEPT !.ptr[b] = Len(m.buf) + 1, !.loaded = @ \cup {b}, !.buf = Append(@, Zeros)]
    BY <1>0, <1>3 DEF Load
  <2>2. /\ l.ptr = [m.ptr EXCEPT ![b] = Len(m.buf) + 1] /\ l.loaded = m.loaded \cup {b}
        /\ l.buf = Append(m.buf, Zeros) /\ l.fault = "none" /\ l.swapped = m.swapped
        /\ l = [ptr |-> l.ptr, loaded |-> l.loaded, buf |-> l.buf, fault |-> l.fault,
                swapped |-> l.swapped]
    BY <1>0, <1>r, <2>1
  <2> HIDE DEF l
  <2>3. /\ l.buf \in Seq(Block) /\ Len(l.buf) = Len(m.buf) + 1 /\ l.buf[Len(m.buf) + 1] = Zeros
        /\ \A i \in 1..Len(m.buf) : l.buf[i] = m.buf[i]
    BY <1>0, <2>2
  <2>4. l.ptr \in [Blocks -> Nat] /\ l.ptr[b] = Len(m.buf) + 1
        /\ \A c \in Blocks : c # b => l.ptr[c] = m.ptr[c]
    BY <1>0, <2>2
  <2>5. MemOK(l)
    <3>1. \A c \in l.loaded : l.ptr[c] # 0
      BY <1>0, <2>2, <2>4
    <3>2. \A c, d \in l.loaded : l.ptr[c] = l.ptr[d] => c = d
      <4>1. \A c \in m.loaded : c # b => l.ptr[c] = m.ptr[c] /\ l.ptr[c] # l.ptr[b]
        BY <1>0, <2>4
      <4> QED BY <1>0, <2>2, <4>1
    <3>3. \A c \in Blocks : l.ptr[c] <= Len(l.buf)
      BY <1>0, <2>3, <2>4
    <3>4. Len(l.buf) <= job.bufs
      BY <1>0, <1>3, <2>3
    <3>5. l \in [ptr : [Blocks -> Nat], loaded : SUBSET Blocks, buf : Seq(Block),
                 fault : {"none", "null", "memory", "big"}, swapped : BOOLEAN]
      BY <1>0, <1>s, <2>2, <2>3, <2>4
    <3> QED BY <3>1, <3>2, <3>3, <3>4, <3>5 DEF MemOK, Block
  <2>6. LoadedFrom(m, l, b)
    <3>1. \A c \in m.loaded : c # b => l.buf[l.ptr[c]] = m.buf[m.ptr[c]]
      BY <1>0, <2>3, <2>4
    <3>2. b \in l.loaded /\ l.buf[l.ptr[b]] = Zeros
      BY <2>2, <2>3, <2>4
    <3>3. \A c \in Blocks : m.ptr[c] # 0 => l.ptr[c] # 0
      BY <1>0, <2>4
    <3> QED BY <1>3, <2>2, <3>1, <3>2, <3>3 DEF LoadedFrom
  <2> QED BY <2>2, <2>5, <2>6 DEF l
<1>4. CASE m.ptr[b] = 0 /\ ~(Len(m.buf) < job.bufs) /\ m.loaded = {}
  <2>1. l = [m EXCEPT !.fault = "memory"]
    BY <1>0, <1>4 DEF Load
  <2>2. /\ l.ptr = m.ptr /\ l.loaded = m.loaded /\ l.buf = m.buf
        /\ l.fault = "memory" /\ l.swapped = m.swapped
        /\ l = [ptr |-> l.ptr, loaded |-> l.loaded, buf |-> l.buf, fault |-> l.fault,
                swapped |-> l.swapped]
    BY <1>0, <1>r, <2>1
  <2> HIDE DEF l
  <2>3. MemOK(l)
    BY <1>0, <1>s, <2>2 DEF MemOK, Block
  <2> QED BY <2>2, <2>3 DEF l
<1>5. CASE m.ptr[b] = 0 /\ ~(Len(m.buf) < job.bufs) /\ m.loaded # {}
  <2> DEFINE i == Min(m.loaded)
  <2>1. l = [m EXCEPT !.ptr[b] = m.ptr[i], !.loaded = (@ \ {i}) \cup {b},
                      !.buf[m.ptr[i]] = Zeros, !.swapped = TRUE]
    BY <1>0, <1>5, Zenon DEF Load
  <2>2. i \in m.loaded
    <3>1. m.loaded \subseteq Nat
      <4>1. Blocks \subseteq Nat
        BY BlockOf, Sizes DEF Blocks
      <4> QED BY <1>0, <4>1
    <3> QED BY <1>5, <3>1, MinIn
  <2> HIDE DEF i
  <2>3. /\ l.ptr = [m.ptr EXCEPT ![b] = m.ptr[i]] /\ l.loaded = (m.loaded \ {i}) \cup {b}
        /\ l.buf = [m.buf EXCEPT ![m.ptr[i]] = Zeros] /\ l.fault = "none" /\ l.swapped = TRUE
        /\ l = [ptr |-> l.ptr, loaded |-> l.loaded, buf |-> l.buf, fault |-> l.fault,
                swapped |-> l.swapped]
    BY <1>0, <1>r, <2>1
  <2> HIDE DEF l
  <2>4. i \in Blocks /\ i # b /\ m.ptr[i] \in 1..Len(m.buf) /\ b \notin m.loaded
    BY <1>0, <1>5, <2>2
  <2>5. /\ l.buf \in Seq(Block) /\ Len(l.buf) = Len(m.buf) /\ l.buf[m.ptr[i]] = Zeros
        /\ \A j \in 1..Len(m.buf) : j # m.ptr[i] => l.buf[j] = m.buf[j]
    BY <1>0, <2>3, <2>4
  <2>6. l.ptr \in [Blocks -> Nat] /\ l.ptr[b] = m.ptr[i]
        /\ \A c \in Blocks : c # b => l.ptr[c] = m.ptr[c]
    BY <1>0, <2>3, <2>4
  <2>7. \A c \in l.loaded : c # b => c \in m.loaded /\ l.ptr[c] = m.ptr[c] /\ m.ptr[c] # m.ptr[i]
    BY <1>0, <2>2, <2>3, <2>6
  <2>8. MemOK(l)
    <3>1. \A c \in l.loaded : l.ptr[c] # 0
      BY <1>0, <2>4, <2>6, <2>7
    <3>2. \A c, d \in l.loaded : l.ptr[c] = l.ptr[d] => c = d
      BY <1>0, <2>6, <2>7
    <3>3. \A c \in Blocks : l.ptr[c] <= Len(l.buf)
      BY <1>0, <2>4, <2>5, <2>6
    <3>5. l \in [ptr : [Blocks -> Nat], loaded : SUBSET Blocks, buf : Seq(Block),
                 fault : {"none", "null", "memory", "big"}, swapped : BOOLEAN]
      BY <1>0, <2>3, <2>5, <2>6
    <3> QED BY <1>0, <2>5, <3>1, <3>2, <3>3, <3>5 DEF MemOK, Block
  <2>9. LoadedFrom(m, l, b)
    <3>1. \A c \in l.loaded : c # b => l.buf[l.ptr[c]] = m.buf[m.ptr[c]]
      BY <1>0, <2>5, <2>7
    <3>2. b \in l.loaded /\ l.buf[l.ptr[b]] = Zeros
      BY <2>3, <2>5, <2>6
    <3>3. \A c \in Blocks : m.ptr[c] # 0 => l.ptr[c] # 0
      BY <1>5, <2>6
    <3> QED BY <1>5, <2>7, <3>1, <3>2, <3>3 DEF LoadedFrom
  <2> QED BY <2>3, <2>8, <2>9 DEF l
<1>6. m.ptr[b] \in Nat /\ Len(m.buf) \in Nat
  BY <1>0
<1> QED BY <1>1, <1>2, <1>3, <1>4, <1>5, <1>6

\* Loading a block leaves the image in memory what it is.
LEMMA LoadShows ==
  ASSUME NEW m, MemOK(m), m.fault = "none", NEW l, MemOK(l), NEW b \in Blocks,
         LoadedFrom(m, l, b), NEW im, Shows(m, im)
  PROVE  Shows(l, im)
<1>1. ASSUME NEW c \in l.loaded, NEW i \in 0..(BlkSize - 1)
      PROVE  l.buf[l.ptr[c]][i] = ByteAt(im, c * BlkSize + i)
  <2>1. c \in Blocks
    BY DEF MemOK
  <2>2. CASE c \in m.loaded /\ l.buf[l.ptr[c]] = m.buf[m.ptr[c]]
    BY <2>2 DEF Shows
  <2>3. CASE c = b /\ m.ptr[b] = 0 /\ l.buf[l.ptr[c]] = Zeros
    <3>1. l.buf[l.ptr[c]][i] = 0
      BY <2>3 DEF Zeros
    <3> DEFINE a == c * BlkSize + i
    <3>2. a \div BlkSize = c
      BY <2>1, BlockOf
    <3> HIDE DEF a
    <3>3. a \notin DOMAIN im
      BY <2>3, <3>2 DEF Shows
    <3> QED BY <3>1, <3>3 DEF ByteAt, a
  <2> QED BY <2>2, <2>3 DEF LoadedFrom
<1>2. ASSUME NEW a \in DOMAIN im PROVE a \div BlkSize \in Blocks /\ l.ptr[a \div BlkSize] # 0
  <2> DEFINE c == a \div BlkSize
  <2>1. c \in Blocks /\ m.ptr[c] # 0
    BY DEF Shows
  <2> HIDE DEF c
  <2>2. l.ptr[c] # 0
    BY <2>1 DEF LoadedFrom
  <2> QED BY <2>1, <2>2 DEF c
<1> QED BY <1>1, <1>2 DEF Shows

\* data at address at, as far as it lies in the blocks B
Within(data, at, B) == {a \in at..(at + Len(data) - 1) : a \div BlkSize \in B}
Over(im, data, at, B) ==
  [a \in DOMAIN im \cup Within(data, at, B) |->
     IF a \in Within(data, at, B) THEN data[a - at + 1] ELSE im[a]]

\* The part of putMem that falls into one block puts there the bytes that belong there.
LEMMA PutBlockOK ==
  ASSUME NEW m, MemOK(m), m.fault = "none", NEW b \in Blocks, job.bufs \in Nat, NEW im,
         NEW data \in Seq(Bytes), NEW at \in Nat, NEW B, Shows(m, Over(im, data, at, B))
  PROVE  LET p == PutBlock(m, b, data, at)
         IN  /\ MemOK(p) /\ p.fault \in {"none", "null", "memory"}
             /\ p.fault = "none" => Shows(p, Over(im, data, at, B \cup {b}))
<1> DEFINE l == Load(m, b)
           p == PutBlock(m, b, data, at)
           Block == [0..(BlkSize - 1) -> Bytes]
<1>1. /\ MemOK(l) /\ l.fault \in {"none", "null", "memory"}
      /\ l.fault = "none" => LoadedFrom(m, l, b)
  BY LoadOK
<1>2. CASE l.fault # "none"
  <2>1. p = l
    BY <1>2 DEF PutBlock
  <2> HIDE DEF l, p
  <2>2. p.fault # "none"
    BY <1>2, <2>1
  <2> QED BY <1>1, <2>1, <2>2 DEF p
<1>3. CASE l.fault = "none"
  <2>1. Shows(l, Over(im, data, at, B))
    <3> HIDE DEF l
    <3> QED BY <1>1, <1>3, LoadShows
  <2> DEFINE old == l.buf[l.ptr[b]]
             new == [i \in DOMAIN old |-> LET k == b * BlkSize + i - at + 1
                                          IN IF k \in DOMAIN data THEN data[k] ELSE old[i]]
  <2>2. p = [l EXCEPT !.buf[l.ptr[b]] = new]
    BY <1>3, Zenon DEF PutBlock
  <2> HIDE DEF l, p
  <2>3. /\ l.ptr \in [Blocks -> Nat] /\ l.loaded \subseteq Blocks /\ l.buf \in Seq(Block)
        /\ \A c \in Blocks : l.ptr[c] \in 0..Len(l.buf)
        /\ \A c \in l.loaded : l.ptr[c] # 0
        /\ \A c, d \in l.loaded : l.ptr[c] = l.ptr[d] => c = d
        /\ Len(l.buf) \in Nat /\ Len(l.buf) <= job.bufs
    <3>1. l.buf \in Seq(Block) /\ l.ptr \in [Blocks -> Nat]
      BY <1>1 DEF MemOK
    <3> QED BY <1>1, <1>3, <3>1 DEF MemOK
  <2>4. b \in l.loaded /\ l.ptr[b] \in 1..Len(l.buf)
    <3>1. b \in l.loaded
      BY <1>1, <1>3 DEF LoadedFrom
    <3> QED BY <2>3, <3>1
  <2>5. old \in Block
    BY <2>3, <2>4
  <2>6. DOMAIN old = 0..(BlkSize - 1)
    BY <2>5
  <2> HIDE DEF old
  <2>7. new \in Block
    <3>1. \A k \in DOMAIN data : data[k] \in Bytes
      OBVIOUS
    <3>2. \A i \in 0..(BlkSize - 1) : old[i] \in Bytes
      BY <2>5
    <3>3. \A i \in 0..(BlkSize - 1) : new[i] \in Bytes
      BY <2>6, <3>1, <3>2
    <3>4. new = [i \in 0..(BlkSize - 1) |-> new[i]]
      BY <2>6
    <3> HIDE DEF new
    <3> QED BY <3>3, <3>4
  <2>8. ASSUME NEW i \in 0..(BlkSize - 1), NEW k, k = b * BlkSize + i - at + 1
        PROVE  new[i] = IF k \in DOMAIN data THEN data[k] ELSE old[i]
    BY <2>6, <2>8
  <2> HIDE DEF new, Block
  <2>9. /\ p.ptr = l.ptr /\ p.loaded = l.loaded /\ p.fault = l.fault /\ p.swapped = l.swapped
        /\ p.buf = [l.buf EXCEPT ![l.ptr[b]] = new]
        /\ p = [ptr |-> l.ptr, loaded |-> l.loaded, buf |-> p.buf, fault |-> l.fault,
                swapped |-> l.swapped]
    <3>1. l = [ptr |-> l.ptr, loaded |-> l.loaded, buf |-> l.buf, fault |-> l.fault,
               swapped |-> l.swapped]
      BY <1>1 DEF MemOK
    <3> QED BY <2>2, <3>1
  <2>10. /\ p.buf \in Seq(Block) /\ Len(p.buf) = Len(l.buf) /\ p.buf[l.ptr[b]] = new
         /\ \A j \in 1..Len(l.buf) : j # l.ptr[b] => p.buf[j] = l.buf[j]
    BY <2>3, <2>4, <2>7, <2>9
  <2>11. MemOK(p)
    <3>1. l.swapped \in BOOLEAN
      BY <1>1 DEF MemOK
    <3>2. p \in [ptr : [Blocks -> Nat], loaded : SUBSET Blocks, buf : Seq(Block),
                 fault : {"none", "null", "memory", "big"}, swapped : BOOLEAN]
      BY <1>3, <2>3, <2>9, <2>10, <3>1
    <3> QED BY <1>3, <2>3, <2>9, <2>10, <3>2 DEF MemOK, Block
  <2> DEFINE im0 == Over(im, data, at, B)
             im1 == Over(im, data, at, B \cup {b})
  <2>12. ASSUME NEW c \in p.loaded, NEW i \in 0..(BlkSize - 1)
         PROVE  p.buf[p.ptr[c]][i] = ByteAt(im1, c * BlkSize + i)
    <3> DEFINE a == c * BlkSize + i
    <3>1. c \in Blocks /\ c \in l.loaded
      BY <2>3, <2>9
    <3>2. a \in Nat /\ a \div BlkSize = c /\ Len(data) \in Nat
      BY <3>1, BlockOf
    <3>3. l.buf[l.ptr[c]][i] = ByteAt(im0, a)
      BY <2>1, <3>1 DEF Shows
    <3> HIDE DEF a
    <3>4. CASE c # b
      <4>1. p.buf[p.ptr[c]] = l.buf[l.ptr[c]]
        BY <2>3, <2>4, <2>9, <2>10, <3>1, <3>4
      <4>2. a \in Within(data, at, B \cup {b}) <=> a \in Within(data, at, B)
        BY <3>2, <3>4 DEF Within
      <4>3. ByteAt(im1, a) = ByteAt(im0, a)
        BY <4>2 DEF ByteAt, Over
      <4> QED BY <3>3, <4>1, <4>3 DEF a
    <3>5. CASE c = b
      <4>1. p.buf[p.ptr[c]][i] = new[i]
        BY <2>9, <2>10, <3>5
      <4>2. a = b * BlkSize + i
        BY <3>5 DEF a
      <4>3. a - at + 1 \in DOMAIN data <=> a \in Within(data, at, B \cup {b})
        BY <3>2, <3>5 DEF Within
      <4>6. new[i] = IF a - at + 1 \in DOMAIN data THEN data[a - at + 1] ELSE old[i]
        <5>1. a - at + 1 = b * BlkSize + i - at + 1
          <6>1. \A x, y, z \in Int : (x + y) - z + 1 = x + (y - z) + 1
            OBVIOUS
          <6>2. b * BlkSize \in Int /\ i \in Int /\ at \in Int
            <7>1. b \in Nat /\ BlkSize \in Nat
              BY BlockOf, Sizes
            <7> QED BY <7>1
          <6> QED BY <4>2, <6>1, <6>2
        <5> QED BY <2>8, <5>1
      <4>4. CASE a \in Within(data, at, B \cup {b})
        <5>1. new[i] = data[a - at + 1]
          BY <4>3, <4>4, <4>6
        <5>2. ByteAt(im1, a) = data[a - at + 1]
          BY <4>4 DEF ByteAt, Over
        <5> QED BY <4>1, <5>1, <5>2 DEF a
      <4>5. CASE a \notin Within(data, at, B \cup {b})
        <5>1. new[i] = old[i]
          BY <4>3, <4>5, <4>6
        <5>2. old[i] = ByteAt(im0, a)
          BY <3>3, <3>5 DEF old
        <5>3. a \notin Within(data, at, B)
          BY <4>5 DEF Within
        <5>4. ByteAt(im1, a) = ByteAt(im0, a)
          BY <4>5, <5>3 DEF ByteAt, Over
        <5> QED BY <4>1, <5>1, <5>2, <5>4 DEF a
      <4> QED BY <4>4, <4>5
    <3> QED BY <3>4, <3>5
  <2>13. ASSUME NEW a \in DOMAIN im1 PROVE a \div BlkSize \in Blocks /\ p.ptr[a \div BlkSize] # 0
    <3> DEFINE c == a \div BlkSize
    <3>1. a \in DOMAIN im0 \/ c = b
      BY DEF Over, Within
    <3>2. ASSUME a \in DOMAIN im0 PROVE c \in Blocks /\ p.ptr[c] # 0
      BY <2>1, <2>9, <3>2 DEF Shows
    <3> HIDE DEF c
    <3>3. ASSUME c = b PROVE c \in Blocks /\ p.ptr[c] # 0
      BY <2>4, <2>9, <3>3
    <3> QED BY <3>1, <3>2, <3>3 DEF c
  <2>14. Shows(p, im1)
    <3> HIDE DEF im1
    <3> QED BY <2>12, <2>13 DEF Shows
  <2> QED BY <1>3, <2>9, <2>11, <2>14 DEF p
<1> QED BY <1>1, <1>2, <1>3

\* im with data put at address at
With(im, data, at) ==
  [a \in DOMAIN im \cup {at + i - 1 : i \in DOMAIN data} |->
     IF a >= at /\ a - at + 1 \in DOMAIN data THEN data[a - at + 1] ELSE im[a]]

LEMMA ShowsSame ==
  ASSUME NEW m, NEW im, NEW other, Shows(m, im), DOMAIN other = DOMAIN im,
         \A a \in DOMAIN im : other[a] = im[a]
  PROVE  Shows(m, other)
<1>1. \A a : ByteAt(other, a) = ByteAt(im, a)
  BY DEF ByteAt
<1> QED BY <1>1 DEF Shows

LEMMA DivMono ==
  ASSUME NEW x \in Nat, NEW y \in Nat, NEW n \in Nat \ {0}, x <= y
  PROVE  x \div n <= y \div n
<1> DEFINE q == x \div n
           p == y \div n
           r == y % n
           t == x % n
<1>1. q \in Nat /\ t \in 0..(n - 1) /\ x = n * q + t
  BY DivMod
<1>2. p \in Nat /\ r \in 0..(n - 1) /\ y = n * p + r
  BY DivMod
<1> HIDE DEF q, p, r, t
<1>3. ASSUME p < q PROVE FALSE
  <2>1. n * (q - p - 1) >= 0
    BY <1>1, <1>2, <1>3
  <2>2. n * (q - p - 1) = n * q - n * p - n
    BY <1>1, <1>2
  <2> QED BY <1>1, <1>2, <2>1, <2>2
<1>4. q <= p
  BY <1>1, <1>2, <1>3
<1> QED BY <1>4 DEF q, p

\* The blocks that data falls into.
LEMMA BlocksOfOK ==
  ASSUME NEW data \in Seq(Bytes), data # <<>>, NEW at \in Nat, at + Len(data) <= Limit
  PROVE  /\ Len(BlocksOf(data, at)) \in Nat
         /\ \A k \in 1..Len(BlocksOf(data, at)) : BlocksOf(data, at)[k] \in Blocks
         /\ \A a \in at..(at + Len(data) - 1) :
              \E k \in 1..Len(BlocksOf(data, at)) : BlocksOf(data, at)[k] = a \div BlkSize
<1> DEFINE last == at + Len(data) - 1
           p == at \div BlkSize
           q == last \div BlkSize
           s == BlocksOf(data, at)
<1>1. Len(data) \in Nat \ {0} /\ Limit \in Nat /\ BlkSize \in Nat \ {0}
  BY Sizes
<1>2. last \in 0..(Limit - 1) /\ at \in 0..(Limit - 1) /\ at <= last
  BY <1>1
<1> HIDE DEF last
<1>3. p \in Blocks /\ q \in Blocks
  BY <1>2, InBlock
<1>4. p <= q
  BY <1>1, <1>2, DivMono
<1>5. Blocks = 0..(Limit \div BlkSize - 1) /\ Limit \div BlkSize \in Nat
  <2>1. Limit \div BlkSize \in Nat
    BY <1>1, DivMod
  <2> QED BY <2>1 DEF Blocks
<1> DEFINE n == q - p + 1
<1>6. s = [i \in 1..n |-> p + i - 1]
  BY DEF BlocksOf, last
<1> HIDE DEF p, q, s
<1>7. p \in Nat /\ q \in Nat /\ n \in Nat
  BY <1>3, <1>4, <1>5
<1>8. Len(s) = n
  <2>1. DOMAIN s = 1..n
    BY <1>6
  <2>2. s \in Seq(Int)
    BY <1>6, <1>7
  <2> QED BY <1>7, <2>1, <2>2
<1>9. ASSUME NEW k \in 1..n PROVE s[k] \in Blocks
  BY <1>3, <1>5, <1>6, <1>7
<1>10. ASSUME NEW a \in at..last PROVE \E k \in 1..n : s[k] = a \div BlkSize
  <2> DEFINE c == a \div BlkSize
  <2>1. a \in Nat /\ last \in Nat
    BY <1>2
  <2>2. c \in Nat
    BY <1>1, <2>1, DivMod
  <2>3. p <= c /\ c <= q
    BY <1>1, <1>2, <2>1, DivMono DEF p, q
  <2> HIDE DEF c
  <2>4. c - p + 1 \in 1..n /\ s[c - p + 1] = c
    BY <1>6, <1>7, <2>2, <2>3
  <2> QED BY <2>4 DEF c
<1> QED BY <1>7, <1>8, <1>9, <1>10 DEF last, s

\* One block more; a fault stays.
LEMMA PutStep ==
  ASSUME NEW m, MemOK(m), m.fault \in {"none", "null", "memory"}, NEW b \in Blocks,
         job.bufs \in Nat, NEW im, NEW data \in Seq(Bytes), NEW at \in Nat, NEW B,
         m.fault = "none" => Shows(m, Over(im, data, at, B)),
         NEW p, p = PutBlock(m, b, data, at)
  PROVE  /\ MemOK(p) /\ p.fault \in {"none", "null", "memory"}
         /\ p.fault = "none" => Shows(p, Over(im, data, at, B \cup {b}))
<1>1. CASE m.fault # "none"
  <2>1. Load(m, b) = m
    BY <1>1 DEF Load
  <2>2. p = m
    BY <1>1, <2>1, Zenon DEF PutBlock
  <2> QED BY <1>1, <2>2
<1>2. CASE m.fault = "none"
  <2>1. Shows(m, Over(im, data, at, B))
    BY <1>2
  <2> QED BY <1>2, <2>1, PutBlockOK, Zenon
<1> QED BY <1>1, <1>2

\* putMem puts its bytes at their addresses and changes no other byte of the image, or
\* reports a fault.
LEMMA PutMemOK ==
  ASSUME NEW m, MemOK(m), m.fault = "none", job.bufs \in Nat, NEW im, Shows(m, im),
         DOMAIN im \subseteq Nat, NEW data \in Seq(Bytes), NEW at \in Nat
  PROVE  LET p == PutMem(m, data, at)
         IN  /\ MemOK(p)
             /\ p.fault = "none" => Shows(p, With(im, data, at))
             /\ p.fault # "big" /\ data # <<>> => at + Len(data) <= Limit
<1> DEFINE p == PutMem(m, data, at)
<1>0. Len(data) \in Nat /\ Limit \in Nat
  BY Sizes
<1>1. CASE data = <<>>
  <2>1. p = m
    BY <1>1 DEF PutMem
  <2>2. DOMAIN data = {}
    BY <1>1
  <2>3. {at + i - 1 : i \in DOMAIN data} = {}
    BY <2>2
  <2>5. DOMAIN With(im, data, at) = DOMAIN im
    BY <2>3 DEF With
  <2>6. \A a \in DOMAIN im : With(im, data, at)[a] = im[a]
    BY <2>2 DEF With
  <2>4. Shows(m, With(im, data, at))
    BY <2>5, <2>6, ShowsSame
  <2> QED BY <1>1, <2>1, <2>4
<1>2. CASE data # <<>> /\ at + Len(data) > Limit
  <2>1. p = [m EXCEPT !.fault = "big"]
    BY <1>2 DEF PutMem
  <2> HIDE DEF p
  <2>2. m.swapped \in BOOLEAN
    BY DEF MemOK
  <2>3. /\ p.ptr = m.ptr /\ p.loaded = m.loaded /\ p.buf = m.buf /\ p.fault = "big"
        /\ p.swapped = m.swapped
        /\ p \in [ptr : [Blocks -> Nat], loaded : SUBSET Blocks,
                  buf : Seq([0..(BlkSize - 1) -> Bytes]),
                  fault : {"none", "null", "memory", "big"}, swapped : BOOLEAN]
    BY <2>1, <2>2 DEF MemOK
  <2>4. MemOK(p)
    BY <2>3 DEF MemOK
  <2> QED BY <2>3, <2>4 DEF p
<1>3. CASE data # <<>> /\ at + Len(data) <= Limit
  <2> DEFINE s == BlocksOf(data, at)
  <2>1. p = PutBlocks(m, s, data, at)
    BY <1>0, <1>3 DEF PutMem
  <2>2. /\ Len(s) \in Nat
        /\ \A k \in 1..Len(s) : s[k] \in Blocks
        /\ \A a \in at..(at + Len(data) - 1) : \E k \in 1..Len(s) : s[k] = a \div BlkSize
    BY <1>3, BlocksOfOK
  <2> HIDE DEF s, p
  <2>3. PICK f : PutTo(s, f, Len(s), m, data, at)
    BY <2>2, PutExists
  <2>4. p = f[Len(s)]
    BY <2>1, <2>2, <2>3, PutIs
  <2> DEFINE First(k) == {s[j] : j \in 1..k}
             Good(k) == /\ MemOK(f[k]) /\ f[k].fault \in {"none", "null", "memory"}
                        /\ f[k].fault = "none" => Shows(f[k], Over(im, data, at, First(k)))
             P == {k \in Nat : k <= Len(s) => Good(k)}
  <2>5. 0 \in P
    <3>1. f[0] = m
      BY <2>2, <2>3 DEF PutTo
    <3>2. First(0) = {}
      OBVIOUS
    <3>3. Within(data, at, {}) = {}
      BY DEF Within
    <3>4. Shows(m, Over(im, data, at, {}))
      <4>1. DOMAIN Over(im, data, at, {}) = DOMAIN im
        BY <3>3 DEF Over
      <4>2. \A a \in DOMAIN im : Over(im, data, at, {})[a] = im[a]
        BY <3>3 DEF Over
      <4> QED BY <4>1, <4>2, ShowsSame
    <3> QED BY <3>1, <3>2, <3>4
  <2>6. ASSUME NEW k \in P PROVE k + 1 \in P
    <3>1. SUFFICES ASSUME k + 1 <= Len(s) PROVE Good(k + 1)
      OBVIOUS
    <3>2. k \in Nat /\ k + 1 \in 1..Len(s) /\ k + 1 \in 0..Len(s) /\ k + 1 # 0 /\ (k + 1) - 1 = k
      BY <2>2, <3>1
    <3>3. Good(k)
      BY <3>1, <3>2, <2>2
    <3>4. f[k + 1] = PutBlock(f[k], s[k + 1], data, at)
      <4>1. f[k + 1] = IF k + 1 = 0 THEN m ELSE PutBlock(f[(k + 1) - 1], s[k + 1], data, at)
        BY <2>3, <3>2, Zenon DEF PutTo
      <4> QED BY <3>2, <4>1, Zenon
    <3>5. s[k + 1] \in Blocks
      BY <2>2, <3>2
    <3>6. First(k + 1) = First(k) \cup {s[k + 1]}
      BY <3>2
    <3> HIDE DEF First
    <3>7. /\ MemOK(f[k + 1]) /\ f[k + 1].fault \in {"none", "null", "memory"}
          /\ f[k + 1].fault = "none" => Shows(f[k + 1], Over(im, data, at, First(k) \cup {s[k + 1]}))
      BY <3>3, <3>4, <3>5, PutStep, Zenon
    <3> QED BY <3>6, <3>7
  <2> HIDE DEF P
  <2>7. Nat \subseteq P
    BY <2>5, <2>6, Induct
  <2> HIDE DEF Good
  <2>8. Good(Len(s))
    <3>1. Len(s) \in P
      BY <2>2, <2>7
    <3>2. Len(s) <= Len(s)
      BY <2>2
    <3> QED BY <3>1, <3>2 DEF P
  <2>9. ASSUME p.fault = "none" PROVE Shows(p, With(im, data, at))
    <3> DEFINE all == Over(im, data, at, First(Len(s)))
    <3>1. Shows(p, all)
      BY <2>4, <2>8, <2>9 DEF Good
    <3>2. Within(data, at, First(Len(s))) = at..(at + Len(data) - 1)
      BY <2>2 DEF Within
    <3> HIDE DEF First
    <3>3. at..(at + Len(data) - 1) = {at + i - 1 : i \in DOMAIN data}
      <4>1. ASSUME NEW a \in at..(at + Len(data) - 1) PROVE \E i \in DOMAIN data : a = at + i - 1
        <5>1. a - at + 1 \in DOMAIN data /\ a = at + (a - at + 1) - 1
          BY <1>0
        <5> QED BY <5>1
      <4>2. \A i \in DOMAIN data : at + i - 1 \in at..(at + Len(data) - 1)
        BY <1>0
      <4> QED BY <4>1, <4>2
    <3>4. \A a \in Int : (a >= at /\ a - at + 1 \in DOMAIN data) <=> a \in at..(at + Len(data) - 1)
      BY <1>0
    <3>5. DOMAIN all = DOMAIN With(im, data, at)
      BY <3>2, <3>3 DEF Over, With
    <3>6. ASSUME NEW a \in DOMAIN all PROVE With(im, data, at)[a] = all[a]
      <4>1. a \in Int
        BY <1>0, <3>2 DEF Over
      <4> QED BY <3>2, <3>4, <3>5, <4>1 DEF Over, With
    <3> HIDE DEF all
    <3> QED BY <3>1, <3>5, <3>6, ShowsSame
  <2> QED BY <1>0, <1>3, <2>4, <2>8, <2>9 DEF Good, p
<1> QED BY <1>0, <1>1, <1>2, <1>3

-----------------------------------------------------------------------------
(* Types.  The groups of variables are those of the program. *)

PCs == {"records", "count", "items", "sums", "add", "lines", "done", "failed", "crash", "adrift"}

Control == pc \in PCs /\ work \subseteq {"reloc", "swap"} /\ WorkFilesGone

Inputs ==
  /\ job \in Jobs
  /\ recIdx \in 1..(Len(job.recs) + 1)
  /\ startAddr \in Nat /\ textAddr \in Nat /\ big \in BOOLEAN
  /\ relocs \in Seq(Nat) /\ wrPos \in Nat
  /\ nreloc \in 0..(Seg - 1) /\ item \in 0..nreloc

\* the image lies between Ltext and Htext, and what is in memory is that of the image
Memory ==
  /\ MemOK(mem)
  /\ pc \notin {"failed", "crash"} => mem.fault = "none" /\ Shows(mem, image)
  /\ Ltext \in 0..(Limit - 1) /\ Htext \in Nat /\ (pc # "failed" => Htext <= Limit)
  /\ DOMAIN image \subseteq Ltext..(Htext - 1)

SumVars ==
  /\ chkIdx \in 1..(Len(job.sums) + 1) /\ loc \in 0..(Seg - 1) /\ crc \in 0..(Seg - 1)
  /\ pc = "add" => chkIdx <= Len(job.sums)

LineTypes == {"data", "ext", "end", "S0", "S1", "S2", "S9", "ORG", "HEX", "END"}
OutLine == [t : LineTypes, bytes : Seq(Bytes)] \cup [t : {"bin"}, bytes : Seq(Bytes), at : Int]

\* RecordsValid says this of every line.
LineValid(l) ==
  /\ l.t \in {"data", "ext"} => l.bytes[1] = Len(l.bytes) - 5 /\ Plus(l.bytes) % Byte = 0
  /\ l.t \in {"S0", "S1", "S9"} => l.bytes[1] = Len(l.bytes) - 1
  /\ l.t \in {"S0", "S1", "S2", "S9"} => Plus(l.bytes) % Byte = Byte - 1
AllValid(s) == \A i \in DOMAIN s : s[i] \in OutLine /\ LineValid(s[i])

\* the loop of main has come from Ltext and goes as far as Htext
Output ==
  /\ curAddr \in 0..Limit /\ remaining \in 0..Limit
  /\ segment \in Nat /\ haveOrg \in BOOLEAN /\ out \in Seq(OutLine) /\ AllValid(out)
  /\ pc = "lines" => curAddr + remaining = Htext /\ Ltext <= curAddr

TypeInv == Control /\ Inputs /\ Memory /\ SumVars /\ Output

LEMMA JobFacts ==
  ASSUME job \in Jobs
  PROVE  /\ job.fmt \in {"intel", "srec", "asm", "bin"} /\ job.base \in Nat \cup {NoBase}
         /\ job.reloc \in {"none", "R", "L"} /\ job.sums \in Seq(Sum)
         /\ job.recs \in Seq(Record) /\ job.bufs \in Nat
         /\ Len(job.recs) \in Nat /\ Len(job.sums) \in Nat
<1>1. job \in Job
  BY ObjToHexAssumption
<1>2. job.sums \in Seq(Sum) /\ job.recs \in Seq(Record)
  BY <1>1 DEF Job
<1> HIDE DEF Sum, Record
<1> QED BY <1>1, <1>2 DEF Job

LEMMA TypeOKOf == ASSUME TypeInv PROVE TypeOK
<1> DEFINE Block == [0..(BlkSize - 1) -> Bytes]
<1>1. mem.ptr \in [Blocks -> Nat] /\ mem.loaded \subseteq Blocks /\ mem.buf \in Seq(Block)
      /\ Len(mem.buf) <= job.bufs /\ \A b \in Blocks : mem.ptr[b] <= Len(mem.buf)
  BY DEF TypeInv, Memory, MemOK
<1> HIDE DEF Block
<1>2. \A i \in DOMAIN mem.buf : mem.buf[i] \in Block
  BY <1>1
<1>3. mem.ptr \in [Blocks -> 0..Len(mem.buf)]
  BY <1>1
<1>4. \A i \in DOMAIN out : out[i].bytes \in Seq(Bytes)
  <2>1. \A i \in DOMAIN out : out[i] \in OutLine
    BY DEF TypeInv, Output
  <2> QED BY <2>1, Zenon DEF OutLine
<1>5. job \in Jobs /\ pc \in PCs /\ recIdx \in 1..(Len(job.recs) + 1)
      /\ chkIdx \in 1..(Len(job.sums) + 1)
      /\ Htext \in Nat /\ (pc # "failed" => Htext <= Limit)
      /\ loc \in 0..(Seg - 1) /\ crc \in 0..(Seg - 1)
      /\ nreloc \in 0..(Seg - 1) /\ item \in 0..nreloc
      /\ curAddr \in 0..Limit /\ remaining \in 0..Limit /\ work \subseteq {"reloc", "swap"}
  BY DEF TypeInv, Control, Inputs, Memory, SumVars, Output
<1> QED BY <1>1, <1>2, <1>3, <1>4, <1>5, Zenon DEF TypeOK, PCs, Block

LEMMA InitTypes == ASSUME Init PROVE TypeInv
<1>0. job \in Jobs
  BY DEF Init
<1>1. Control
  BY DEF Init, Control, PCs, WorkFilesGone
<1>n. Len(job.recs) \in Nat /\ Len(job.sums) \in Nat /\ Seg \in Nat \ {0} /\ Limit \in Nat \ {0}
  BY <1>0, JobFacts, Sizes
<1>2. Inputs
  <2>1. relocs \in Seq(Nat)
    BY DEF Init
  <2>2. recIdx = 1 /\ startAddr = Limit - 1 /\ textAddr = 0 /\ wrPos = 0
        /\ nreloc = 0 /\ item = 0
    BY DEF Init
  <2>3. big \in BOOLEAN
    BY Zenon DEF Init
  <2> QED BY <1>0, <1>n, <2>1, <2>2, <2>3 DEF Inputs
<1>3. Memory
  <2> DEFINE Block == [0..(BlkSize - 1) -> Bytes]
  <2>1. mem = [ptr |-> [b \in Blocks |-> 0], loaded |-> {}, buf |-> <<>>,
               fault |-> "none", swapped |-> FALSE] /\ image = <<>>
        /\ Ltext = Limit - 1 /\ Htext = 0 /\ job.bufs \in Nat /\ Limit \in Nat \ {0}
    BY <1>0, JobFacts, Sizes DEF Init
  <2>2. <<>> \in Seq(Block) /\ Len(<<>>) = 0 /\ DOMAIN <<>> = {}
    OBVIOUS
  <2> HIDE DEF Block
  <2>3. mem \in [ptr : [Blocks -> Nat], loaded : SUBSET Blocks, buf : Seq(Block),
                 fault : {"none", "null", "memory", "big"}, swapped : BOOLEAN]
    BY <2>1, <2>2
  <2>4. MemOK(mem)
    BY <2>1, <2>2, <2>3 DEF MemOK, Block
  <2>5. Shows(mem, image)
    BY <2>1, <2>2 DEF Shows
  <2> QED BY <2>1, <2>2, <2>4, <2>5 DEF Memory
<1>4. SumVars
  BY <1>0, JobFacts, Sizes DEF Init, SumVars
<1>5. Output
  <2>1. out \in Seq(OutLine) /\ AllValid(out)
    BY DEF Init, AllValid
  <2>2. curAddr = 0 /\ remaining = 0 /\ segment = 0 /\ pc = "records"
    BY DEF Init
  <2>3. haveOrg \in BOOLEAN
    BY Zenon DEF Init
  <2> QED BY <1>n, <2>1, <2>2, <2>3 DEF Output
<1> QED BY <1>1, <1>2, <1>3, <1>4, <1>5 DEF TypeInv

\* Bytes that enter the image: what is in memory goes with the image, and a fault removes
\* the work files or is a crash.
LEMMA PutOK ==
  ASSUME TypeInv, pc \notin {"failed", "crash"}, job' = job, NEW data \in Seq(Bytes),
         NEW at \in Nat, NEW next \in PCs, next \notin {"failed", "crash", "done", "lines"},
         Put(data, at, next)
  PROVE  /\ Memory' /\ Control' /\ image' = With(image, data, at)
         /\ pc' \in {next, "failed", "crash"}
<1>0. job.bufs \in Nat /\ Limit \in Nat /\ Len(data) \in Nat
  BY JobFacts, Sizes DEF TypeInv, Inputs
<1>1. /\ MemOK(mem) /\ mem.fault = "none" /\ Shows(mem, image)
      /\ Ltext \in 0..(Limit - 1) /\ Htext \in Nat /\ Htext <= Limit
      /\ DOMAIN image \subseteq Ltext..(Htext - 1)
  BY DEF TypeInv, Memory
<1>2. DOMAIN image \subseteq Nat
  BY <1>0, <1>1
<1>3. /\ MemOK(mem') /\ (mem'.fault = "none" => Shows(mem', With(image, data, at)))
      /\ (mem'.fault # "big" /\ data # <<>> => at + Len(data) <= Limit)
  <2>1. mem' = PutMem(mem, data, at)
    BY Zenon DEF Put
  <2> QED BY <1>0, <1>1, <1>2, <2>1, PutMemOK
<1>4. /\ Ltext' = Lowest(Ltext, at)
      /\ Htext' = (IF data = <<>> THEN Htext ELSE Highest(Htext, at + Len(data)))
      /\ image' = With(image, data, at)
      /\ pc' = (CASE mem'.fault = "none" -> next [] mem'.fault = "null" -> "crash"
                [] OTHER -> "failed")
      /\ work' = WorkWith(mem')
  BY Zenon DEF Put, With
<1>5. mem'.fault \in {"none", "null", "memory", "big"}
  BY <1>3 DEF MemOK
<1>6. /\ pc' \in {next, "failed", "crash"}
      /\ mem'.fault = "none" => pc' = next
      /\ pc' \notin {"failed", "crash"} => mem'.fault = "none"
      /\ pc' = "failed" <=> mem'.fault \in {"memory", "big"}
  <2>1. CASE mem'.fault = "none"
    BY <1>4, <2>1
  <2>2. CASE mem'.fault = "null"
    BY <1>4, <2>2
  <2>3. CASE mem'.fault \in {"memory", "big"}
    BY <1>4, <2>3
  <2> QED BY <1>5, <2>1, <2>2, <2>3
<1>7. MemOK(mem)'
  <2>1. job.bufs' = job.bufs
    OBVIOUS
  <2> QED BY <1>3, <2>1 DEF MemOK
<1>8. /\ Ltext' \in 0..(Limit - 1) /\ Htext' \in Nat /\ (pc' # "failed" => Htext' <= Limit)
      /\ DOMAIN image' \subseteq Ltext'..(Htext' - 1)
  <2>1. Ltext' \in 0..(Limit - 1) /\ Ltext' <= Ltext /\ Ltext' <= at
    BY <1>0, <1>1, <1>4 DEF Lowest
  <2>2. Htext' \in Nat /\ Htext <= Htext' /\ (data # <<>> => at + Len(data) <= Htext')
        /\ (pc' # "failed" => Htext' <= Limit)
    <3>1. pc' # "failed" /\ data # <<>> => at + Len(data) <= Limit
      BY <1>3, <1>6
    <3> QED BY <1>0, <1>1, <1>4, <3>1 DEF Highest
  <2>3. DOMAIN image' = DOMAIN image \cup {at + i - 1 : i \in DOMAIN data}
    BY <1>4 DEF With
  <2>4. ASSUME NEW i \in DOMAIN data PROVE at + i - 1 \in Ltext'..(Htext' - 1)
    <3>1. data # <<>> /\ i \in 1..Len(data)
      OBVIOUS
    <3> QED BY <1>0, <2>1, <2>2, <3>1
  <2> QED BY <1>1, <2>1, <2>2, <2>3, <2>4
<1>9. Shows(mem', With(image, data, at)) => Shows(mem, image)'
  BY <1>4 DEF Shows, ByteAt
<1>10. Memory'
  BY <1>3, <1>6, <1>7, <1>8, <1>9 DEF Memory
<1>11. work \subseteq {"reloc", "swap"}
  BY DEF TypeInv, Control
<1>12. Control'
  <2>1. work' \subseteq {"reloc", "swap"}
    BY <1>4, <1>11 DEF WorkWith
  <2>2. pc' = "failed" => work' = {}
    BY <1>4, <1>6 DEF WorkWith
  <2> QED BY <1>6, <2>1, <2>2 DEF Control, WorkFilesGone, PCs
<1> QED BY <1>4, <1>6, <1>10, <1>12

LEMMA MemorySame ==
  ASSUME TypeInv, pc \notin {"failed", "crash"}, UNCHANGED <<job, memVars>>
  PROVE  Memory'
<1>1. /\ MemOK(mem) /\ mem.fault = "none" /\ Shows(mem, image)
      /\ Ltext \in 0..(Limit - 1) /\ Htext \in Nat /\ Htext <= Limit
      /\ DOMAIN image \subseteq Ltext..(Htext - 1)
  BY DEF TypeInv, Memory
<1>2. mem' = mem /\ image' = image /\ Ltext' = Ltext /\ Htext' = Htext /\ job' = job
  BY DEF memVars
<1>3. MemOK(mem)' /\ Shows(mem, image)'
  BY <1>1, <1>2 DEF MemOK, Shows, ByteAt
<1> QED BY <1>1, <1>2, <1>3 DEF Memory

LEMMA InputsSame == ASSUME TypeInv, UNCHANGED <<job, inVars>> PROVE Inputs'
<1>1. Inputs
  BY DEF TypeInv
<1> QED BY <1>1, Zenon DEF Inputs, inVars

LEMMA SumsSame == ASSUME TypeInv, UNCHANGED <<job, sumVars>>, pc' # "add" PROVE SumVars'
<1>1. SumVars
  BY DEF TypeInv
<1> QED BY <1>1, Zenon DEF SumVars, sumVars

LEMMA OutputSame == ASSUME TypeInv, UNCHANGED outVars, pc' # "lines" PROVE Output'
<1>1. Output
  BY DEF TypeInv
<1> QED BY <1>1, Zenon DEF Output, outVars

\* What the records of the object file hold.
LEMMA RecordFacts ==
  ASSUME NEW r \in Record
  PROVE  /\ r.t = "TEXT" => r.off \in Nat /\ r.data \in Seq(Bytes)
         /\ r.t = "RELOC" => r.off \in 0..(Seg \div 2 - 1) /\ r.kind \in {2, 130, 4}
         /\ r.t = "SYM" => r.val \in Nat
         /\ r.t = "START" => r.val \in Nat
         /\ r.t = "IDENT" => r.big \in BOOLEAN
<1> DEFINE T == [t : {"TEXT"}, off : Nat, data : Seq(Bytes)]
           R == [t : {"RELOC"}, off : 0..(Seg \div 2 - 1), kind : {2, 130, 4}]
           S == [t : {"SYM"}, name : Names, val : Nat]
           A == [t : {"START"}, val : Nat]
           D == [t : {"IDENT"}, big : BOOLEAN]
           O == [t : {"END", "illegal"}]
<1>0. r \in T \/ r \in R \/ r \in S \/ r \in A \/ r \in D \/ r \in O
  BY Zenon DEF Record
<1>1. ASSUME r \in T PROVE r.t = "TEXT" /\ r.off \in Nat /\ r.data \in Seq(Bytes)
  BY <1>1, Zenon
<1>2. ASSUME r \in R PROVE r.t = "RELOC" /\ r.off \in 0..(Seg \div 2 - 1) /\ r.kind \in {2, 130, 4}
  BY <1>2, Zenon
<1>3. ASSUME r \in S PROVE r.t = "SYM" /\ r.val \in Nat
  BY <1>3, Zenon
<1>4. ASSUME r \in A PROVE r.t = "START" /\ r.val \in Nat
  BY <1>4, Zenon
<1>5. ASSUME r \in D PROVE r.t = "IDENT" /\ r.big \in BOOLEAN
  BY <1>5, Zenon
<1>6. ASSUME r \in O PROVE r.t \in {"END", "illegal"}
  BY <1>6, Zenon
<1> HIDE DEF T, R, S, A, D, O
<1>7. CASE r \in T
  BY <1>1, <1>7
<1>8. CASE r \in R
  BY <1>2, <1>8
<1>9. CASE r \in S
  BY <1>3, <1>9
<1>10. CASE r \in A
  BY <1>4, <1>10
<1>11. CASE r \in D
  BY <1>5, <1>11
<1>12. CASE r \in O
  BY <1>6, <1>12
<1> QED BY <1>0, <1>7, <1>8, <1>9, <1>10, <1>11, <1>12

LEMMA RecIs ==
  ASSUME TypeInv, NEW t, Reading(t)
  PROVE  pc = "records" /\ Rec \in Record /\ Rec.t = t /\ recIdx + 1 \in 1..(Len(job.recs) + 1)
<1>1. recIdx \in 1..(Len(job.recs) + 1) /\ recIdx <= Len(job.recs) /\ pc = "records" /\ Rec.t = t
  BY DEF TypeInv, Inputs, Reading
<1>2. job.recs \in Seq(Record) /\ Len(job.recs) \in Nat
  BY JobFacts DEF TypeInv, Inputs
<1>3. recIdx \in 1..Len(job.recs)
  BY <1>1, <1>2
<1> HIDE DEF Record
<1>4. Rec \in Record
  BY <1>2, <1>3 DEF Rec
<1> QED BY <1>1, <1>2, <1>3, <1>4

LEMMA FatalOK == ASSUME TypeInv, Fatal PROVE Control'
BY DEF Fatal, Control, PCs, WorkFilesGone

LEMMA ReadRecFailsTypes == ASSUME TypeInv, ReadRecFails PROVE TypeInv'
<1>1. Fatal /\ UNCHANGED <<job, inVars, memVars, sumVars, outVars>> /\ pc = "records" /\ pc' = "failed"
  BY DEF ReadRecFails, Fatal
<1> QED BY <1>1, FatalOK, InputsSame, MemorySame, SumsSame, OutputSame DEF TypeInv

LEMMA DoTextTypes == ASSUME TypeInv, DoText PROVE TypeInv'
<1>1. /\ pc = "records" /\ Rec.off \in Nat /\ Rec.data \in Seq(Bytes)
      /\ recIdx + 1 \in 1..(Len(job.recs) + 1)
  BY RecIs, RecordFacts DEF DoText
<1>2. /\ job' = job /\ recIdx' = recIdx + 1 /\ textAddr' = Rec.off /\ Put(Rec.data, Rec.off, pc)
      /\ UNCHANGED <<startAddr, big, relocs, nreloc, wrPos, item, symFile, sumVars, outVars>>
  BY DEF DoText, NextRec
<1>3. Memory' /\ Control' /\ pc' \in {"records", "failed", "crash"}
  <2>1. pc \in PCs
    BY <1>1 DEF PCs
  <2> QED BY <1>1, <1>2, <2>1, PutOK
<1>4. Inputs'
  <2>1. Inputs
    BY DEF TypeInv
  <2> QED BY <1>1, <1>2, <2>1, Zenon DEF Inputs
<1> QED BY <1>2, <1>3, <1>4, SumsSame, OutputSame DEF TypeInv

LEMMA DoStartTypes == ASSUME TypeInv, DoStart PROVE TypeInv'
<1>1. pc = "records" /\ Rec.val \in Nat /\ recIdx + 1 \in 1..(Len(job.recs) + 1)
  BY RecIs, RecordFacts DEF DoStart
<1>2. /\ recIdx' = recIdx + 1 /\ startAddr' = Rec.val
      /\ UNCHANGED <<job, pc, textAddr, big, relocs, nreloc, wrPos, item, memVars, sumVars,
                     outVars, work>>
  BY DEF DoStart, NextRec
<1>3. Inputs'
  <2>1. Inputs
    BY DEF TypeInv
  <2> QED BY <1>1, <1>2, <2>1, Zenon DEF Inputs
<1>4. Control'
  BY <1>2 DEF TypeInv, Control, WorkFilesGone
<1> QED BY <1>1, <1>2, <1>3, <1>4, MemorySame, SumsSame, OutputSame DEF TypeInv

LEMMA DoIdentTypes == ASSUME TypeInv, DoIdent PROVE TypeInv'
<1>1. pc = "records" /\ Rec.big \in BOOLEAN /\ recIdx + 1 \in 1..(Len(job.recs) + 1)
  BY RecIs, RecordFacts DEF DoIdent
<1>2. /\ recIdx' = recIdx + 1 /\ big' = Rec.big
      /\ UNCHANGED <<job, pc, startAddr, textAddr, relocs, nreloc, wrPos, item, memVars, sumVars,
                     outVars, work>>
  BY Zenon DEF DoIdent, NextRec
<1>3. Inputs'
  <2>1. Inputs
    BY DEF TypeInv
  <2> QED BY <1>1, <1>2, <2>1, Zenon DEF Inputs
<1>4. Control'
  BY <1>2 DEF TypeInv, Control, WorkFilesGone
<1> QED BY <1>1, <1>2, <1>3, <1>4, MemorySame, SumsSame, OutputSame DEF TypeInv

LEMMA DoSymTypes == ASSUME TypeInv, DoSym PROVE TypeInv'
<1>1. pc = "records" /\ Rec.val \in Nat /\ recIdx + 1 \in 1..(Len(job.recs) + 1)
  BY RecIs, RecordFacts DEF DoSym
<1>2. /\ recIdx' = recIdx + 1 /\ wrPos' \in {Rec.val, wrPos}
      /\ UNCHANGED <<job, pc, startAddr, textAddr, big, relocs, nreloc, item, memVars, sumVars,
                     outVars, work>>
  BY DEF DoSym, NextRec
<1>3. Inputs'
  <2>1. Inputs
    BY DEF TypeInv
  <2>2. wrPos' \in Nat
    BY <1>1, <1>2, <2>1 DEF Inputs
  <2> QED BY <1>1, <1>2, <2>1, <2>2, Zenon DEF Inputs
<1>4. Control'
  BY <1>2 DEF TypeInv, Control, WorkFilesGone
<1> QED BY <1>1, <1>2, <1>3, <1>4, MemorySame, SumsSame, OutputSame DEF TypeInv

LEMMA DoRelocTypes == ASSUME TypeInv, DoReloc PROVE TypeInv'
<1>1. /\ pc = "records" /\ Rec.off \in 0..(Seg \div 2 - 1)
      /\ recIdx + 1 \in 1..(Len(job.recs) + 1)
  BY RecIs, RecordFacts DEF DoReloc
<1>2. UNCHANGED <<job, startAddr, textAddr, big, wrPos, item, memVars, sumVars, outVars>>
  BY DEF DoReloc
<1>i. Inputs /\ Control
  BY DEF TypeInv
<1>3. CASE Fatal /\ UNCHANGED <<recIdx, relocs, nreloc>>
  <2>1. Control' /\ pc' = "failed"
    BY <1>3, FatalOK DEF Fatal
  <2>2. Inputs'
    BY <1>2, <1>3, <1>i, Zenon DEF Inputs
  <2> QED BY <1>1, <1>2, <2>1, <2>2, MemorySame, SumsSame, OutputSame DEF TypeInv
<1>4. CASE ~(Fatal /\ UNCHANGED <<recIdx, relocs, nreloc>>)
  <2>1. /\ recIdx' = recIdx + 1 /\ pc' = pc /\ work' = work /\ nreloc' = nreloc + 1
        /\ nreloc + 1 # Seg
        /\ relocs' = CASE job.reloc = "none"  -> relocs
                         [] job.reloc = "R" -> relocs \o <<PlaceOf(Rec.off) % Seg>>
                         [] job.reloc = "L" -> relocs \o <<PlaceOf(Rec.off) % Seg,
                                                           PlaceOf(Rec.off) \div (64 * Seg)>>
    BY <1>4, Zenon DEF DoReloc, NextRec
  <2>2. Control'
    BY <1>i, <2>1 DEF Control, WorkFilesGone
  <2>3. PlaceOf(Rec.off) % Seg \in Nat /\ PlaceOf(Rec.off) \div (64 * Seg) \in Nat
    <3>1. Rec.off \in Nat /\ Seg \in Nat \ {0} /\ 64 * Seg \in Nat \ {0} /\ textAddr \in Nat
      BY <1>1, <1>i, Sizes DEF Inputs
    <3>2. PlaceOf(Rec.off) \in Nat
      BY <3>1 DEF PlaceOf
    <3>3. \A n \in Nat \ {0} : PlaceOf(Rec.off) % n \in Nat /\ PlaceOf(Rec.off) \div n \in Nat
      <4> DEFINE w == PlaceOf(Rec.off)
      <4>1. w \in Nat
        BY <3>2
      <4> HIDE DEF w
      <4>2. ASSUME NEW n \in Nat \ {0} PROVE w % n \in Nat /\ w \div n \in Nat
        <5>1. w \div n \in Nat /\ w % n \in 0..(n - 1)
          BY <4>1, DivMod, Zenon
        <5> QED BY <5>1
      <4> QED BY <4>2 DEF w
    <3> QED BY <3>1, <3>3, Zenon
  <2>4. relocs' \in Seq(Nat)
    <3> DEFINE x == PlaceOf(Rec.off) % Seg
               y == PlaceOf(Rec.off) \div (64 * Seg)
    <3>1. job.reloc \in {"none", "R", "L"} /\ relocs \in Seq(Nat)
      BY <1>i, JobFacts DEF Inputs
    <3>2. x \in Nat /\ y \in Nat
      BY <2>3
    <3>3. relocs' \in {relocs, relocs \o <<x>>, relocs \o <<x, y>>}
      BY <2>1, <3>1
    <3> HIDE DEF x, y
    <3>4. <<x>> \in Seq(Nat) /\ <<x, y>> \in Seq(Nat)
      BY <3>2
    <3>5. \A r, q \in Seq(Nat) : r \o q \in Seq(Nat)
      OBVIOUS
    <3> QED BY <3>1, <3>3, <3>4, <3>5, Zenon
  <2>5. nreloc' \in 0..(Seg - 1) /\ item' \in 0..nreloc'
    <3>1. nreloc \in 0..(Seg - 1) /\ item \in 0..nreloc
      BY <1>i DEF Inputs
    <3>2. nreloc' = nreloc + 1 /\ nreloc + 1 # Seg /\ item' = item
      BY <1>2, <2>1
    <3>3. Seg \in Nat
      BY Sizes
    <3> QED BY <3>1, <3>2, <3>3
  <2>6. Inputs'
    BY <1>1, <1>2, <1>i, <2>1, <2>4, <2>5, Zenon DEF Inputs
  <2> QED BY <1>1, <1>2, <2>1, <2>2, <2>6, MemorySame, SumsSame, OutputSame DEF TypeInv
<1> QED BY <1>3, <1>4

LEMMA DoEndTypes == ASSUME TypeInv, DoEnd PROVE TypeInv'
<1>1. /\ pc = "records" /\ pc' \in {"count", "sums"} /\ work' = work
      /\ UNCHANGED <<job, inVars, memVars, sumVars, outVars>>
  BY DEF DoEnd, Reading
<1>2. Control'
  BY <1>1 DEF TypeInv, Control, WorkFilesGone, PCs
<1> QED BY <1>1, <1>2, InputsSame, MemorySame, SumsSame, OutputSame DEF TypeInv

\* What the relocation table is made of are bytes.
LEMMA WordBytes ==
  ASSUME NEW x \in Nat
  PROVE  Hi(x) \in Bytes /\ Lo(x) \in Bytes /\ Word(x) \in Seq(Bytes) /\ Len(Word(x)) = 2
         /\ LittleEndian(x) \in Seq(Bytes) /\ Len(LittleEndian(x)) = 2
<1>1. Byte \in Nat \ {0} /\ Bytes = 0..(Byte - 1)
  BY Sizes
<1>2. x \div Byte \in Nat
  BY <1>1, DivMod
<1>3. Hi(x) \in Bytes /\ Lo(x) \in Bytes
  BY <1>1, <1>2, DivMod, Zenon DEF Hi, Lo
<1>4. \A a, b \in Bytes : <<a, b>> \in Seq(Bytes) /\ Len(<<a, b>>) = 2
  OBVIOUS
<1> QED BY <1>3, <1>4, Zenon DEF Word, LittleEndian

LEMMA RelocWordNat == ASSUME relocs \in Seq(Nat), NEW i \in Nat \ {0} PROVE RelocWord(i) \in Nat
<1>1. Seg - 1 \in Nat
  BY Sizes
<1> QED BY <1>1 DEF RelocWord

LEMMA ItemBytesOK ==
  ASSUME relocs \in Seq(Nat), NEW k \in Nat \ {0}
  PROVE  ItemBytes(k) \in Seq(Bytes) /\ Len(ItemBytes(k)) \in Nat
<1>1. LittleEndian(RelocWord(k)) \in Seq(Bytes)
  BY RelocWordNat, WordBytes
<1>2. 3 * k - 2 \in Nat \ {0} /\ 3 * k \in Nat \ {0}
  OBVIOUS
<1>3. LittleEndian(RelocWord(3 * k - 2)) \in Seq(Bytes) /\ LittleEndian(RelocWord(3 * k)) \in Seq(Bytes)
  BY <1>2, RelocWordNat, WordBytes, Zenon
<1>4. \A r, q \in Seq(Bytes) : r \o q \in Seq(Bytes)
  OBVIOUS
<1>5. ItemBytes(k) \in Seq(Bytes)
  BY <1>1, <1>3, <1>4, Zenon DEF ItemBytes
<1> QED BY <1>5

LEMMA PutCountTypes == ASSUME TypeInv, PutCount PROVE TypeInv'
<1>1. /\ pc = "count" /\ Put(LittleEndian(nreloc), wrPos, "items")
      /\ UNCHANGED <<job, inVars, sumVars, outVars>>
  BY DEF PutCount
<1>2. wrPos \in Nat /\ nreloc \in 0..(Seg - 1)
  BY DEF TypeInv, Inputs
<1>3. nreloc \in Nat
  BY <1>2, Sizes
<1>4. LittleEndian(nreloc) \in Seq(Bytes)
  BY <1>3, WordBytes
<1>5. Memory' /\ Control' /\ pc' \in {"items", "failed", "crash"}
  <2>1. "items" \in PCs
    BY DEF PCs
  <2> QED BY <1>1, <1>2, <1>4, <2>1, PutOK
<1> QED BY <1>1, <1>5, InputsSame, SumsSame, OutputSame DEF TypeInv

LEMMA PutItemTypes == ASSUME TypeInv, PutItem PROVE TypeInv'
<1>1. /\ pc = "items" /\ item < nreloc /\ item' = item + 1
      /\ wrPos' = wrPos + Len(ItemBytes(item + 1))
      /\ Put(ItemBytes(item + 1), wrPos + 2, pc)
      /\ UNCHANGED <<job, recIdx, startAddr, textAddr, big, relocs, nreloc, sumVars, outVars>>
  BY DEF PutItem
<1>2. Inputs
  BY DEF TypeInv
<1>3. wrPos \in Nat /\ nreloc \in 0..(Seg - 1) /\ item \in 0..nreloc /\ relocs \in Seq(Nat)
  BY <1>2 DEF Inputs
<1>4. item + 1 \in Nat \ {0} /\ item + 1 \in 0..nreloc /\ wrPos + 2 \in Nat
  BY <1>1, <1>3, Sizes
<1>5. ItemBytes(item + 1) \in Seq(Bytes) /\ Len(ItemBytes(item + 1)) \in Nat
  BY <1>3, <1>4, ItemBytesOK
<1>6. Memory' /\ Control' /\ pc' \in {"items", "failed", "crash"}
  <2>1. "items" \in PCs
    BY DEF PCs
  <2> QED BY <1>1, <1>4, <1>5, <2>1, PutOK
<1>7. Inputs'
  <2>1. wrPos' \in Nat
    BY <1>1, <1>3, <1>5
  <2> QED BY <1>1, <1>2, <1>4, <2>1, Zenon DEF Inputs
<1> QED BY <1>1, <1>6, <1>7, SumsSame, OutputSame DEF TypeInv

LEMMA TableDoneTypes == ASSUME TypeInv, TableDone PROVE TypeInv'
<1>1. /\ pc = "items" /\ pc' = "sums" /\ work' = work
      /\ UNCHANGED <<job, inVars, memVars, sumVars, outVars>>
  BY DEF TableDone
<1>2. Control'
  BY <1>1 DEF TypeInv, Control, WorkFilesGone, PCs
<1> QED BY <1>1, <1>2, InputsSame, MemorySame, SumsSame, OutputSame DEF TypeInv

\* The sum that is being counted.
LEMMA SumIs ==
  ASSUME TypeInv, chkIdx <= Len(job.sums)
  PROVE  CurSum \in Sum /\ CurSum.addr1 \in 0..(Seg - 1) /\ CurSum.addr2 \in 0..(Seg - 1)
         /\ CurSum.where1 \in 0..(Seg - 1) /\ CurSum.where2 \in 0..(Seg - 1)
         /\ CurSum.offset \in Nat /\ chkIdx + 1 \in 1..(Len(job.sums) + 1)
<1>1. chkIdx \in 1..(Len(job.sums) + 1)
  BY DEF TypeInv, SumVars
<1>2. job.sums \in Seq(Sum) /\ Len(job.sums) \in Nat
  BY JobFacts DEF TypeInv, Inputs
<1>3. chkIdx \in 1..Len(job.sums) /\ chkIdx + 1 \in 1..(Len(job.sums) + 1)
  BY <1>1, <1>2
<1>4. CurSum \in Sum
  <2> HIDE DEF Sum
  <2> QED BY <1>2, <1>3 DEF CurSum
<1> QED BY <1>3, <1>4, Zenon DEF Sum

LEMMA SumStartTypes == ASSUME TypeInv, SumStart PROVE TypeInv'
<1>1. /\ pc = "sums" /\ chkIdx <= Len(job.sums) /\ pc' = "add"
      /\ loc' = CurSum.addr1 % Seg /\ crc' = CurSum.offset % Seg
      /\ Ltext' = Lowest(Ltext, loc') /\ Htext' = Highest(Htext, CurSum.addr2)
      /\ UNCHANGED <<job, inVars, mem, image, chkIdx, outVars, work>>
  BY DEF SumStart
<1>2. CurSum.addr1 \in 0..(Seg - 1) /\ CurSum.addr2 \in 0..(Seg - 1) /\ CurSum.offset \in Nat
  BY <1>1, SumIs
<1>3. Seg \in Nat \ {0} /\ Limit \in Nat \ {0} /\ Seg <= Limit
  BY Sizes
<1>4. loc' \in 0..(Seg - 1) /\ crc' \in 0..(Seg - 1)
  <2>1. CurSum.addr1 \in Nat
    BY <1>2, <1>3
  <2> QED BY <1>1, <1>2, <1>3, <2>1, DivMod, Zenon
<1>5. SumVars'
  BY <1>1, <1>4 DEF TypeInv, SumVars
<1>6. Memory'
  <2>1. /\ MemOK(mem) /\ mem.fault = "none" /\ Shows(mem, image)
        /\ Ltext \in 0..(Limit - 1) /\ Htext \in Nat /\ Htext <= Limit
        /\ DOMAIN image \subseteq Ltext..(Htext - 1)
    BY <1>1 DEF TypeInv, Memory
  <2>2. MemOK(mem)' /\ Shows(mem, image)'
    BY <1>1, <2>1 DEF MemOK, Shows, ByteAt
  <2>3. Ltext' \in 0..(Limit - 1) /\ Ltext' <= Ltext /\ Htext' \in Nat /\ Htext' <= Limit
        /\ Htext <= Htext'
    BY <1>1, <1>2, <1>3, <1>4, <2>1 DEF Lowest, Highest
  <2>4. DOMAIN image' \subseteq Ltext'..(Htext' - 1)
    BY <1>1, <1>3, <2>1, <2>3
  <2> QED BY <1>1, <2>1, <2>2, <2>3, <2>4 DEF Memory
<1>7. Control'
  BY <1>1 DEF TypeInv, Control, WorkFilesGone, PCs
<1> QED BY <1>1, <1>5, <1>6, <1>7, InputsSame, OutputSame DEF TypeInv

\* What Load finds is the image.
LEMMA LoadedShows ==
  ASSUME TypeInv, pc \notin {"failed", "crash"}, NEW a \in 0..(Limit - 1)
  PROVE  LET l == Load(mem, a \div BlkSize)
         IN  /\ MemOK(l) /\ l.fault \in {"none", "null", "memory"}
             /\ l.fault = "none" =>
                  /\ Shows(l, image)
                  /\ \A i \in 0..(BlkSize - 1) :
                       (a \div BlkSize) * BlkSize + i \in 0..(Limit - 1)
                         => l.buf[l.ptr[a \div BlkSize]][i]
                              = ByteAt(image, (a \div BlkSize) * BlkSize + i)
                  /\ l.ptr[a \div BlkSize] # 0
                  /\ \A i \in 0..(BlkSize - 1) : l.buf[l.ptr[a \div BlkSize]][i] \in Bytes
<1> DEFINE b == a \div BlkSize
           l == Load(mem, b)
           Block == [0..(BlkSize - 1) -> Bytes]
<1>1. b \in Blocks
  BY InBlock
<1>2. MemOK(mem) /\ mem.fault = "none" /\ Shows(mem, image) /\ job.bufs \in Nat
  BY JobFacts DEF TypeInv, Memory, Inputs
<1> HIDE DEF b
<1>3. /\ MemOK(l) /\ l.fault \in {"none", "null", "memory"}
      /\ l.fault = "none" => LoadedFrom(mem, l, b)
  BY <1>1, <1>2, LoadOK
<1> HIDE DEF l
<1>4. CASE l.fault = "none"
  <2>1. Shows(l, image) /\ b \in l.loaded
    BY <1>1, <1>2, <1>3, <1>4, LoadShows DEF LoadedFrom
  <2>2. l.ptr \in [Blocks -> Nat] /\ l.buf \in Seq(Block) /\ l.ptr[b] # 0 /\ l.ptr[b] <= Len(l.buf)
    BY <1>1, <1>3, <1>4, <2>1 DEF MemOK
  <2>3. l.ptr[b] \in 1..Len(l.buf)
    BY <1>1, <2>2
  <2>4. l.buf[l.ptr[b]] \in Block
    <3> HIDE DEF Block
    <3> QED BY <2>2, <2>3
  <2> QED BY <1>3, <2>1, <2>2, <2>4 DEF Shows, l, b
<1> QED BY <1>3, <1>4 DEF l, b

\* Peek sees the image.
LEMMA PeekIs ==
  ASSUME TypeInv, pc \notin {"failed", "crash"}, NEW a \in 0..(Limit - 1), NEW l,
         l = Load(mem, a \div BlkSize), l.fault = "none", NEW c \in 0..(Limit - 1),
         c \div BlkSize = a \div BlkSize
  PROVE  Peek(l, c) = ByteAt(image, c) /\ Peek(l, c) \in Bytes
<1>1. c % BlkSize \in 0..(BlkSize - 1) /\ c = (c \div BlkSize) * BlkSize + (c % BlkSize)
  BY InBlock
<1> DEFINE i == c % BlkSize
           b == a \div BlkSize
<1>2. i \in 0..(BlkSize - 1) /\ b * BlkSize + i = c
  BY <1>1
<1> HIDE DEF i, b
<1>3. l.buf[l.ptr[b]][i] = ByteAt(image, c) /\ l.buf[l.ptr[b]][i] \in Bytes
  <2>1. \A j \in 0..(BlkSize - 1) : b * BlkSize + j \in 0..(Limit - 1)
           => l.buf[l.ptr[b]][j] = ByteAt(image, b * BlkSize + j)
    BY LoadedShows, Zenon DEF b
  <2>2. \A j \in 0..(BlkSize - 1) : l.buf[l.ptr[b]][j] \in Bytes
    BY LoadedShows, Zenon DEF b
  <2> QED BY <1>2, <2>1, <2>2
<1>4. Peek(l, c) = l.buf[l.ptr[b]][i]
  BY Zenon DEF Peek, i, b
<1> QED BY <1>3, <1>4, Zenon

\* Memory after a load.
LEMMA LoadMemory ==
  ASSUME TypeInv, pc \notin {"failed", "crash"}, NEW a \in 0..(Limit - 1), job' = job,
         mem' = Load(mem, a \div BlkSize), UNCHANGED <<Ltext, Htext, image>>,
         pc' \notin {"failed", "crash"} => mem'.fault = "none"
  PROVE  Memory'
<1>1. /\ Ltext \in 0..(Limit - 1) /\ Htext \in Nat /\ Htext <= Limit
      /\ DOMAIN image \subseteq Ltext..(Htext - 1)
  BY DEF TypeInv, Memory
<1>2. MemOK(mem') /\ (mem'.fault = "none" => Shows(mem', image))
  BY LoadedShows
<1>3. MemOK(mem)' /\ (Shows(mem', image) => Shows(mem, image)')
  BY <1>2 DEF MemOK, Shows, ByteAt
<1> QED BY <1>1, <1>2, <1>3 DEF Memory

LEMMA SumByteTypes == ASSUME TypeInv, SumByte PROVE TypeInv'
<1>1. /\ pc = "add" /\ mem' = Load(mem, loc \div BlkSize) /\ work' = WorkWith(mem')
      /\ mem'.fault = "none" => /\ crc' = (crc + Peek(mem', loc)) % Seg
                                /\ loc' = (loc + 1) % Seg /\ pc' = pc
      /\ mem'.fault # "none" => /\ pc' = IF mem'.fault = "null" THEN "crash" ELSE "failed"
                                /\ crc' = crc /\ loc' = loc
      /\ UNCHANGED <<job, inVars, Ltext, Htext, image, chkIdx, outVars>>
  BY Zenon DEF SumByte
<1>2. Seg \in Nat \ {0} /\ Limit \in Nat \ {0} /\ Seg <= Limit /\ Bytes \subseteq Nat
  BY Sizes
<1>3. loc \in 0..(Seg - 1) /\ crc \in 0..(Seg - 1) /\ loc \in 0..(Limit - 1)
  BY <1>2 DEF TypeInv, SumVars
<1>4. mem'.fault \in {"none", "null", "memory"}
  BY <1>1, <1>3, LoadedShows
<1>5. Memory'
  BY <1>1, <1>3, <1>4, LoadMemory
<1>6. loc' \in 0..(Seg - 1) /\ crc' \in 0..(Seg - 1)
  <2>1. CASE mem'.fault = "none"
    <3>1. Peek(mem', loc) \in Bytes
      BY <1>1, <1>3, <2>1, PeekIs
    <3> DEFINE x == Peek(mem', loc)
    <3>x. x \in Nat
      BY <1>2, <3>1
    <3>2. crc + x \in Nat /\ loc + 1 \in Nat
      <4> HIDE DEF x
      <4> QED BY <1>2, <1>3, <3>x
    <3>3. (crc + x) % Seg \in 0..(Seg - 1) /\ (loc + 1) % Seg \in 0..(Seg - 1)
      BY <1>2, <3>2, DivMod, Zenon
    <3> QED BY <1>1, <2>1, <3>3, Zenon
  <2>2. CASE mem'.fault # "none"
    BY <1>1, <1>3, <2>2
  <2> QED BY <2>1, <2>2
<1>7. SumVars'
  BY <1>1, <1>6 DEF TypeInv, SumVars
<1>8. Control'
  <2>1. work \subseteq {"reloc", "swap"}
    BY DEF TypeInv, Control
  <2>2. work' \subseteq {"reloc", "swap"} /\ (mem'.fault = "memory" => work' = {})
    BY <1>1, <2>1 DEF WorkWith
  <2>3. pc' \in {"add", "crash", "failed"} /\ (pc' = "failed" => mem'.fault = "memory")
    BY <1>1, <1>4
  <2> QED BY <2>2, <2>3 DEF Control, PCs, WorkFilesGone
<1>9. pc' # "lines"
  BY <1>1
<1> QED BY <1>1, <1>5, <1>7, <1>8, <1>9, InputsSame, OutputSame DEF TypeInv

\* The bytes of a sum.
LEMMA SumBytesOK ==
  ASSUME NEW x \in Nat, NEW n \in {1, 2, 4}
  PROVE  LET s == SubSeq(<<Lo(x), Hi(x), 0, 0>>, 1, n)
         IN  s \in Seq(Bytes) /\ Reverse(s) \in Seq(Bytes) /\ Len(s) = n /\ Len(Reverse(s)) = n
<1> DEFINE w == <<Lo(x), Hi(x), 0, 0>>
           s == SubSeq(w, 1, n)
<1>1. Lo(x) \in Bytes /\ Hi(x) \in Bytes /\ 0 \in Bytes
  <2>1. 0 \in Bytes
    BY Sizes
  <2>2. Lo(x) \in Bytes /\ Hi(x) \in Bytes
    BY WordBytes
  <2> QED BY <2>1, <2>2
<1>2. w \in Seq(Bytes) /\ Len(w) = 4
  BY <1>1
<1> HIDE DEF w
<1>3. s \in Seq(Bytes) /\ Len(s) = n
  BY <1>2
<1> HIDE DEF s
<1>4. Reverse(s) \in Seq(Bytes) /\ Len(Reverse(s)) = n
  <2>1. Reverse(s) = [i \in 1..n |-> s[(n - i) + 1]]
    BY <1>3 DEF Reverse
  <2>2. \A i \in 1..n : s[(n - i) + 1] \in Bytes
    BY <1>3
  <2> QED BY <2>1, <2>2
<1> QED BY <1>3, <1>4 DEF s, w

\* What a sum puts, and where.
SumData == IF big THEN Reverse(SumBytes) ELSE SumBytes
SumAt == (CurSum.where1 % Seg) + (IF big /\ SumSize = 1 THEN 1 ELSE 0)

LEMMA SumPut ==
  ASSUME TypeInv, chkIdx <= Len(job.sums), SumSize \in {1, 2, 4}
  PROVE  SumData \in Seq(Bytes) /\ SumAt \in Nat /\ Len(SumData) = SumSize
         /\ SumAt = CurSum.where1 + (IF big /\ SumSize = 1 THEN 1 ELSE 0)
<1>1. CurSum.where1 \in 0..(Seg - 1) /\ Seg \in Nat \ {0} /\ crc \in 0..(Seg - 1)
  BY SumIs, Sizes DEF TypeInv, SumVars
<1>2. CurSum.where1 \in Nat /\ CurSum.where1 % Seg = CurSum.where1 /\ crc \in Nat
  <2>1. CurSum.where1 = Seg * 0 + CurSum.where1
    BY <1>1
  <2> QED BY <1>1, <2>1, DivUnique
<1>3. /\ SumBytes \in Seq(Bytes) /\ Reverse(SumBytes) \in Seq(Bytes)
      /\ Len(SumBytes) = SumSize /\ Len(Reverse(SumBytes)) = SumSize
  BY <1>2, SumBytesOK DEF SumBytes
<1>4. SumData \in {SumBytes, Reverse(SumBytes)}
  BY DEF SumData
<1>5. SumAt = CurSum.where1 + (IF big /\ SumSize = 1 THEN 1 ELSE 0)
  BY <1>2, Zenon DEF SumAt
<1>6. SumAt \in Nat
  <2>1. (IF big /\ SumSize = 1 THEN 1 ELSE 0) \in {0, 1}
    BY Zenon
  <2> QED BY <1>2, <1>5, <2>1
<1> QED BY <1>3, <1>4, <1>5, <1>6, Zenon

LEMMA SumStoreTypes == ASSUME TypeInv, SumStore PROVE TypeInv'
<1>1. pc = "add" /\ UNCHANGED <<job, inVars, outVars>> /\ chkIdx <= Len(job.sums)
  BY DEF SumStore, TypeInv, SumVars
<1>2. CASE SumSize \notin {1, 2, 4}
  <2>1. Fatal /\ UNCHANGED <<memVars, sumVars>> /\ pc' = "failed"
    BY <1>2, Zenon DEF SumStore, Fatal
  <2> QED BY <1>1, <2>1, FatalOK, InputsSame, MemorySame, SumsSame, OutputSame DEF TypeInv
<1>3. CASE SumSize \in {1, 2, 4}
  <2>1. Put(SumData, SumAt, "sums") /\ chkIdx' = chkIdx + 1 /\ UNCHANGED <<loc, crc>>
    BY <1>3, Zenon DEF SumStore, SumData, SumAt
  <2>2. SumData \in Seq(Bytes) /\ SumAt \in Nat
    BY <1>1, <1>3, SumPut
  <2>3. Memory' /\ Control' /\ pc' \in {"sums", "failed", "crash"}
    <3>1. "sums" \in PCs
      BY DEF PCs
    <3> QED BY <1>1, <2>1, <2>2, <3>1, PutOK
  <2>4. SumVars'
    <3>1. chkIdx + 1 \in 1..(Len(job.sums) + 1) /\ SumVars
      BY <1>1, SumIs DEF TypeInv
    <3>2. pc' # "add"
      BY <2>3
    <3> QED BY <1>1, <2>1, <3>1, <3>2, Zenon DEF SumVars
  <2> QED BY <1>1, <2>3, <2>4, InputsSame, OutputSame DEF TypeInv
<1> QED BY <1>2, <1>3

-----------------------------------------------------------------------------
(* Lines *)

LEMMA PlusBytes == ASSUME NEW s \in Seq(Bytes) PROVE Plus(s) \in Nat
<1>1. Len(s) \in Nat /\ \A i \in 1..Len(s) : s[i] \in Bytes
  OBVIOUS
<1>2. Bytes \subseteq Nat
  BY Sizes
<1> QED BY <1>1, <1>2, PlusNat

LEMMA NegOK ==
  ASSUME NEW x \in Nat
  PROVE  /\ Neg(x) \in Bytes /\ (x + Neg(x)) % Byte = 0
         /\ (Byte - 1) - (x % Byte) \in Bytes /\ (x + ((Byte - 1) - (x % Byte))) % Byte = Byte - 1
<1>1. Byte \in Nat \ {0} /\ Bytes = 0..(Byte - 1)
  BY Sizes
<1> DEFINE q == x \div Byte
           r == x % Byte
<1>2. q \in Nat /\ r \in 0..(Byte - 1) /\ x = Byte * q + r
  BY <1>1, DivMod
<1>3. Neg(x) = (Byte - r) % Byte
  BY DEF Neg
<1> HIDE DEF q, r
<1>4. (Byte - 1) - r \in Bytes /\ (x + ((Byte - 1) - r)) % Byte = Byte - 1
  <2>1. x + ((Byte - 1) - r) = Byte * q + (Byte - 1) /\ x + ((Byte - 1) - r) \in Nat
    BY <1>1, <1>2
  <2>2. Byte - 1 \in 0..(Byte - 1)
    BY <1>1
  <2>3. (x + ((Byte - 1) - r)) % Byte = Byte - 1
    BY <1>1, <1>2, <2>1, <2>2, DivUnique
  <2> QED BY <1>1, <1>2, <2>3
<1>5. CASE r = 0
  <2>1. Neg(x) = 0
    <3>1. Byte - r = Byte * 1 + 0 /\ 0 \in 0..(Byte - 1) /\ Byte - r \in Nat
      BY <1>1, <1>5
    <3> QED BY <1>1, <1>3, <3>1, DivUnique
  <2>2. (x + 0) % Byte = 0
    <3>1. x + 0 = Byte * q + 0 /\ 0 \in 0..(Byte - 1) /\ x + 0 \in Nat
      BY <1>1, <1>2, <1>5
    <3> QED BY <1>1, <1>2, <3>1, DivUnique
  <2> QED BY <1>1, <1>4, <2>1, <2>2 DEF r
<1>6. CASE r # 0
  <2>1. Neg(x) = Byte - r
    <3>1. Byte - r = Byte * 0 + (Byte - r) /\ Byte - r \in 0..(Byte - 1) /\ Byte - r \in Nat
      BY <1>1, <1>2, <1>6
    <3> QED BY <1>1, <1>3, <3>1, DivUnique
  <2>2. (x + (Byte - r)) % Byte = 0
    <3>1. x + (Byte - r) = Byte * (q + 1) + 0 /\ 0 \in 0..(Byte - 1) /\ x + (Byte - r) \in Nat
          /\ q + 1 \in Nat
      BY <1>1, <1>2
    <3> QED BY <1>1, <3>1, DivUnique
  <2> QED BY <1>1, <1>2, <1>4, <1>6, <2>1, <2>2 DEF r
<1> QED BY <1>5, <1>6

\* l is the line of s, closed: its bytes, their number and their sum.
IsClosed(l, t, s) ==
  /\ l.t = t /\ l.bytes \in Seq(Bytes) /\ Len(l.bytes) = Len(s) + 1
  /\ \A i \in 1..Len(s) : l.bytes[i] = s[i]
  /\ l = [t |-> t, bytes |-> l.bytes]
  /\ Plus(l.bytes) % Byte = IF job.fmt = "srec" THEN Byte - 1 ELSE 0

LEMMA ClosedOK ==
  ASSUME NEW t, NEW s \in Seq(Bytes)
  PROVE  IsClosed(Closed(t, s), t, s)
<1> DEFINE n == Plus(s)
           c == IF job.fmt = "srec" THEN (Byte - 1) - (n % Byte) ELSE Neg(n)
           b == Append(s, c)
<1>1. n \in Nat
  BY PlusBytes
<1>2. Closed(t, s) = [t |-> t, bytes |-> b]
  BY DEF Closed
<1> HIDE DEF n
<1>3. c \in Bytes /\ (n + c) % Byte = IF job.fmt = "srec" THEN Byte - 1 ELSE 0
  BY <1>1, NegOK
<1> HIDE DEF c
<1>4. b \in Seq(Bytes) /\ Len(b) = Len(s) + 1 /\ b[Len(s) + 1] = c
      /\ \A i \in 1..Len(s) : b[i] = s[i]
  BY <1>3
<1> HIDE DEF b
<1>5. Plus(b) = n + c
  <2>1. Len(s) \in Nat
    OBVIOUS
  <2> QED BY <1>4, <2>1, PlusOne, Zenon DEF n
<1> QED BY <1>2, <1>3, <1>4, <1>5 DEF IsClosed

LEMMA ValidMore ==
  ASSUME NEW s \in Seq(OutLine), NEW r \in Seq(OutLine), AllValid(s), AllValid(r)
  PROVE  s \o r \in Seq(OutLine) /\ AllValid(s \o r)
<1> HIDE DEF OutLine
<1>1. s \o r \in Seq(OutLine)
  OBVIOUS
<1>2. ASSUME NEW i \in DOMAIN (s \o r) PROVE LineValid((s \o r)[i])
  <2>1. CASE i \in DOMAIN s
    <3>1. (s \o r)[i] = s[i]
      BY <2>1
    <3> QED BY <2>1, <3>1 DEF AllValid
  <2>2. CASE i \notin DOMAIN s
    <3>1. i - Len(s) \in DOMAIN r /\ (s \o r)[i] = r[i - Len(s)]
      BY <2>2
    <3> QED BY <3>1 DEF AllValid
  <2> QED BY <2>1, <2>2
<1>3. \A i \in DOMAIN (s \o r) : (s \o r)[i] \in OutLine
  BY <1>1
<1> QED BY <1>1, <1>2, <1>3 DEF AllValid

LEMMA OneValid ==
  ASSUME NEW l \in OutLine, LineValid(l)
  PROVE  <<l>> \in Seq(OutLine) /\ AllValid(<<l>>)
<1> HIDE DEF OutLine
<1>1. \A i \in DOMAIN <<l>> : <<l>>[i] = l
  OBVIOUS
<1> QED BY <1>1 DEF AllValid

\* The head of a line and its data.
LEMMA Glue ==
  ASSUME NEW h \in Seq(Bytes), NEW d \in Seq(Bytes), h # <<>>
  PROVE  /\ h \o d \in Seq(Bytes) /\ h \o d # <<>> /\ Len(h \o d) = Len(h) + Len(d)
         /\ \A i \in 1..Len(h) : (h \o d)[i] = h[i]
         /\ (h \o d)[1] = h[1]
         /\ \A i \in 1..Len(d) : (h \o d)[Len(h) + i] = d[i]
OBVIOUS

LEMMA ClosedValid ==
  ASSUME NEW t \in LineTypes, NEW s \in Seq(Bytes), s # <<>>,
         t \in {"data", "ext"} => job.fmt # "srec" /\ s[1] = Len(s) - 4,
         t \in {"S0", "S1", "S2", "S9"} => job.fmt = "srec",
         t \in {"S0", "S1", "S9"} => s[1] = Len(s)
  PROVE  Closed(t, s) \in OutLine /\ LineValid(Closed(t, s))
<1> DEFINE l == Closed(t, s)
<1>1. /\ l.t = t /\ l.bytes \in Seq(Bytes) /\ Len(l.bytes) = Len(s) + 1
      /\ \A i \in 1..Len(s) : l.bytes[i] = s[i]
      /\ l = [t |-> t, bytes |-> l.bytes]
      /\ Plus(l.bytes) % Byte = IF job.fmt = "srec" THEN Byte - 1 ELSE 0
  BY ClosedOK DEF IsClosed
<1> HIDE DEF l
<1>2. 1 \in 1..Len(s) /\ Len(s) \in Nat
  OBVIOUS
<1>3. l \in OutLine
  BY <1>1 DEF OutLine
<1>4. l.bytes[1] = s[1]
  BY <1>1, <1>2
<1>5. LineValid(l)
  <2>1. t \in {"data", "ext"} => l.bytes[1] = Len(l.bytes) - 5 /\ Plus(l.bytes) % Byte = 0
    BY <1>1, <1>2, <1>4
  <2>2. t \in {"S0", "S1", "S9"} => l.bytes[1] = Len(l.bytes) - 1
    BY <1>1, <1>2, <1>4
  <2>3. t \in {"S0", "S1", "S2", "S9"} => Plus(l.bytes) % Byte = Byte - 1
    BY <1>1
  <2> QED BY <1>1, <2>1, <2>2, <2>3 DEF LineValid
<1> QED BY <1>3, <1>5 DEF l

-----------------------------------------------------------------------------
(* The loop of main *)

LEMMA StartOutputTypes == ASSUME TypeInv, StartOutput PROVE TypeInv'
<1>1. /\ pc = "sums" /\ startAddr' \in {Ltext, startAddr} /\ curAddr' = Ltext /\ work' = work
      /\ UNCHANGED <<job, recIdx, textAddr, big, relocs, nreloc, wrPos, item, symFile, memVars,
                     sumVars, segment, haveOrg>>
  BY DEF StartOutput
<1>2. Limit \in Nat \ {0} /\ 4 \in Bytes /\ 0 \in Bytes /\ 1 \in Bytes
  BY Sizes
<1>3. Ltext \in 0..(Limit - 1) /\ Htext \in Nat /\ Htext <= Limit /\ Inputs /\ Output
  BY <1>1 DEF TypeInv, Memory
<1>4. Inputs'
  <2>1. startAddr' \in Nat
    BY <1>1, <1>2, <1>3 DEF Inputs
  <2> QED BY <1>1, <1>3, <2>1, Zenon DEF Inputs
<1>5. curAddr' \in 0..Limit
  BY <1>1, <1>2, <1>3
<1>6. CASE Htext < Ltext
  <2>1. pc' \in {"crash", "adrift"} /\ UNCHANGED <<remaining, out>>
    BY <1>6, Zenon DEF StartOutput
  <2>2. Control'
    BY <1>1, <2>1 DEF TypeInv, Control, WorkFilesGone, PCs
  <2>3. Output'
    BY <1>1, <1>3, <1>5, <2>1, Zenon DEF Output
  <2> QED BY <1>1, <1>4, <2>1, <2>2, <2>3, MemorySame, SumsSame DEF TypeInv
<1>7. CASE ~(Htext < Ltext)
  <2>1. /\ pc' = "lines" /\ remaining' = Htext - Ltext
        /\ out' = IF job.fmt = "srec"
                  THEN <<Closed("S0", <<Len(NameBytes) + 3, 0, 0>> \o NameBytes)>> ELSE <<>>
    BY <1>7, Zenon DEF StartOutput
  <2>2. Control'
    BY <1>1, <2>1 DEF TypeInv, Control, WorkFilesGone, PCs
  <2>3. remaining' \in 0..Limit /\ curAddr' + remaining' = Htext'
    BY <1>1, <1>2, <1>3, <1>7, <2>1 DEF memVars
  <2>4. out' \in Seq(OutLine) /\ AllValid(out')
    <3>1. CASE job.fmt = "srec"
      <4> DEFINE s == <<Len(NameBytes) + 3, 0, 0>> \o NameBytes
                 l == Closed("S0", s)
      <4>1. Len(NameBytes) = 1 /\ NameBytes = <<1>>
        BY DEF NameBytes
      <4>2. s = <<4, 0, 0>> \o <<1>>
        BY <4>1
      <4>5. s \in Seq(Bytes) /\ Len(s) = 4 /\ s[1] = 4 /\ s # <<>>
        <5>1. <<4, 0, 0>> \in Seq(Bytes) /\ <<1>> \in Seq(Bytes)
          BY <1>2
        <5>2. <<4, 0, 0>> # <<>> /\ Len(<<4, 0, 0>>) = 3 /\ Len(<<1>>) = 1 /\ <<4, 0, 0>>[1] = 4
          OBVIOUS
        <5> HIDE DEF s
        <5>3. \A h, d \in Seq(Bytes) : h # <<>> => /\ h \o d \in Seq(Bytes) /\ h \o d # <<>>
                /\ Len(h \o d) = Len(h) + Len(d) /\ (h \o d)[1] = h[1]
          BY Glue
        <5> QED BY <4>2, <5>1, <5>2, <5>3
      <4> HIDE DEF s
      <4>3. l \in OutLine /\ LineValid(l)
        <5>1. "S0" \in LineTypes
          BY DEF LineTypes
        <5> QED BY <3>1, <4>5, <5>1, ClosedValid
      <4>4. out' = <<l>>
        BY <2>1, <3>1, Zenon DEF s
      <4> HIDE DEF l
      <4> QED BY <4>3, <4>4, OneValid
    <3>2. CASE job.fmt # "srec"
      BY <2>1, <3>2 DEF AllValid
    <3> QED BY <3>1, <3>2
  <2>5. Output'
    <3>1. segment' \in Nat /\ haveOrg' \in BOOLEAN
      BY <1>1, <1>3, Zenon DEF Output
    <3>2. AllValid(out)'
      BY <2>4 DEF AllValid, LineValid
    <3>3. Ltext' <= curAddr'
      BY <1>1, <1>3 DEF memVars
    <3> QED BY <1>5, <2>3, <2>4, <3>1, <3>2, <3>3, Zenon DEF Output
  <2> QED BY <1>1, <1>4, <2>1, <2>2, <2>5, MemorySame, SumsSame DEF TypeInv
<1> QED BY <1>6, <1>7

\* What a line is of: at least a byte, no byte of the next block.
LEMMA CountOK ==
  ASSUME TypeInv, pc = "lines", remaining # 0
  PROVE  /\ Count \in Nat \ {0} /\ Count <= remaining
         /\ Count <= LineMax /\ curAddr \in 0..(Limit - 1) /\ Ltext <= curAddr
         /\ curAddr + Count \in 0..Limit /\ remaining - Count \in 0..Limit
         /\ curAddr + Count <= Htext /\ Htext <= Limit /\ Htext = curAddr + remaining
         /\ \A i \in 1..Count : /\ curAddr + i - 1 \in 0..(Limit - 1)
                                /\ (curAddr + i - 1) \div BlkSize = curAddr \div BlkSize
<1> DEFINE r == curAddr % BlkSize
           q == curAddr \div BlkSize
           S == {LineMax, remaining, BlkSize - r}
<1>1. /\ BlkSize \in Nat \ {0} /\ Line \in Nat \ {0} /\ AsmLine \in Nat \ {0} /\ Limit \in Nat \ {0}
  BY Sizes
<1>2. /\ curAddr \in 0..Limit /\ remaining \in 0..Limit /\ curAddr + remaining = Htext
      /\ Ltext <= curAddr /\ Htext <= Limit /\ Ltext \in Nat
  <2>1. Ltext \in 0..(Limit - 1)
    BY DEF TypeInv, Memory
  <2> QED BY <1>1, <2>1 DEF TypeInv, Output, Memory
<1>3. curAddr \in Nat /\ remaining \in Nat \ {0} /\ curAddr \in 0..(Limit - 1)
  BY <1>1, <1>2
<1>4. q \in Nat /\ r \in 0..(BlkSize - 1) /\ curAddr = BlkSize * q + r
  BY <1>1, <1>3, DivMod
<1>5. LineMax \in Nat \ {0}
  BY <1>1 DEF LineMax
<1> HIDE DEF q, r
<1>6. S \subseteq Nat \ {0} /\ S # {}
  BY <1>1, <1>3, <1>4, <1>5
<1>7. Min(S) \in S /\ \A y \in S : Min(S) <= y
  BY <1>6, MinIn
<1>8. Count = Min(S)
  BY DEF Count, r
<1>9. Count \in Nat \ {0} /\ Count <= LineMax /\ Count <= remaining /\ Count <= BlkSize - r
  BY <1>6, <1>7, <1>8
<1>10. ASSUME NEW i \in 1..Count
       PROVE  curAddr + i - 1 \in 0..(Limit - 1) /\ (curAddr + i - 1) \div BlkSize = q
  <2> DEFINE a == curAddr + i - 1
  <2>1. a \in Nat /\ a \in 0..(Limit - 1) /\ r + i - 1 \in 0..(BlkSize - 1)
        /\ a = BlkSize * q + (r + i - 1)
    BY <1>1, <1>2, <1>3, <1>4, <1>9
  <2> HIDE DEF a
  <2>2. a \div BlkSize = q
    <3> DEFINE k == r + i - 1
    <3>1. k \in 0..(BlkSize - 1) /\ a = BlkSize * q + k
      BY <2>1
    <3> HIDE DEF k
    <3> QED BY <1>1, <1>4, <2>1, <3>1, DivUnique
  <2> QED BY <2>1, <2>2 DEF a
<1> QED BY <1>1, <1>2, <1>3, <1>9, <1>10 DEF q

LEMMA SkipLineTypes == ASSUME TypeInv, SkipLine PROVE TypeInv'
<1>1. /\ pc = "lines" /\ remaining # 0 /\ curAddr' = curAddr + Count
      /\ remaining' = remaining - Count
      /\ UNCHANGED <<job, pc, inVars, memVars, sumVars, segment, haveOrg, out, work>>
  BY DEF SkipLine
<1>2. /\ curAddr + Count \in 0..Limit /\ remaining - Count \in 0..Limit /\ Count \in Nat \ {0}
      /\ Ltext <= curAddr /\ Htext = curAddr + remaining /\ curAddr \in Nat /\ remaining \in Nat
      /\ Ltext \in Nat
  <2>1. Limit \in Nat \ {0} /\ remaining \in 0..Limit /\ Ltext \in 0..(Limit - 1)
    BY Sizes DEF TypeInv, Output, Memory
  <2> QED BY <1>1, <2>1, CountOK
<1>3. Control'
  BY <1>1 DEF TypeInv, Control, WorkFilesGone
<1>4. Output'
  <2>1. curAddr' + remaining' = Htext' /\ Ltext' <= curAddr'
    BY <1>1, <1>2 DEF memVars
  <2>2. Output
    BY DEF TypeInv
  <2> QED BY <1>1, <1>2, <2>1, <2>2, Zenon DEF Output
<1> QED BY <1>1, <1>3, <1>4, InputsSame, MemorySame, SumsSame DEF TypeInv

-----------------------------------------------------------------------------
(* What a loader reads in a line *)

LEMMA WordBack ==
  ASSUME NEW x \in Nat
  PROVE  WordOf(Hi(x), Lo(x)) = x % Seg
<1>1. Byte \in Nat \ {0} /\ Seg \in Nat \ {0} /\ Seg = Byte * Byte
  BY Sizes
<1> DEFINE y == x \div Byte
           lo == x % Byte
           z == y \div Byte
           hi == y % Byte
<1>2. y \in Nat /\ lo \in 0..(Byte - 1) /\ x = Byte * y + lo
  BY <1>1, DivMod
<1> HIDE DEF y, lo
<1>3. z \in Nat /\ hi \in 0..(Byte - 1) /\ y = Byte * z + hi
  BY <1>1, <1>2, DivMod
<1> HIDE DEF z, hi
<1> DEFINE w == hi * Byte + lo
<1>4. w \in Nat
  BY <1>1, <1>2, <1>3
<1>5. w < Seg
  <2>1. (Byte - 1 - hi) * Byte >= 0
    BY <1>1, <1>3
  <2>2. (Byte - 1 - hi) * Byte = Byte * Byte - Byte - hi * Byte
    BY <1>1, <1>3
  <2> QED BY <1>1, <1>2, <1>3, <2>1, <2>2
<1>6. x = Seg * z + w
  <2>1. Byte * (Byte * z + hi) = (Byte * Byte) * z + hi * Byte
    BY <1>1, <1>3
  <2> QED BY <1>1, <1>2, <1>3, <2>1
<1> HIDE DEF w
<1>7. x % Seg = w
  <2>1. w \in 0..(Seg - 1)
    BY <1>1, <1>4, <1>5
  <2> QED BY <1>1, <1>3, <1>6, <2>1, DivUnique
<1> QED BY <1>7 DEF WordOf, Hi, Lo, w, hi, lo, y

LEMMA SmallMod == ASSUME NEW n \in Nat \ {0}, NEW x \in 0..(n - 1) PROVE x % n = x /\ x \div n = 0
<1>1. x = n * 0 + x /\ x \in Nat
  OBVIOUS
<1> QED BY <1>1, DivUnique

\* l has the type t, begins with h and then has the data d.
IsLine(l, t, h, d) ==
  /\ l.t = t /\ \A i \in 1..Len(h) : l.bytes[i] = h[i]
  /\ \A i \in 1..Len(d) : l.bytes[Len(h) + i] = d[i]
  /\ Inner(l, Len(h) + 1) = d

LEMMA ClosedParts ==
  ASSUME NEW t, NEW h \in Seq(Bytes), NEW d \in Seq(Bytes)
  PROVE  IsLine(Closed(t, h \o d), t, h, d)
<1> DEFINE l == Closed(t, h \o d)
<1> DEFINE s == h \o d
           b == l.bytes
<1>1. /\ s \in Seq(Bytes) /\ Len(s) = Len(h) + Len(d) /\ Len(h) \in Nat /\ Len(d) \in Nat
      /\ \A i \in 1..Len(h) : s[i] = h[i]
      /\ \A i \in 1..Len(d) : s[Len(h) + i] = d[i]
  OBVIOUS
<1>2. l.t = t /\ b \in Seq(Bytes) /\ Len(b) = Len(s) + 1 /\ \A i \in 1..Len(s) : b[i] = s[i]
  <2> HIDE DEF s
  <2>1. IsClosed(Closed(t, s), t, s)
    BY <1>1, ClosedOK, Zenon
  <2> QED BY <2>1 DEF s, IsClosed
<1> HIDE DEF l, s
<1>3. Inner(l, Len(h) + 1) = SubSeq(b, Len(h) + 1, Len(h) + Len(d))
  BY <1>1, <1>2 DEF Inner
<1> HIDE DEF b
<1>4. \A i \in 1..Len(h) : b[i] = h[i]
  BY <1>1, <1>2
<1>5. \A i \in 1..Len(d) : b[Len(h) + i] = d[i]
  BY <1>1, <1>2
<1>6. SubSeq(b, Len(h) + 1, Len(h) + Len(d)) = d
  <2> DEFINE e == SubSeq(b, Len(h) + 1, Len(h) + Len(d))
  <2>1. Len(e) = Len(d) /\ e \in Seq(Bytes)
    BY <1>1, <1>2
  <2>2. ASSUME NEW i \in 1..Len(d) PROVE e[i] = d[i]
    <3>1. e[i] = b[Len(h) + i]
      BY <1>1, <1>2
    <3> QED BY <1>5, <3>1
  <2> HIDE DEF e
  <2>3. e = d
    BY <2>1, <2>2
  <2> QED BY <2>3 DEF e
<1> QED BY <1>2, <1>3, <1>4, <1>5, <1>6 DEF b, l, IsLine

LEMMA Heads ==
  ASSUME NEW a \in Bytes, NEW x \in Nat, NEW y \in Nat
  PROVE  /\ LET h == <<a>> \o Word(x)
            IN  h \in Seq(Bytes) /\ Len(h) = 3 /\ h[1] = a /\ h[2] = Hi(x) /\ h[3] = Lo(x)
         /\ LET h == <<a>> \o Word(x) \o <<0>>
            IN  h \in Seq(Bytes) /\ Len(h) = 4 /\ h[1] = a /\ h[2] = Hi(x) /\ h[3] = Lo(x)
         /\ LET h == <<a>> \o Word(x) \o Word(y)
            IN  h \in Seq(Bytes) /\ Len(h) = 5 /\ h[1] = a /\ h[2] = Hi(x) /\ h[3] = Lo(x)
                /\ h[4] = Hi(y) /\ h[5] = Lo(y)
<1> DEFINE p == Hi(x)
           q == Lo(x)
           r == Hi(y)
           u == Lo(y)
           g == <<a>> \o Word(x)
<1>1. p \in Bytes /\ q \in Bytes /\ r \in Bytes /\ u \in Bytes
  BY WordBytes
<1>2. 0 \in Bytes
  BY Sizes
<1>3. Word(x) = <<p, q>> /\ Word(y) = <<r, u>>
  BY DEF Word
<1> HIDE DEF p, q, r, u
<1>4. g \in Seq(Bytes) /\ Len(g) = 3 /\ g[1] = a /\ g[2] = p /\ g[3] = q
  BY <1>1, <1>3
<1> HIDE DEF g
<1>5. LET h == g \o <<0>>
      IN  h \in Seq(Bytes) /\ Len(h) = 4 /\ h[1] = a /\ h[2] = p /\ h[3] = q
  <2>1. <<0>> \in Seq(Bytes) /\ Len(<<0>>) = 1
    BY <1>2
  <2> DEFINE w == <<0>>
             h == g \o w
  <2> HIDE DEF w
  <2>w. w \in Seq(Bytes) /\ Len(w) = 1 /\ g \in Seq(Bytes)
    BY <1>4, <2>1 DEF w
  <2>x. h \in Seq(Bytes) /\ Len(h) = Len(g) + Len(w) /\ \A i \in 1..Len(g) : h[i] = g[i]
    <3>1. w \in Seq(Bytes) /\ g \in Seq(Bytes)
      BY <2>w
    <3> QED BY <3>1
  <2> HIDE DEF h
  <2>2. h \in Seq(Bytes) /\ Len(h) = 4 /\ \A i \in 1..3 : h[i] = g[i]
    BY <1>4, <2>w, <2>x
  <2>3. h[1] = a /\ h[2] = p /\ h[3] = q
    BY <1>4, <2>2
  <2> QED BY <2>2, <2>3 DEF h, w
<1>6. LET h == g \o Word(y)
      IN  h \in Seq(Bytes) /\ Len(h) = 5 /\ h[1] = a /\ h[2] = p /\ h[3] = q
          /\ h[4] = r /\ h[5] = u
  <2> DEFINE w == Word(y)
  <2>1. w \in Seq(Bytes) /\ Len(w) = 2 /\ w[1] = r /\ w[2] = u
    BY <1>1, <1>3
  <2> HIDE DEF w
  <2> DEFINE h == g \o w
  <2>x. /\ h \in Seq(Bytes) /\ Len(h) = Len(g) + Len(w) /\ \A i \in 1..Len(g) : h[i] = g[i]
        /\ \A i \in 1..Len(w) : h[Len(g) + i] = w[i]
    <3>1. w \in Seq(Bytes) /\ g \in Seq(Bytes)
      BY <1>4, <2>1
    <3> QED BY <3>1
  <2> HIDE DEF h
  <2>2. /\ h \in Seq(Bytes) /\ Len(h) = 3 + 2 /\ \A i \in 1..3 : h[i] = g[i]
        /\ \A i \in 1..2 : h[3 + i] = w[i]
    BY <1>4, <2>1, <2>x
  <2>3. h[3 + 1] = r /\ h[3 + 2] = u
    BY <2>1, <2>2
  <2>4. h[4] = r /\ h[5] = u /\ h[1] = a /\ h[2] = p /\ h[3] = q
    BY <1>4, <2>2, <2>3
  <2> QED BY <2>2, <2>4 DEF h, w
<1> QED BY <1>4, <1>5, <1>6, Zenon DEF p, q, r, u, g

\* A line of Intel hex and a new segment.
LEMMA IntelLine ==
  ASSUME NEW n \in Bytes, NEW x \in Nat, NEW d \in Seq(Bytes), NEW st
  PROVE  LoadLine(st, Closed("data", <<n>> \o Word(x) \o <<0>> \o d))
           = Lay(st, st.base + (x % Seg), d)
<1> DEFINE h == <<n>> \o Word(x) \o <<0>>
           l == Closed("data", h \o d)
<1>1. h \in Seq(Bytes) /\ Len(h) = 4 /\ h[2] = Hi(x) /\ h[3] = Lo(x)
  BY Heads, Zenon
<1> HIDE DEF h
<1>2. l = Closed("data", h \o d)
  OBVIOUS
<1> HIDE DEF l
<1>3. l.t = "data" /\ l.bytes[2] = h[2] /\ l.bytes[3] = h[3] /\ Inner(l, 5) = d
  <2>1. IsLine(l, "data", h, d)
    BY <1>1, <1>2, ClosedParts, Zenon
  <2> QED BY <1>1, <2>1 DEF IsLine
<1>4. WordIn(l, 2) = x % Seg
  BY <1>1, <1>3, WordBack DEF WordIn
<1>5. LoadLine(st, l) = Lay(st, st.base + WordIn(l, 2), Inner(l, 5))
  BY <1>3 DEF LoadLine
<1> QED BY <1>2, <1>3, <1>4, <1>5, Zenon DEF h

LEMMA ExtLine ==
  ASSUME NEW x \in Nat, NEW st
  PROVE  LoadLine(st, Closed("ext", <<2, 0, 0, 2>> \o Word(x)))
           = [st EXCEPT !.base = (x % Seg) * Nibble]
<1> DEFINE h == <<2, 0, 0, 2>>
           w == Word(x)
           l == Closed("ext", h \o w)
<1>1. h \in Seq(Bytes) /\ Len(h) = 4
  <2>1. 2 \in Bytes /\ 0 \in Bytes
    BY Sizes
  <2> QED BY <2>1
<1>2. w \in Seq(Bytes) /\ Len(w) = 2 /\ w[1] = Hi(x) /\ w[2] = Lo(x)
  BY WordBytes DEF Word
<1> HIDE DEF h, w
<1>3. l = Closed("ext", h \o w)
  OBVIOUS
<1> HIDE DEF l
<1>4. l.t = "ext" /\ \A i \in 1..Len(w) : l.bytes[4 + i] = w[i]
  <2>1. IsLine(l, "ext", h, w)
    BY <1>1, <1>2, <1>3, ClosedParts, Zenon
  <2> QED BY <1>1, <2>1 DEF IsLine
<1>5. l.bytes[5] = Hi(x) /\ l.bytes[6] = Lo(x)
  <2>1. l.bytes[4 + 1] = Hi(x) /\ l.bytes[4 + 2] = Lo(x)
    BY <1>2, <1>4
  <2> QED BY <2>1
<1>6. WordIn(l, 5) = x % Seg
  BY <1>5, WordBack DEF WordIn
<1>7. LoadLine(st, l) = [st EXCEPT !.base = WordIn(l, 5) * Nibble]
  BY <1>4 DEF LoadLine
<1> QED BY <1>3, <1>6, <1>7, Zenon DEF h, w

\* The lines of S records.
LEMMA SLines ==
  ASSUME NEW n \in Bytes, NEW x \in Nat, NEW y \in Nat, NEW d \in Seq(Bytes), NEW st
  PROVE  /\ LoadLine(st, Closed("S1", <<n>> \o Word(x) \o d)) = Lay(st, x % Seg, d)
         /\ LoadLine(st, Closed("S2", <<n>> \o Word(x) \o Word(y) \o d))
              = Lay(st, (x % Seg) * Seg + (y % Seg), d)
<1>1. LoadLine(st, Closed("S1", <<n>> \o Word(x) \o d)) = Lay(st, x % Seg, d)
  <2> DEFINE h == <<n>> \o Word(x)
             l == Closed("S1", h \o d)
  <2>1. h \in Seq(Bytes) /\ Len(h) = 3 /\ h[2] = Hi(x) /\ h[3] = Lo(x)
    BY Heads, Zenon
  <2> HIDE DEF h
  <2>2. l = Closed("S1", h \o d)
    OBVIOUS
  <2> HIDE DEF l
  <2>3. l.t = "S1" /\ l.bytes[2] = h[2] /\ l.bytes[3] = h[3] /\ Inner(l, 4) = d
    <3>1. IsLine(l, "S1", h, d)
      BY <2>1, <2>2, ClosedParts, Zenon
    <3> QED BY <2>1, <3>1 DEF IsLine
  <2>4. WordIn(l, 2) = x % Seg
    BY <2>1, <2>3, WordBack DEF WordIn
  <2>5. LoadLine(st, l) = Lay(st, WordIn(l, 2), Inner(l, 4))
    BY <2>3 DEF LoadLine
  <2> QED BY <2>2, <2>3, <2>4, <2>5, Zenon DEF h
<1>2. LoadLine(st, Closed("S2", <<n>> \o Word(x) \o Word(y) \o d))
        = Lay(st, (x % Seg) * Seg + (y % Seg), d)
  <2> DEFINE h == <<n>> \o Word(x) \o Word(y)
             l == Closed("S2", h \o d)
  <2>1. h \in Seq(Bytes) /\ Len(h) = 5 /\ h[2] = Hi(x) /\ h[3] = Lo(x) /\ h[4] = Hi(y) /\ h[5] = Lo(y)
    BY Heads, Zenon
  <2> HIDE DEF h
  <2>2. l = Closed("S2", h \o d)
    OBVIOUS
  <2> HIDE DEF l
  <2>3. /\ l.t = "S2" /\ l.bytes[2] = h[2] /\ l.bytes[3] = h[3] /\ l.bytes[4] = h[4]
        /\ l.bytes[5] = h[5] /\ Inner(l, 6) = d
    <3>1. IsLine(l, "S2", h, d)
      BY <2>1, <2>2, ClosedParts, Zenon
    <3> QED BY <2>1, <3>1 DEF IsLine
  <2>4. WordIn(l, 2) = x % Seg /\ WordIn(l, 4) = y % Seg
    BY <2>1, <2>3, WordBack DEF WordIn
  <2>5. LoadLine(st, l) = Lay(st, WordIn(l, 2) * Seg + WordIn(l, 4), Inner(l, 6))
    BY <2>3 DEF LoadLine
  <2> QED BY <2>2, <2>3, <2>4, <2>5, Zenon DEF h
<1> QED BY <1>1, <1>2

-----------------------------------------------------------------------------
(* The lines of the image *)

GoodLine(l) == l \in OutLine /\ LineValid(l)

LEMMA ClosedGood ==
  ASSUME NEW t \in LineTypes, NEW h \in Seq(Bytes), NEW d \in Seq(Bytes), h # <<>>,
         t \in {"data", "ext"} => job.fmt # "srec" /\ h[1] = Len(h) + Len(d) - 4,
         t \in {"S0", "S1", "S2", "S9"} => job.fmt = "srec",
         t \in {"S0", "S1", "S9"} => h[1] = Len(h) + Len(d)
  PROVE  GoodLine(Closed(t, h \o d))
<1> DEFINE s == h \o d
<1>1. s \in Seq(Bytes) /\ s # <<>> /\ Len(s) = Len(h) + Len(d) /\ s[1] = h[1]
  BY Glue
<1> HIDE DEF s
<1>2. t \in {"data", "ext"} => job.fmt # "srec" /\ s[1] = Len(s) - 4
  BY <1>1
<1>3. t \in {"S0", "S1", "S9"} => s[1] = Len(s)
  BY <1>1
<1>4. Closed(t, s) \in OutLine /\ LineValid(Closed(t, s))
  BY <1>1, <1>2, <1>3, ClosedValid, Zenon
<1> QED BY <1>4, Zenon DEF GoodLine, s

LEMMA PlainGood ==
  ASSUME NEW t \in LineTypes \ {"data", "ext", "S0", "S1", "S2", "S9"}, NEW s \in Seq(Bytes)
  PROVE  GoodLine([t |-> t, bytes |-> s])
BY DEF GoodLine, OutLine, LineValid

LEMMA OneGood == ASSUME NEW l, GoodLine(l) PROVE <<l>> \in Seq(OutLine) /\ AllValid(<<l>>)
BY OneValid, Zenon DEF GoodLine

LEMMA TwoGood ==
  ASSUME NEW c, NEW k, NEW l, GoodLine(k), GoodLine(l)
  PROVE  LET s == (IF c THEN <<>> ELSE <<k>>) \o <<l>>
         IN  s \in Seq(OutLine) /\ AllValid(s)
<1> DEFINE r == IF c THEN <<>> ELSE <<k>>
<1>1. <<k>> \in Seq(OutLine) /\ AllValid(<<k>>) /\ <<l>> \in Seq(OutLine) /\ AllValid(<<l>>)
  BY OneGood
<1>2. <<>> \in Seq(OutLine) /\ AllValid(<<>>)
  BY DEF AllValid
<1>3. r \in Seq(OutLine) /\ AllValid(r)
  BY <1>1, <1>2, Zenon
<1> HIDE DEF r
<1>4. r \o <<l>> \in Seq(OutLine) /\ AllValid(r \o <<l>>)
  BY <1>1, <1>3, ValidMore, Zenon
<1> QED BY <1>4, Zenon DEF r

\* The address of a segment.
LEMMA SegmentIs ==
  ASSUME curAddr \in Nat
  PROVE  /\ NewSegment = Seg * (curAddr \div Seg) /\ NewSegment \in Nat
         /\ curAddr \div Seg \in Nat /\ NewSegment \div Nibble \in Nat
         /\ curAddr = NewSegment + (curAddr % Seg)
<1>1. Seg \in Nat \ {0} /\ Nibble \in Nat \ {0}
  BY Sizes
<1> DEFINE q == curAddr \div Seg
           r == curAddr % Seg
<1>2. q \in Nat /\ r \in 0..(Seg - 1) /\ curAddr = Seg * q + r
  BY <1>1, DivMod
<1>3. NewSegment = curAddr - r
  BY DEF NewSegment
<1> HIDE DEF q, r
<1>4. NewSegment = Seg * q /\ NewSegment \in Nat
  BY <1>1, <1>2, <1>3
<1>5. NewSegment \div Nibble \in Nat
  BY <1>1, <1>4, DivMod, Zenon
<1> QED BY <1>1, <1>2, <1>3, <1>4, <1>5 DEF q, r

LEMMA NotEmpty == \A h \in Seq(Bytes) : Len(h) = 3 => h # <<>>
OBVIOUS

LEMMA DataLinesOK ==
  ASSUME TypeInv, pc = "lines", remaining # 0, NEW data \in Seq(Bytes), Len(data) = Count
  PROVE  DataLines(data) \in Seq(OutLine) /\ AllValid(DataLines(data))
<1>1. /\ Count \in Nat \ {0} /\ Count <= LineMax /\ curAddr \in Nat
      /\ job.fmt \in {"intel", "srec", "asm", "bin"}
  <2>1. Limit \in Nat
    BY Sizes
  <2> QED BY <2>1, CountOK, JobFacts DEF TypeInv, Inputs
<1>2. CASE job.fmt = "bin"
  <2> DEFINE l == [t |-> "bin", bytes |-> data, at |-> curAddr - imageOffset]
  <2>1. imageOffset \in Int
    <3>1. job.base \in Nat \cup {NoBase} /\ Ltext \in 0..(Limit - 1) /\ Limit \in Nat
      BY JobFacts, Sizes DEF TypeInv, Inputs, Memory
    <3> QED BY <3>1 DEF imageOffset, NoBase
  <2>2. GoodLine(l)
    <3>1. curAddr - imageOffset \in Int
      BY <1>1, <2>1
    <3> QED BY <3>1 DEF GoodLine, OutLine, LineValid
  <2>3. DataLines(data) = <<l>>
    BY <1>2 DEF DataLines
  <2> HIDE DEF l
  <2> QED BY <2>2, <2>3, OneGood
<1>3. CASE job.fmt = "asm"
  <2> DEFINE k == [t |-> "ORG", bytes |-> Word(curAddr)]
             l == [t |-> "HEX", bytes |-> data]
  <2>1. GoodLine(k) /\ GoodLine(l)
    <3>1. {"ORG", "HEX"} \subseteq LineTypes \ {"data", "ext", "S0", "S1", "S2", "S9"}
      BY DEF LineTypes
    <3>2. Word(curAddr) \in Seq(Bytes)
      BY <1>1, WordBytes
    <3> QED BY <3>1, <3>2, PlainGood
  <2>2. DataLines(data) = (IF haveOrg THEN <<>> ELSE <<k>>) \o <<l>>
    BY <1>3, Zenon DEF DataLines
  <2> HIDE DEF k, l
  <2> QED BY <2>1, <2>2, TwoGood, Zenon
<1>4. CASE job.fmt = "srec"
  <2>1. LineMax = Line
    BY <1>4 DEF LineMax
  <2>2. Count + 3 \in Bytes /\ Count + 4 \in Bytes
    BY <1>1, <2>1, Sizes
  <2>3. GoodLine(Closed("S1", (<<Count + 3>> \o Word(curAddr)) \o data))
    <3> DEFINE h == <<Count + 3>> \o Word(curAddr)
    <3>1. h \in Seq(Bytes) /\ Len(h) = 3 /\ h[1] = Count + 3
      BY <1>1, <2>2, Heads, Zenon
    <3> HIDE DEF h
    <3>a. "S1" \in LineTypes
      BY DEF LineTypes
    <3>2. h # <<>> /\ h[1] = Len(h) + Len(data)
      <4> DEFINE n == Count
      <4>1. n \in Nat /\ h[1] = n + 3 /\ Len(data) = n
        BY <1>1, <3>1
      <4> HIDE DEF n
      <4>2. h[1] = Len(h) + Len(data)
        BY <3>1, <4>1
      <4>3. h # <<>>
        BY <3>1, NotEmpty, Zenon
      <4> QED BY <4>2, <4>3
    <3>3. GoodLine(Closed("S1", h \o data))
      BY <1>4, <3>1, <3>2, <3>a, ClosedGood
    <3> QED BY <3>3 DEF h
  <2>4. GoodLine(Closed("S2", (<<Count + 4>> \o Word(curAddr \div Seg) \o Word(curAddr)) \o data))
    <3> DEFINE h == <<Count + 4>> \o Word(curAddr \div Seg) \o Word(curAddr)
    <3>1. h \in Seq(Bytes) /\ Len(h) = 5
      <4>1. curAddr \div Seg \in Nat
        BY <1>1, SegmentIs
      <4>2. \A a \in Bytes : \A x, y \in Nat :
              LET g == <<a>> \o Word(x) \o Word(y) IN g \in Seq(Bytes) /\ Len(g) = 5
        BY Heads, Zenon
      <4> QED BY <1>1, <2>2, <4>1, <4>2, Zenon
    <3> HIDE DEF h
    <3>2. h # <<>> /\ "S2" \in LineTypes
      BY <3>1 DEF LineTypes
    <3>3. GoodLine(Closed("S2", h \o data))
      BY <1>4, <3>1, <3>2, ClosedGood
    <3> QED BY <3>3 DEF h
  <2>5. CASE curAddr >= Seg
    <3>1. DataLines(data)
            = <<Closed("S2", (<<Count + 4>> \o Word(curAddr \div Seg) \o Word(curAddr)) \o data)>>
      BY <1>4, <2>5, Zenon DEF DataLines
    <3> QED BY <2>4, <3>1, OneGood, Zenon
  <2>6. CASE ~(curAddr >= Seg)
    <3>1. DataLines(data) = <<Closed("S1", (<<Count + 3>> \o Word(curAddr)) \o data)>>
      BY <1>4, <2>6, Zenon DEF DataLines
    <3> QED BY <2>3, <3>1, OneGood, Zenon
  <2> QED BY <2>5, <2>6
<1>5. CASE job.fmt = "intel"
  <2> DEFINE x == NewSegment \div Nibble
             k == Closed("ext", <<2, 0, 0, 2>> \o Word(x))
             l == Closed("data", (<<Count>> \o Word(curAddr) \o <<0>>) \o data)
  <2>1. LineMax = Line
    BY <1>5 DEF LineMax
  <2>2. Count \in Bytes
    BY <1>1, <2>1, Sizes
  <2>3. GoodLine(k)
    <3> DEFINE h == <<2, 0, 0, 2>>
               w == Word(x)
    <3>1. w \in Seq(Bytes) /\ Len(w) = 2
      <4>1. x \in Nat
        BY <1>1, SegmentIs
      <4> HIDE DEF x
      <4> QED BY <4>1, WordBytes
    <3>2. h \in Seq(Bytes) /\ Len(h) = 4 /\ h[1] = 2 /\ h # <<>> /\ "ext" \in LineTypes
      BY Sizes DEF LineTypes
    <3> HIDE DEF h, w
    <3>3. h[1] = Len(h) + Len(w) - 4 /\ job.fmt # "srec"
      BY <1>5, <3>1, <3>2
    <3>4. GoodLine(Closed("ext", h \o w))
      BY <3>1, <3>2, <3>3, ClosedGood
    <3> QED BY <3>4 DEF h, w
  <2>4. GoodLine(l)
    <3> DEFINE h == <<Count>> \o Word(curAddr) \o <<0>>
    <3>1. h \in Seq(Bytes) /\ Len(h) = 4 /\ h[1] = Count
      BY <1>1, <2>2, Heads, Zenon
    <3> HIDE DEF h
    <3>2. h # <<>> /\ h[1] = Len(h) + Len(data) - 4 /\ "data" \in LineTypes /\ job.fmt # "srec"
      BY <1>1, <1>5, <3>1 DEF LineTypes
    <3>3. GoodLine(Closed("data", h \o data))
      BY <3>1, <3>2, ClosedGood
    <3> QED BY <3>3 DEF h
  <2>5. DataLines(data) = (IF segment = NewSegment THEN <<>> ELSE <<k>>) \o <<l>>
    BY <1>5, Zenon DEF DataLines
  <2> HIDE DEF k, l
  <2> QED BY <2>3, <2>4, <2>5, TwoGood, Zenon
<1> QED BY <1>1, <1>2, <1>3, <1>4, <1>5

\* What is read for a line is the image.
LineData(m) == [i \in 1..Count |-> Peek(m, curAddr + i - 1)]

LEMMA LineDataOK ==
  ASSUME TypeInv, pc = "lines", remaining # 0, NEW m, m = Load(mem, curAddr \div BlkSize),
         m.fault = "none"
  PROVE  /\ LineData(m) \in Seq(Bytes) /\ Len(LineData(m)) = Count
         /\ \A i \in 1..Count : LineData(m)[i] = ByteAt(image, curAddr + i - 1)
<1>1. /\ Count \in Nat \ {0} /\ curAddr \in 0..(Limit - 1)
      /\ \A i \in 1..Count : /\ curAddr + i - 1 \in 0..(Limit - 1)
                             /\ (curAddr + i - 1) \div BlkSize = curAddr \div BlkSize
  BY CountOK
<1>2. ASSUME NEW i \in 1..Count
      PROVE  /\ Peek(m, curAddr + i - 1) = ByteAt(image, curAddr + i - 1)
             /\ Peek(m, curAddr + i - 1) \in Bytes
  <2> DEFINE c == curAddr + i - 1
  <2>1. c \in 0..(Limit - 1) /\ c \div BlkSize = curAddr \div BlkSize
    BY <1>1
  <2> HIDE DEF c
  <2>2. Peek(m, c) = ByteAt(image, c) /\ Peek(m, c) \in Bytes
    BY <1>1, <2>1, PeekIs
  <2> QED BY <2>2 DEF c
<1> DEFINE w == LineData(m)
<1>3. w = [i \in 1..Count |-> Peek(m, curAddr + i - 1)]
  BY DEF LineData
<1>4. \A i \in 1..Count : w[i] = Peek(m, curAddr + i - 1)
  BY <1>3, Zenon
<1>5. w = [i \in 1..Count |-> w[i]]
  BY <1>3, Zenon
<1> HIDE DEF w
<1>6. \A i \in 1..Count : w[i] = ByteAt(image, curAddr + i - 1) /\ w[i] \in Bytes
  BY <1>2, <1>4, Zenon
<1>7. w \in Seq(Bytes) /\ Len(w) = Count
  <2> DEFINE n == Count
  <2>1. n \in Nat /\ w = [i \in 1..n |-> w[i]] /\ \A i \in 1..n : w[i] \in Bytes
    BY <1>1, <1>5, <1>6
  <2> HIDE DEF n
  <2>2. w \in Seq(Bytes) /\ Len(w) = n
    BY <2>1
  <2> QED BY <2>2 DEF n
<1> QED BY <1>6, <1>7 DEF w

\* The two ways a line ends: it is written, or the run is over.
LEMMA WriteLineIs ==
  ASSUME TypeInv, WriteLine
  PROVE  /\ pc = "lines" /\ remaining # 0 /\ mem.ptr[curAddr \div BlkSize] # 0
         /\ mem' = Load(mem, curAddr \div BlkSize)
         /\ UNCHANGED <<job, inVars, Ltext, Htext, image, sumVars>>
         /\ \/ pc' = "crash" /\ UNCHANGED <<work, outVars>>
            \/ /\ mem'.fault = "none" /\ job.fmt = "bin" /\ DataLines(LineData(mem'))[1].at < 0
               /\ Fatal /\ UNCHANGED outVars
            \/ /\ mem'.fault = "none"
               /\ ~(job.fmt = "bin" /\ DataLines(LineData(mem'))[1].at < 0)
               /\ out' = out \o DataLines(LineData(mem'))
               /\ segment' = IF job.fmt = "intel" THEN NewSegment ELSE segment
               /\ haveOrg' = (haveOrg \/ job.fmt = "asm")
               /\ curAddr' = curAddr + Count /\ remaining' = remaining - Count
               /\ UNCHANGED <<pc, work>>
BY Zenon DEF WriteLine, LineData

LEMMA WriteLineTypes == ASSUME TypeInv, WriteLine PROVE TypeInv'
<1>1. /\ pc = "lines" /\ remaining # 0 /\ mem' = Load(mem, curAddr \div BlkSize)
      /\ UNCHANGED <<job, inVars, Ltext, Htext, image, sumVars>>
  BY WriteLineIs, Zenon
<1>2. /\ Count \in Nat \ {0} /\ curAddr \in 0..(Limit - 1)
      /\ curAddr + Count \in 0..Limit /\ remaining - Count \in 0..Limit
      /\ Ltext <= curAddr /\ Htext = curAddr + remaining
      /\ Ltext \in Nat /\ curAddr \in Nat /\ remaining \in Nat
  <2>1. Limit \in Nat \ {0} /\ remaining \in 0..Limit /\ Ltext \in 0..(Limit - 1)
    BY Sizes DEF TypeInv, Output, Memory
  <2> QED BY <1>1, <2>1, CountOK
<1>3. Control /\ Output
  BY DEF TypeInv
<1>4. CASE pc' = "crash" /\ UNCHANGED <<work, outVars>>
  <2>1. Memory'
    BY <1>1, <1>2, <1>4, LoadMemory
  <2>2. Control'
    BY <1>3, <1>4 DEF Control, WorkFilesGone, PCs
  <2> QED BY <1>1, <1>4, <2>1, <2>2, InputsSame, SumsSame, OutputSame DEF TypeInv
<1>5. CASE Fatal /\ UNCHANGED outVars
  <2>0. pc' = "failed"
    BY <1>5 DEF Fatal
  <2>1. Memory'
    BY <1>1, <1>2, <2>0, LoadMemory
  <2>2. Control'
    BY <1>5, FatalOK
  <2> QED BY <1>1, <1>5, <2>0, <2>1, <2>2, InputsSame, SumsSame, OutputSame DEF TypeInv
<1>6. CASE /\ mem'.fault = "none" /\ out' = out \o DataLines(LineData(mem'))
           /\ segment' = IF job.fmt = "intel" THEN NewSegment ELSE segment
           /\ haveOrg' = (haveOrg \/ job.fmt = "asm")
           /\ curAddr' = curAddr + Count /\ remaining' = remaining - Count
           /\ UNCHANGED <<pc, work>>
  <2>1. Memory'
    BY <1>1, <1>2, <1>6, LoadMemory
  <2>2. Control'
    BY <1>3, <1>6, Zenon DEF Control, WorkFilesGone
  <2>3. out' \in Seq(OutLine) /\ AllValid(out')
    <3> DEFINE w == LineData(mem')
               d == DataLines(w)
    <3>1. w \in Seq(Bytes) /\ Len(w) = Count
      BY <1>1, <1>6, LineDataOK
    <3> HIDE DEF w
    <3>2. d \in Seq(OutLine) /\ AllValid(d)
      BY <1>1, <3>1, DataLinesOK
    <3> HIDE DEF d
    <3>3. out \in Seq(OutLine) /\ AllValid(out)
      BY <1>3 DEF Output
    <3>4. out \o d \in Seq(OutLine) /\ AllValid(out \o d)
      BY <3>2, <3>3, ValidMore, Zenon
    <3> QED BY <1>6, <3>4, Zenon DEF d, w
  <2>4. segment' \in Nat /\ haveOrg' \in BOOLEAN
    <3>1. NewSegment \in Nat /\ segment \in Nat
      BY <1>2, <1>3, SegmentIs DEF Output
    <3>2. segment' \in {NewSegment, segment}
      BY <1>6
    <3>3. haveOrg' \in BOOLEAN
      BY <1>6, Zenon
    <3> QED BY <3>1, <3>2, <3>3, Zenon
  <2>5. AllValid(out)'
    BY <2>3 DEF AllValid, LineValid
  <2>6. curAddr' + remaining' = Htext' /\ Ltext' <= curAddr'
    BY <1>1, <1>2, <1>6
  <2>7. Output'
    BY <1>2, <1>6, <2>3, <2>4, <2>5, <2>6, Zenon DEF Output
  <2>8. pc' # "add"
    BY <1>1, <1>6
  <2> QED BY <1>1, <2>1, <2>2, <2>7, <2>8, InputsSame, SumsSame DEF TypeInv
<1> QED BY <1>4, <1>5, <1>6, WriteLineIs, Zenon

LEMMA EndLineOK ==
  ASSUME TypeInv
  PROVE  EndLine \in Seq(OutLine) /\ AllValid(EndLine)
<1>1. startAddr \in Nat /\ Word(startAddr) \in Seq(Bytes) /\ Len(Word(startAddr)) = 2
      /\ Hi(startAddr) \in Nat /\ Lo(startAddr) \in Nat
  <2>1. startAddr \in Nat
    BY DEF TypeInv, Inputs
  <2>a. Bytes \subseteq Nat
    BY Sizes
  <2>2. Hi(startAddr) \in Bytes /\ Lo(startAddr) \in Bytes /\ Bytes \subseteq Nat
    BY <2>1, <2>a, WordBytes, Zenon
  <2> QED BY <2>1, <2>2, WordBytes
<1>2. job.fmt \in {"intel", "srec", "asm", "bin"}
  BY JobFacts DEF TypeInv, Inputs
<1>3. CASE job.fmt = "bin"
  BY <1>3 DEF EndLine, AllValid
<1>4. CASE job.fmt = "asm"
  <2>1. GoodLine([t |-> "END", bytes |-> Word(startAddr)])
    <3>1. "END" \in LineTypes \ {"data", "ext", "S0", "S1", "S2", "S9"}
      BY DEF LineTypes
    <3> QED BY <1>1, <3>1, PlainGood
  <2>2. EndLine = <<[t |-> "END", bytes |-> Word(startAddr)]>>
    BY <1>4 DEF EndLine
  <2> QED BY <2>1, <2>2, OneGood, Zenon
<1>5. CASE job.fmt = "srec"
  <2> DEFINE h == <<3>>
             w == Word(startAddr)
  <2>1. h \in Seq(Bytes) /\ Len(h) = 1 /\ h[1] = 3 /\ h # <<>> /\ "S9" \in LineTypes
    BY Sizes DEF LineTypes
  <2>2. w \in Seq(Bytes) /\ Len(w) = 2
    BY <1>1
  <2> HIDE DEF h, w
  <2>3. h[1] = Len(h) + Len(w)
    BY <2>1, <2>2
  <2>4. GoodLine(Closed("S9", h \o w))
    BY <1>5, <2>1, <2>2, <2>3, ClosedGood
  <2>5. EndLine = <<Closed("S9", h \o w)>>
    BY <1>5 DEF EndLine, h, w
  <2> QED BY <2>4, <2>5, OneGood, Zenon
<1>6. CASE job.fmt = "intel"
  <2> DEFINE n == Neg(Hi(startAddr) + Lo(startAddr) + 3)
             w == Word(startAddr)
             b == <<0>> \o w \o <<1, n>>
  <2>1. n \in Bytes /\ 0 \in Bytes /\ 1 \in Bytes
    <3>1. Hi(startAddr) + Lo(startAddr) + 3 \in Nat
      BY <1>1
    <3>2. 0 \in Bytes /\ 1 \in Bytes
      BY Sizes
    <3> QED BY <3>1, <3>2, NegOK, Zenon
  <2>2. w \in Seq(Bytes)
    BY <1>1
  <2> HIDE DEF n, w
  <2>3. <<0>> \in Seq(Bytes) /\ <<1, n>> \in Seq(Bytes)
    BY <2>1
  <2>4. \A r, q \in Seq(Bytes) : r \o q \in Seq(Bytes)
    OBVIOUS
  <2>5. b \in Seq(Bytes)
    BY <2>2, <2>3, <2>4, Zenon
  <2>6. GoodLine([t |-> "end", bytes |-> b])
    <3>1. "end" \in LineTypes \ {"data", "ext", "S0", "S1", "S2", "S9"}
      BY DEF LineTypes
    <3> HIDE DEF b
    <3> QED BY <2>5, <3>1, PlainGood
  <2>7. EndLine = <<[t |-> "end", bytes |-> b]>>
    BY <1>6, Zenon DEF EndLine, n, w
  <2> HIDE DEF b
  <2> QED BY <2>6, <2>7, OneGood, Zenon
<1> QED BY <1>2, <1>3, <1>4, <1>5, <1>6

LEMMA EndOutputTypes == ASSUME TypeInv, EndOutput PROVE TypeInv'
<1>1. /\ pc = "lines" /\ out' = out \o EndLine /\ pc' = "done" /\ work' = {}
      /\ UNCHANGED <<job, inVars, memVars, sumVars, curAddr, remaining, segment, haveOrg>>
  BY DEF EndOutput
<1>2. Control'
  BY <1>1 DEF Control, WorkFilesGone, PCs
<1>3. Output'
  <2>1. Output
    BY DEF TypeInv
  <2>2. out \in Seq(OutLine) /\ AllValid(out)
    BY <2>1 DEF Output
  <2> DEFINE e == EndLine
  <2>3. e \in Seq(OutLine) /\ AllValid(e)
    BY EndLineOK
  <2> HIDE DEF e
  <2>4. out \o e \in Seq(OutLine) /\ AllValid(out \o e)
    BY <2>2, <2>3, ValidMore, Zenon
  <2>5. out' \in Seq(OutLine) /\ AllValid(out')
    BY <1>1, <2>4, Zenon DEF e
  <2>6. AllValid(out)'
    BY <2>5 DEF AllValid, LineValid
  <2>7. pc' # "lines"
    BY <1>1
  <2> QED BY <1>1, <2>1, <2>5, <2>6, <2>7, Zenon DEF Output
<1> QED BY <1>1, <1>2, <1>3, InputsSame, MemorySame, SumsSame DEF TypeInv

-----------------------------------------------------------------------------
(* Every step keeps the types *)

LEMMA ExitedTypes == ASSUME TypeInv, UNCHANGED vars PROVE TypeInv'
<1>1. UNCHANGED <<job, pc, inVars, memVars, sumVars, outVars, work>>
  BY DEF vars
<1>2. Control' /\ Inputs'
  BY <1>1, InputsSame DEF TypeInv, Control, WorkFilesGone
<1>3. Memory'
  <2>1. mem' = mem /\ image' = image /\ Ltext' = Ltext /\ Htext' = Htext /\ job' = job /\ pc' = pc
    BY <1>1 DEF memVars
  <2>2. Memory
    BY DEF TypeInv
  <2>3. (MemOK(mem) => MemOK(mem)') /\ (Shows(mem, image) => Shows(mem, image)')
    BY <2>1 DEF MemOK, Shows, ByteAt
  <2> QED BY <2>1, <2>2, <2>3 DEF Memory
<1>4. SumVars'
  BY <1>1 DEF TypeInv, SumVars, sumVars
<1>5. Output'
  <2>1. /\ curAddr' = curAddr /\ remaining' = remaining /\ segment' = segment
        /\ haveOrg' = haveOrg /\ out' = out /\ pc' = pc /\ Ltext' = Ltext /\ Htext' = Htext
    BY <1>1, Zenon DEF outVars, memVars
  <2>2. Output
    BY DEF TypeInv
  <2> QED BY <2>1, <2>2, Zenon DEF Output
<1> QED BY <1>2, <1>3, <1>4, <1>5 DEF TypeInv

LEMMA NextTypes == ASSUME TypeInv, [Next]_vars PROVE TypeInv'
<1>1. CASE ReadRec
  BY <1>1, ReadRecFailsTypes, DoTextTypes, DoStartTypes, DoIdentTypes, DoSymTypes, DoRelocTypes,
     DoEndTypes DEF ReadRec
<1>2. CASE PutCount \/ PutItem \/ TableDone
  BY <1>2, PutCountTypes, PutItemTypes, TableDoneTypes
<1>3. CASE SumStart \/ SumByte \/ SumStore
  BY <1>3, SumStartTypes, SumByteTypes, SumStoreTypes
<1>4. CASE StartOutput \/ SkipLine \/ WriteLine \/ EndOutput
  BY <1>4, StartOutputTypes, SkipLineTypes, WriteLineTypes, EndOutputTypes
<1>5. CASE Exited
  BY <1>5, ExitedTypes DEF Exited
<1>6. CASE UNCHANGED vars
  BY <1>6, ExitedTypes
<1> QED BY <1>1, <1>2, <1>3, <1>4, <1>5, <1>6 DEF Next, Step

LEMMA AlwaysTypes == Spec => []TypeInv
BY InitTypes, NextTypes, PTL DEF Spec

\* Every variable keeps its type: the sums and the addresses of the table have 16 bits, what
\* is kept in the blocks and written are bytes, no two blocks in memory have one buffer
\* (loadBlk), and main's loop goes from _Ltext to _Htext.
THEOREM TypesKept == Spec => []TypeOK
<1>1. TypeInv => TypeOK
  BY TypeOKOf
<1> QED BY <1>1, AlwaysTypes, PTL

\* Whether a run ends well or with fatalErr, wherever that is, reloc.$$$ and swap.$$$ are
\* removed.
THEOREM NoWorkFileLeft == Spec => []WorkFilesGone
<1>1. TypeInv => WorkFilesGone
  BY DEF TypeInv, Control
<1> QED BY <1>1, AlwaysTypes, PTL

\* Every line that is written has the right count and the right sum.
THEOREM LinesValid == Spec => []RecordsValid
<1>1. TypeInv => RecordsValid
  BY Zenon DEF TypeInv, Output, AllValid, LineValid, RecordsValid
<1> QED BY <1>1, AlwaysTypes, PTL

-----------------------------------------------------------------------------
(* What a loader makes of the lines so far *)

Reader == LoadAll(IF job.fmt = "bin" THEN imageOffset ELSE 0, out)

\* The bytes below n that are in blocks, and no others.
LaidTo(l, n) ==
  /\ l = [base |-> l.base, image |-> l.image]
  /\ DOMAIN l.image = {a \in Ltext..(n - 1) : mem.ptr[a \div BlkSize] # 0}
  /\ \A a \in DOMAIN l.image : l.image[a] = ByteAt(image, a)

\* where the next line of l's format goes
Based(l) ==
  /\ job.fmt = "intel" => l.base = segment
  /\ job.fmt = "bin" => l.base = imageOffset
  /\ job.fmt = "asm" => (haveOrg => l.base = curAddr) /\ (~haveOrg => curAddr = Ltext)

Laid ==
  /\ pc \in {"lines", "done"} /\ Loadable => LaidTo(Reader, curAddr)
  /\ pc = "lines" /\ Loadable => Based(Reader)
  /\ pc = "done" => curAddr = Htext
  /\ pc \in {"records", "count", "items", "sums", "add"} => segment = 0 /\ ~haveOrg

LEMMA ReadOn ==
  ASSUME NEW base, NEW s \in Seq(OutLine), NEW l \in OutLine
  PROVE  LoadAll(base, s \o <<l>>) = LoadLine(LoadAll(base, s), l)
<1> HIDE DEF OutLine
<1> DEFINE t == s \o <<l>>
<1>1. /\ Len(s) \in Nat /\ Len(t) = Len(s) + 1 /\ \A i \in 1..Len(s) : s[i] = t[i]
      /\ t[Len(s) + 1] = l
  OBVIOUS
<1> HIDE DEF t
<1>2. LoadAll(base, t) = LoadLine(LoadAll(base, s), t[Len(s) + 1])
  BY <1>1, LoadOne
<1> QED BY <1>1, <1>2, Zenon DEF t

LEMMA ReadOnTwo ==
  ASSUME NEW base, NEW s \in Seq(OutLine), NEW k \in OutLine, NEW l \in OutLine
  PROVE  /\ LoadAll(base, s \o (<<>> \o <<l>>)) = LoadLine(LoadAll(base, s), l)
         /\ LoadAll(base, s \o (<<k>> \o <<l>>)) = LoadLine(LoadLine(LoadAll(base, s), k), l)
<1> HIDE DEF OutLine
<1>1. LoadAll(base, s \o (<<>> \o <<l>>)) = LoadLine(LoadAll(base, s), l)
  <2>1. s \o (<<>> \o <<l>>) = s \o <<l>>
    OBVIOUS
  <2>2. LoadAll(base, s \o <<l>>) = LoadLine(LoadAll(base, s), l)
    BY ReadOn, Zenon
  <2> QED BY <2>1, <2>2, Zenon
<1>2. LoadAll(base, s \o (<<k>> \o <<l>>)) = LoadLine(LoadLine(LoadAll(base, s), k), l)
  <2> DEFINE t == s \o <<k>>
  <2>1. s \o (<<k>> \o <<l>>) = t \o <<l>> /\ t \in Seq(OutLine)
    OBVIOUS
  <2>2. LoadAll(base, t) = LoadLine(LoadAll(base, s), k)
    BY ReadOn, Zenon
  <2> HIDE DEF t
  <2>3. LoadAll(base, t \o <<l>>) = LoadLine(LoadAll(base, t), l)
    BY <2>1, ReadOn, Zenon
  <2> QED BY <2>1, <2>2, <2>3, Zenon
<1> QED BY <1>1, <1>2, Zenon

\* A block that a line was read from was in memory already.
LEMMA LoadSame ==
  ASSUME TypeInv, pc \notin {"failed", "crash"}, NEW b, mem.ptr[b] # 0, Load(mem, b).fault = "none"
  PROVE  Load(mem, b) = mem
<1>1. mem.fault = "none" /\ MemOK(mem)
  BY DEF TypeInv, Memory
<1>2. CASE b \in mem.loaded
  BY <1>2 DEF Load
<1>3. CASE b \notin mem.loaded
  <2>1. Load(mem, b) = [mem EXCEPT !.ptr[b] = 0, !.loaded = @ \cup {b}, !.fault = "null"]
    BY <1>1, <1>3 DEF Load
  <2>2. Load(mem, b).fault = "null"
    BY <1>1, <2>1 DEF MemOK
  <2> QED BY <2>2
<1> QED BY <1>2, <1>3

\* A line of data is about to be written, and the lines before it are right.
Ready(data) ==
  /\ TypeInv /\ pc = "lines" /\ remaining # 0 /\ mem.ptr[curAddr \div BlkSize] # 0
  /\ Loadable /\ LaidTo(Reader, curAddr) /\ Based(Reader)
  /\ data \in Seq(Bytes) /\ Len(data) = Count
  /\ \A i \in 1..Count : data[i] = ByteAt(image, curAddr + i - 1)

\* the lines with those of data
ReaderWith(data) == LoadAll(IF job.fmt = "bin" THEN imageOffset ELSE 0, out \o DataLines(data))

\* and what is right about them
NextLaid(r) ==
  /\ LaidTo(r, curAddr + Count)
  /\ job.fmt = "intel" => r.base = NewSegment
  /\ job.fmt = "bin" => r.base = imageOffset
  /\ job.fmt = "asm" => r.base = curAddr + Count

\* A line at curAddr, laid over what is there.
LEMMA ReadyLay ==
  ASSUME NEW data, Ready(data), NEW base, NEW k, k = [base |-> base, image |-> Reader.image]
  PROVE  LaidTo(Lay(k, curAddr, data), curAddr + Count) /\ Lay(k, curAddr, data).base = base
<1> DEFINE r == Lay(k, curAddr, data)
           n == Count
           b == curAddr \div BlkSize
           l == Reader
<1>0. /\ TypeInv /\ pc = "lines" /\ remaining # 0 /\ mem.ptr[curAddr \div BlkSize] # 0
      /\ LaidTo(l, curAddr) /\ data \in Seq(Bytes) /\ Len(data) = Count
      /\ \A i \in 1..Count : data[i] = ByteAt(image, curAddr + i - 1)
      /\ k = [base |-> base, image |-> l.image]
  BY Zenon DEF Ready
<1> HIDE DEF l
<1>1. /\ n \in Nat \ {0} /\ curAddr \in Nat /\ Ltext \in Nat /\ Ltext <= curAddr
      /\ \A i \in 1..n : (curAddr + i - 1) \div BlkSize = b
  <2>1. Ltext \in 0..(Limit - 1) /\ Limit \in Nat
    BY <1>0, Sizes DEF TypeInv, Memory
  <2> QED BY <1>0, <2>1, CountOK
<1>2. DOMAIN data = 1..n /\ \A i \in 1..n : data[i] = ByteAt(image, curAddr + i - 1)
  BY <1>0, <1>1
<1>3. mem.ptr[b] # 0
  BY <1>0
<1> HIDE DEF n, b
<1> DEFINE D == {curAddr + i - 1 : i \in DOMAIN data}
           f == [a \in DOMAIN l.image \cup D |->
                   IF a >= curAddr /\ a - curAddr + 1 \in DOMAIN data THEN data[a - curAddr + 1]
                   ELSE l.image[a]]
<1>4. r = [base |-> base, image |-> f]
  BY <1>0 DEF Lay
<1>5. DOMAIN l.image = {a \in Ltext..(curAddr - 1) : mem.ptr[a \div BlkSize] # 0}
      /\ \A a \in DOMAIN l.image : l.image[a] = ByteAt(image, a)
  BY <1>0, Zenon DEF LaidTo
<1>6. D = curAddr..(curAddr + n - 1)
  <2>1. \A a \in curAddr..(curAddr + n - 1) : a - curAddr + 1 \in 1..n
                                              /\ a = curAddr + (a - curAddr + 1) - 1
    BY <1>1
  <2> QED BY <1>1, <1>2, <2>1
<1>7. ASSUME NEW a \in curAddr..(curAddr + n - 1)
      PROVE  a \div BlkSize = b /\ f[a] = ByteAt(image, a)
  <2>1. a - curAddr + 1 \in 1..n /\ curAddr + (a - curAddr + 1) - 1 = a /\ a >= curAddr
    BY <1>1
  <2>2. a \in D
    BY <1>6
  <2>3. f[a] = data[a - curAddr + 1]
    BY <1>2, <2>1, <2>2
  <2> HIDE DEF f, D
  <2> DEFINE i == a - curAddr + 1
  <2>4. i \in 1..n /\ curAddr + i - 1 = a /\ f[a] = data[i]
    BY <2>1, <2>3
  <2> HIDE DEF i
  <2> QED BY <1>1, <1>2, <2>4
<1>8. DOMAIN f = {a \in Ltext..((curAddr + n) - 1) : mem.ptr[a \div BlkSize] # 0}
  <2>1. DOMAIN f = DOMAIN l.image \cup D
    OBVIOUS
  <2> HIDE DEF f, D
  <2>2. \A a \in curAddr..(curAddr + n - 1) : mem.ptr[a \div BlkSize] # 0
    BY <1>3, <1>7
  <2>3. \A a : a \in Ltext..((curAddr + n) - 1)
                 <=> a \in Ltext..(curAddr - 1) \/ a \in curAddr..(curAddr + n - 1)
    BY <1>1
  <2> QED BY <1>5, <1>6, <2>1, <2>2, <2>3, Zenon
<1>9. ASSUME NEW a \in DOMAIN f PROVE f[a] = ByteAt(image, a)
  <2>1. CASE a \in D
    BY <1>6, <1>7, <2>1
  <2>2. CASE a \notin D
    <3>1. a \in DOMAIN l.image
      BY <2>2
    <3>2. ~(a >= curAddr)
      BY <1>1, <1>5, <3>1
    <3>3. f[a] = l.image[a]
      BY <3>1, <3>2
    <3> QED BY <1>5, <3>1, <3>3
  <2> QED BY <2>1, <2>2
<1> HIDE DEF f
<1>10. r.base = base /\ r.image = f
  BY <1>4
<1> HIDE DEF r
<1>11. r = [base |-> r.base, image |-> r.image]
  BY <1>4, <1>10
<1>12. LaidTo(r, curAddr + n)
  BY <1>8, <1>9, <1>10, <1>11, Zenon DEF LaidTo
<1> QED BY <1>10, <1>12 DEF r, n

LEMMA LineSizes ==
  ASSUME NEW n \in Nat \ {0}, n <= Line
  PROVE  n \in Bytes /\ n + 3 \in Bytes /\ n + 4 \in Bytes
BY Sizes

\* An address has few segments.
LEMMA FewSegments ==
  ASSUME NEW a \in Nat, a < Limit
  PROVE  /\ a \div Seg \in Nat /\ (a \div Seg) % Seg = a \div Seg /\ a \div Seg < Nibble
         /\ (a \div Seg) * Seg + (a % Seg) = a
         /\ a < Seg => a % Seg = a
<1>1. Seg \in Nat \ {0} /\ Nibble \in Nat \ {0} /\ Nibble <= Seg /\ Limit \in Nat
  <2>1. Nibble \in Nat \ {0} /\ Byte = Nibble * Nibble /\ Byte <= Seg /\ Seg \in Nat \ {0}
        /\ Limit \in Nat
    BY Sizes
  <2>2. Nibble * Nibble >= Nibble
    BY <2>1
  <2> QED BY <2>1, <2>2
<1> DEFINE q == a \div Seg
<1>2. q \in Nat /\ a % Seg \in 0..(Seg - 1) /\ a = Seg * q + (a % Seg)
  BY <1>1, DivMod
<1>3. q < Nibble
  <2>1. a < Seg * Nibble
    <3>1. Limit <= Seg * Nibble /\ Seg * Nibble \in Nat
      BY <1>1, Sizes
    <3> QED BY <1>1, <3>1
  <2> QED BY <1>1, <2>1, DivLess
<1> HIDE DEF q
<1>4. q % Seg = q
  <2>1. q \in 0..(Seg - 1)
    BY <1>1, <1>2, <1>3
  <2> QED BY <1>1, <2>1, SmallMod
<1>5. q * Seg + (a % Seg) = a
  BY <1>1, <1>2
<1>6. a < Seg => a % Seg = a
  <2>1. ASSUME a < Seg PROVE a % Seg = a
    <3>1. a \in 0..(Seg - 1)
      BY <1>1, <2>1
    <3> QED BY <1>1, <3>1, SmallMod
  <2> QED BY <2>1
<1> QED BY <1>2, <1>3, <1>4, <1>5, <1>6 DEF q

LEMMA ReadyFacts ==
  ASSUME NEW data, Ready(data)
  PROVE  /\ Reader = [base |-> Reader.base, image |-> Reader.image] /\ Based(Reader)
         /\ curAddr \in Nat /\ curAddr < Limit /\ Count \in Nat \ {0} /\ Count <= LineMax
         /\ imageOffset \in Int /\ out \in Seq(OutLine) /\ data \in Seq(Bytes)
         /\ Len(data) = Count
<1>1. /\ TypeInv /\ pc = "lines" /\ remaining # 0 /\ LaidTo(Reader, curAddr) /\ Based(Reader)
      /\ data \in Seq(Bytes) /\ Len(data) = Count
  BY Zenon DEF Ready
<1>2. Reader = [base |-> Reader.base, image |-> Reader.image]
  BY <1>1, Zenon DEF LaidTo
<1>3. Count \in Nat \ {0} /\ Count <= LineMax /\ curAddr \in 0..(Limit - 1)
  BY <1>1, CountOK
<1>4. curAddr \in Nat /\ curAddr < Limit
  BY <1>3, Sizes
<1>5. imageOffset \in Int
  <2>1. job.base \in Nat \cup {NoBase} /\ Ltext \in 0..(Limit - 1) /\ Limit \in Nat
    BY <1>1, JobFacts, Sizes DEF TypeInv, Inputs, Memory
  <2> QED BY <2>1 DEF imageOffset, NoBase
<1>6. out \in Seq(OutLine)
  BY <1>1, Zenon DEF TypeInv, Output
<1> QED BY <1>1, <1>2, <1>3, <1>4, <1>5, <1>6, Zenon

LEMMA BinRead == ASSUME NEW data, Ready(data), job.fmt = "bin" PROVE NextLaid(ReaderWith(data))
<1> DEFINE l == Reader
           k == [t |-> "bin", bytes |-> data, at |-> curAddr - imageOffset]
           r == ReaderWith(data)
<1>1. /\ l = [base |-> l.base, image |-> l.image] /\ l.base = imageOffset
      /\ curAddr \in Nat /\ imageOffset \in Int /\ out \in Seq(OutLine) /\ data \in Seq(Bytes)
  BY ReadyFacts, Zenon DEF Based
<1>2. k \in OutLine
  <2>1. curAddr - imageOffset \in Int
    BY <1>1
  <2> QED BY <1>1, <2>1 DEF OutLine
<1>3. r = LoadLine(l, k)
  <2>1. DataLines(data) = <<k>>
    BY DEF DataLines
  <2> HIDE DEF k
  <2>2. r = LoadAll(IF job.fmt = "bin" THEN imageOffset ELSE 0, out \o <<k>>)
    BY <2>1, Zenon DEF ReaderWith
  <2> QED BY <1>1, <1>2, <2>2, ReadOn, Zenon DEF Reader
<1> DEFINE a == l.base + k.at
<1>4. LoadLine(l, k) = Lay(l, a, data)
  BY DEF LoadLine
<1> HIDE DEF l, r
<1>5. a = curAddr
  <2>1. a = imageOffset + (curAddr - imageOffset)
    BY <1>1
  <2> QED BY <1>1, <2>1
<1> HIDE DEF k, a
<1>6. r = Lay(l, curAddr, data)
  BY <1>3, <1>4, <1>5
<1>7. LaidTo(Lay(l, curAddr, data), curAddr + Count) /\ Lay(l, curAddr, data).base = l.base
  BY <1>1, ReadyLay, Zenon DEF l
<1>8. LaidTo(r, curAddr + Count) /\ r.base = imageOffset
  BY <1>1, <1>6, <1>7, Zenon
<1>9. job.fmt # "intel" /\ job.fmt # "asm"
  OBVIOUS
<1> QED BY <1>8, <1>9, Zenon DEF NextLaid, r

LEMMA AsmRead == ASSUME NEW data, Ready(data), job.fmt = "asm" PROVE NextLaid(ReaderWith(data))
<1> DEFINE l == Reader
           o == [t |-> "ORG", bytes |-> Word(curAddr)]
           k == [t |-> "HEX", bytes |-> data]
           r == ReaderWith(data)
           st == IF haveOrg THEN l ELSE LoadLine(l, o)
<1>1. /\ l = [base |-> l.base, image |-> l.image]
      /\ (haveOrg => l.base = curAddr) /\ (~haveOrg => curAddr = Ltext)
      /\ curAddr \in Nat /\ out \in Seq(OutLine) /\ data \in Seq(Bytes) /\ Len(data) = Count
  BY ReadyFacts, Zenon DEF Based
<1>2. o \in OutLine /\ k \in OutLine
  <2>1. Word(curAddr) \in Seq(Bytes) /\ {"ORG", "HEX"} \subseteq LineTypes
    BY <1>1, WordBytes DEF LineTypes
  <2> QED BY <1>1, <2>1 DEF OutLine
<1>3. r = LoadLine(st, k)
  <2>1. DataLines(data) = (IF haveOrg THEN <<>> ELSE <<o>>) \o <<k>>
    BY Zenon DEF DataLines
  <2> HIDE DEF o, k
  <2>2. r = LoadAll(IF job.fmt = "bin" THEN imageOffset ELSE 0,
                    out \o ((IF haveOrg THEN <<>> ELSE <<o>>) \o <<k>>))
    BY <2>1, Zenon DEF ReaderWith
  <2> DEFINE b0 == IF job.fmt = "bin" THEN imageOffset ELSE 0
  <2>3. l = LoadAll(b0, out)
        /\ r = LoadAll(b0, out \o ((IF haveOrg THEN <<>> ELSE <<o>>) \o <<k>>))
    BY <2>2, Zenon DEF Reader
  <2> HIDE DEF b0, l, r
  <2>4. /\ LoadAll(b0, out \o (<<>> \o <<k>>)) = LoadLine(LoadAll(b0, out), k)
        /\ LoadAll(b0, out \o (<<o>> \o <<k>>)) = LoadLine(LoadLine(LoadAll(b0, out), o), k)
    BY <1>1, <1>2, ReadOnTwo, Zenon
  <2> QED BY <2>3, <2>4, Zenon
<1>4. LoadLine(l, o) = [base |-> curAddr % Seg, image |-> l.image]
  <2>1. LoadLine(l, o) = [l EXCEPT !.base = WordIn(o, 1)]
    BY DEF LoadLine
  <2>2. o.bytes[1] = Hi(curAddr) /\ o.bytes[1 + 1] = Lo(curAddr)
    BY DEF Word
  <2>3. WordIn(o, 1) = curAddr % Seg
    BY <1>1, <2>2, WordBack DEF WordIn
  <2> HIDE DEF l, o
  <2> QED BY <1>1, <2>1, <2>3
<1>5. st = [base |-> curAddr, image |-> l.image]
  <2>1. CASE haveOrg
    BY <1>1, <2>1, Zenon
  <2>2. CASE ~haveOrg
    <3>1. curAddr = Ltext /\ Ltext < Seg
      BY <1>1, <2>2, Zenon DEF Ready, Loadable
    <3>2. curAddr % Seg = curAddr
      <4>1. curAddr \in Nat /\ curAddr < Limit
        BY ReadyFacts
      <4> QED BY <3>1, <4>1, FewSegments, Zenon
    <3> QED BY <1>4, <2>2, <3>2, Zenon
  <2> QED BY <2>1, <2>2
<1> HIDE DEF st, l, o, r
<1>6. LoadLine(st, k) = [Lay(st, st.base, data) EXCEPT !.base = @ + Len(data)]
  BY DEF LoadLine
<1>7. st.base = curAddr
  BY <1>5
<1> DEFINE e == Lay(st, curAddr, data)
<1>8. LaidTo(e, curAddr + Count) /\ e.base = curAddr
  BY <1>5, ReadyLay, Zenon DEF l
<1> HIDE DEF e, k
<1>9. r = [base |-> curAddr + Count, image |-> e.image]
  <2>1. e = [base |-> e.base, image |-> e.image]
    BY <1>8, Zenon DEF LaidTo
  <2>2. r = [e EXCEPT !.base = @ + Len(data)]
    BY <1>3, <1>6, <1>7, Zenon DEF e
  <2> QED BY <1>1, <1>8, <2>1, <2>2
<1>10. LaidTo(r, curAddr + Count) /\ r.base = curAddr + Count
  <2>1. r.image = e.image /\ r.base = curAddr + Count /\ r = [base |-> r.base, image |-> r.image]
    BY <1>9
  <2> QED BY <1>8, <2>1, Zenon DEF LaidTo
<1>11. job.fmt # "intel" /\ job.fmt # "bin"
  OBVIOUS
<1> QED BY <1>10, <1>11, Zenon DEF NextLaid, r

LEMMA SRead == ASSUME NEW data, Ready(data), job.fmt = "srec" PROVE NextLaid(ReaderWith(data))
<1> DEFINE l == Reader
           r == ReaderWith(data)
           q == curAddr \div Seg
           one == Closed("S1", <<Count + 3>> \o Word(curAddr) \o data)
           two == Closed("S2", <<Count + 4>> \o Word(q) \o Word(curAddr) \o data)
<1>1. /\ l = [base |-> l.base, image |-> l.image]
      /\ curAddr \in Nat /\ curAddr < Limit /\ out \in Seq(OutLine) /\ data \in Seq(Bytes)
      /\ Len(data) = Count /\ Count \in Nat \ {0} /\ Count <= Line
  <2>1. LineMax = Line
    BY DEF LineMax
  <2> QED BY <2>1, ReadyFacts, Zenon
<1>2. Count + 3 \in Bytes /\ Count + 4 \in Bytes
  BY <1>1, LineSizes, Zenon
<1>3. q \in Nat /\ (q % Seg) * Seg + (curAddr % Seg) = curAddr
  BY <1>1, FewSegments, Zenon
<1>4. ~(curAddr >= Seg) => curAddr % Seg = curAddr
  <2>1. Seg \in Nat /\ curAddr \in Nat
    BY <1>1, Sizes
  <2>2. ~(curAddr >= Seg) => curAddr < Seg
    BY <2>1
  <2> QED BY <1>1, <2>2, FewSegments, Zenon
<1>5. LoadLine(l, one) = Lay(l, curAddr % Seg, data)
      /\ LoadLine(l, two) = Lay(l, curAddr, data)
  <2> DEFINE m == Count + 3
             n == Count + 4
  <2>1. m \in Bytes /\ n \in Bytes
    BY <1>2
  <2> HIDE DEF l, q, m, n
  <2>2. LoadLine(l, Closed("S1", <<m>> \o Word(curAddr) \o data)) = Lay(l, curAddr % Seg, data)
    BY <1>1, <2>1, SLines
  <2>3. LoadLine(l, Closed("S2", <<n>> \o Word(q) \o Word(curAddr) \o data))
          = Lay(l, (q % Seg) * Seg + (curAddr % Seg), data)
    BY <1>1, <1>3, <2>1, SLines
  <2> QED BY <1>3, <2>2, <2>3, Zenon DEF m, n
<1>6. DataLines(data) = <<IF curAddr >= Seg THEN two ELSE one>>
  <2> HIDE DEF one, two
  <2>1. CASE curAddr >= Seg
    BY <2>1, Zenon DEF DataLines, two, q
  <2>2. CASE ~(curAddr >= Seg)
    BY <2>2, Zenon DEF DataLines, one
  <2> QED BY <2>1, <2>2
<1>7. \A k : DataLines(data) = <<k>> => k \in OutLine
  <2>1. DataLines(data) \in Seq(OutLine)
    BY DataLinesOK, Zenon DEF Ready
  <2> HIDE DEF OutLine
  <2>2. \A k : <<k>> \in Seq(OutLine) => k \in OutLine
    <3>1. ASSUME NEW k, <<k>> \in Seq(OutLine) PROVE k \in OutLine
      <4>1. Len(<<k>>) = 1 /\ <<k>>[1] = k
        OBVIOUS
      <4> DEFINE s == <<k>>
      <4>2. s \in Seq(OutLine) /\ Len(s) = 1 /\ s[1] = k
        BY <3>1, <4>1
      <4> HIDE DEF s
      <4> QED BY <4>2
    <3> QED BY <3>1
  <2> QED BY <2>1, <2>2, Zenon
<1> HIDE DEF q, one, two, l
<1>8. r = Lay(l, curAddr, data)
  <2> DEFINE k == IF curAddr >= Seg THEN two ELSE one
  <2>1. DataLines(data) = <<k>> /\ k \in OutLine
    BY <1>6, <1>7
  <2>2. LoadLine(l, k) = Lay(l, curAddr, data)
    <3>1. CASE curAddr >= Seg
      BY <1>5, <3>1, Zenon
    <3>2. CASE ~(curAddr >= Seg)
      BY <1>4, <1>5, <3>2, Zenon
    <3> QED BY <3>1, <3>2
  <2> HIDE DEF k
  <2>3. r = LoadAll(IF job.fmt = "bin" THEN imageOffset ELSE 0, out \o <<k>>)
    BY <2>1, Zenon DEF ReaderWith
  <2>4. r = LoadLine(l, k)
    BY <1>1, <2>1, <2>3, ReadOn, Zenon DEF Reader, l
  <2> QED BY <2>2, <2>4, Zenon
<1> HIDE DEF r
<1>9. LaidTo(Lay(l, curAddr, data), curAddr + Count)
  BY <1>1, ReadyLay, Zenon DEF l
<1>10. job.fmt # "intel" /\ job.fmt # "bin" /\ job.fmt # "asm"
  OBVIOUS
<1> QED BY <1>8, <1>9, <1>10, Zenon DEF NextLaid, r

LEMMA SegmentBack ==
  ASSUME curAddr \in Nat, curAddr < Limit
  PROVE  ((NewSegment \div Nibble) % Seg) * Nibble = NewSegment
<1> DEFINE q == curAddr \div Seg
           x == q * (Nibble * (Nibble * Nibble))
<1>1. Seg \in Nat \ {0} /\ Nibble \in Nat \ {0}
  BY Sizes
<1>2. Seg = Nibble * (Nibble * (Nibble * Nibble))
  <2>1. Byte = Nibble * Nibble /\ Seg = Byte * Byte
    BY Sizes
  <2> DEFINE n == Nibble
  <2>2. n \in Nat
    BY <1>1
  <2> HIDE DEF n
  <2>3. (n * n) * (n * n) = n * (n * (n * n))
    BY <2>2
  <2> QED BY <2>1, <2>3 DEF n
<1>3. q \in Nat /\ NewSegment = Seg * q /\ NewSegment \in Nat
  BY SegmentIs
<1>4. q < Nibble
  <2>1. curAddr < Seg * Nibble
    <3>1. Limit \in Nat /\ Limit <= Seg * Nibble /\ Seg * Nibble \in Nat
      BY <1>1, Sizes
    <3> QED BY <3>1
  <2> QED BY <1>1, <2>1, DivLess
<1> HIDE DEF q
<1> DEFINE c == Nibble * (Nibble * Nibble)
<1>5. c \in Nat /\ Seg = Nibble * c
  BY <1>1, <1>2
<1>6. x = q * c
  OBVIOUS
<1> HIDE DEF c, x
<1>7. NewSegment = Nibble * x /\ x \in Nat
  BY <1>1, <1>3, <1>5, <1>6
<1>8. NewSegment \div Nibble = x
  <2>1. NewSegment = Nibble * x + 0 /\ 0 \in 0..(Nibble - 1)
    BY <1>1, <1>7
  <2> QED BY <1>1, <1>3, <1>7, <2>1, DivUnique
<1>9. x % Seg = x
  <2>1. c > 0
    BY <1>1, <1>5
  <2>2. (Nibble - q) * c > 0 /\ (Nibble - q) * c = Nibble * c - q * c
    BY <1>1, <1>3, <1>4, <1>5, <2>1
  <2>3. x < Seg
    BY <1>1, <1>3, <1>5, <1>6, <1>7, <2>2
  <2>4. x \in 0..(Seg - 1)
    BY <1>1, <1>7, <2>3
  <2> QED BY <1>1, <2>4, SmallMod
<1>10. x * Nibble = NewSegment
  BY <1>1, <1>7
<1> QED BY <1>8, <1>9, <1>10

LEMMA IntelRead == ASSUME NEW data, Ready(data), job.fmt = "intel" PROVE NextLaid(ReaderWith(data))
<1> DEFINE l == Reader
           r == ReaderWith(data)
           x == NewSegment \div Nibble
           o == Closed("ext", <<2, 0, 0, 2>> \o Word(x))
           k == Closed("data", <<Count>> \o Word(curAddr) \o <<0>> \o data)
           c == segment = NewSegment
           st == IF c THEN l ELSE LoadLine(l, o)
<1>1. /\ l = [base |-> l.base, image |-> l.image] /\ l.base = segment
      /\ curAddr \in Nat /\ curAddr < Limit /\ out \in Seq(OutLine) /\ data \in Seq(Bytes)
      /\ Len(data) = Count /\ Count \in Nat \ {0} /\ Count <= Line
  <2>1. LineMax = Line
    BY DEF LineMax
  <2> QED BY <2>1, ReadyFacts, Zenon DEF Based
<1>2. Count \in Bytes /\ "ext" \in LineTypes /\ "data" \in LineTypes
  <2>1. "ext" \in LineTypes /\ "data" \in LineTypes
    BY DEF LineTypes
  <2> QED BY <1>1, <2>1, LineSizes, Zenon
<1>3. x \in Nat /\ NewSegment \in Nat /\ curAddr = NewSegment + (curAddr % Seg)
  BY <1>1, SegmentIs
<1>4. DataLines(data) = (IF c THEN <<>> ELSE <<o>>) \o <<k>>
  BY Zenon DEF DataLines
<1>5. o \in OutLine /\ k \in OutLine
  <2> DEFINE g == <<2, 0, 0, 2>> \o Word(x)
             h == <<Count>> \o Word(curAddr) \o <<0>> \o data
  <2>1. g \in Seq(Bytes)
    <3>1. <<2, 0, 0, 2>> \in Seq(Bytes)
      BY Sizes
    <3>2. Word(x) \in Seq(Bytes)
      BY <1>3, WordBytes
    <3>3. \A u, v \in Seq(Bytes) : u \o v \in Seq(Bytes)
      OBVIOUS
    <3> QED BY <3>1, <3>2, <3>3, Zenon
  <2>2. h \in Seq(Bytes)
    <3>1. <<Count>> \o Word(curAddr) \o <<0>> \in Seq(Bytes)
      BY <1>1, <1>2, Heads, Zenon
    <3>3. \A u, v \in Seq(Bytes) : u \o v \in Seq(Bytes)
      OBVIOUS
    <3> QED BY <1>1, <3>1, <3>3, Zenon
  <2> HIDE DEF g, h
  <2>3. \A t \in LineTypes : \A s \in Seq(Bytes) : Closed(t, s) \in OutLine
    <3>1. ASSUME NEW t \in LineTypes, NEW s \in Seq(Bytes) PROVE Closed(t, s) \in OutLine
      <4> DEFINE z == Closed(t, s)
      <4>1. IsClosed(z, t, s)
        BY ClosedOK
      <4> HIDE DEF z
      <4>2. z \in OutLine
        BY <4>1 DEF IsClosed, OutLine
      <4> QED BY <4>2 DEF z
    <3> QED BY <3>1
  <2> QED BY <1>2, <2>1, <2>2, <2>3, Zenon DEF g, h
<1>6. r = LoadLine(st, k)
  <2> HIDE DEF o, k, c
  <2>2. r = LoadAll(IF job.fmt = "bin" THEN imageOffset ELSE 0,
                    out \o ((IF c THEN <<>> ELSE <<o>>) \o <<k>>))
    BY <1>4, Zenon DEF ReaderWith
  <2> DEFINE b0 == IF job.fmt = "bin" THEN imageOffset ELSE 0
  <2>3. l = LoadAll(b0, out) /\ r = LoadAll(b0, out \o ((IF c THEN <<>> ELSE <<o>>) \o <<k>>))
    BY <2>2, Zenon DEF Reader
  <2> HIDE DEF b0, l, r
  <2>4. r = LoadLine(IF c THEN LoadAll(b0, out) ELSE LoadLine(LoadAll(b0, out), o), k)
    <3>1. /\ LoadAll(b0, out \o (<<>> \o <<k>>)) = LoadLine(LoadAll(b0, out), k)
          /\ LoadAll(b0, out \o (<<o>> \o <<k>>)) = LoadLine(LoadLine(LoadAll(b0, out), o), k)
      BY <1>1, <1>5, ReadOnTwo, Zenon
    <3> QED BY <2>3, <3>1, Zenon
  <2> QED BY <2>3, <2>4, Zenon
<1>7. LoadLine(l, o) = [base |-> NewSegment, image |-> l.image]
  <2>1. LoadLine(l, o) = [l EXCEPT !.base = (x % Seg) * Nibble]
    <3> HIDE DEF l, x
    <3> QED BY <1>3, ExtLine, Zenon
  <2>2. (x % Seg) * Nibble = NewSegment
    BY <1>1, SegmentBack
  <2> HIDE DEF l, o, x
  <2> QED BY <1>1, <2>1, <2>2
<1>8. st = [base |-> NewSegment, image |-> l.image]
  <2>1. CASE c
    BY <1>1, <2>1, Zenon
  <2>2. CASE ~c
    BY <1>7, <2>2, Zenon
  <2> QED BY <2>1, <2>2
<1>9. LoadLine(st, k) = Lay(st, st.base + (curAddr % Seg), data)
  <2> DEFINE n == Count
  <2>1. n \in Bytes
    BY <1>2
  <2> HIDE DEF st, n
  <2>2. LoadLine(st, Closed("data", <<n>> \o Word(curAddr) \o <<0>> \o data))
          = Lay(st, st.base + (curAddr % Seg), data)
    BY <1>1, <2>1, IntelLine
  <2> QED BY <2>2, Zenon DEF n
<1> HIDE DEF st, k, o, r, l
<1>10. st.base + (curAddr % Seg) = curAddr /\ st.base = NewSegment
  <2>1. st.base = NewSegment
    BY <1>8
  <2> QED BY <1>3, <2>1
<1>11. r = Lay(st, curAddr, data)
  BY <1>6, <1>9, <1>10, Zenon
<1>12. LaidTo(Lay(st, curAddr, data), curAddr + Count) /\ Lay(st, curAddr, data).base = NewSegment
  BY <1>8, ReadyLay, Zenon DEF l
<1>13. job.fmt # "bin" /\ job.fmt # "asm"
  OBVIOUS
<1> QED BY <1>11, <1>12, <1>13, Zenon DEF NextLaid, r

LEMMA ReadNext == ASSUME NEW data, Ready(data) PROVE NextLaid(ReaderWith(data))
<1>1. job.fmt \in {"intel", "srec", "asm", "bin"}
  BY JobFacts DEF Ready, TypeInv, Inputs
<1> QED BY <1>1, BinRead, AsmRead, SRead, IntelRead

\* Laid speaks of nothing else.
LEMMA LaidSame ==
  ASSUME Laid, UNCHANGED <<job, mem, Ltext, Htext, image, outVars>>,
         pc' = pc
  PROVE  Laid'
<1>1. /\ curAddr' = curAddr /\ segment' = segment /\ haveOrg' = haveOrg /\ out' = out
      /\ job' = job /\ mem' = mem /\ Ltext' = Ltext /\ Htext' = Htext /\ image' = image
  BY Zenon DEF outVars
<1>2. Reader' = Reader
  BY <1>1, Zenon DEF Reader, imageOffset
<1>3. LaidTo(Reader, curAddr)' <=> LaidTo(Reader, curAddr)
  BY <1>1, <1>2, Zenon DEF LaidTo, ByteAt
<1>4. Based(Reader)' <=> Based(Reader)
  BY <1>1, <1>2, Zenon DEF Based, imageOffset
<1>5. Loadable' <=> Loadable
  BY <1>1, Zenon DEF Loadable
<1> QED BY <1>1, <1>3, <1>4, <1>5, Zenon DEF Laid

\* What comes before the lines.
LEMMA LaidEarly ==
  ASSUME Laid, UNCHANGED outVars, pc \in {"records", "count", "items", "sums", "add"},
         pc' \in {"records", "count", "items", "sums", "add", "crash", "failed", "adrift"}
  PROVE  Laid'
<1>1. pc' \notin {"lines", "done"}
  OBVIOUS
<1>2. segment' = 0 /\ ~haveOrg'
  <2>1. segment' = segment /\ haveOrg' = haveOrg
    BY Zenon DEF outVars
  <2> QED BY <2>1, Zenon DEF Laid
<1> QED BY <1>1, <1>2 DEF Laid

\* Lines that hold no bytes of the image.
LEMMA SilentLine ==
  ASSUME NEW l, NEW t \in {"S0", "S9", "end", "END"}, NEW k, k.t = t
  PROVE  LoadLine(l, k) = l
BY DEF LoadLine

LEMMA LaidStart == ASSUME TypeInv, Laid, StartOutput PROVE Laid'
<1>1. /\ pc = "sums" /\ curAddr' = Ltext /\ UNCHANGED <<job, memVars, segment, haveOrg>>
      /\ pc' \in {"crash", "adrift", "lines"}
      /\ pc' = "lines" => out' = IF job.fmt = "srec"
                    THEN <<Closed("S0", <<Len(NameBytes) + 3, 0, 0>> \o NameBytes)>> ELSE <<>>
  BY DEF StartOutput
<1>2. /\ mem' = mem /\ image' = image /\ Ltext' = Ltext /\ Htext' = Htext /\ job' = job
      /\ segment' = segment /\ haveOrg' = haveOrg
  BY <1>1, Zenon DEF memVars
<1>3. segment = 0 /\ ~haveOrg
  BY <1>1 DEF Laid
<1>4. CASE pc' # "lines"
  <2>1. pc' \notin {"lines", "done", "records", "count", "items", "sums", "add"}
    BY <1>1, <1>4
  <2> QED BY <2>1 DEF Laid
<1>5. CASE pc' = "lines"
  <2> DEFINE b0 == IF job.fmt = "bin" THEN imageOffset ELSE 0
             none == [base |-> b0, image |-> <<>>]
             l == Closed("S0", <<Len(NameBytes) + 3, 0, 0>> \o NameBytes)
  <2>1. Reader' = LoadAll(b0, out')
    BY <1>2, Zenon DEF Reader, imageOffset
  <2>2. l.t = "S0"
    BY DEF Closed
  <2> HIDE DEF b0, l
  <2>3. LoadAll(b0, <<>>) = none
    BY LoadNone
  <2>4. LoadAll(b0, <<l>>) = none
    <3>1. Len(<<>>) \in Nat /\ Len(<<l>>) = Len(<<>>) + 1 /\ (\A i \in 1..Len(<<>>) : <<>>[i] = <<l>>[i])
          /\ <<l>>[Len(<<>>) + 1] = l
      OBVIOUS
    <3>2. LoadAll(b0, <<l>>) = LoadLine(LoadAll(b0, <<>>), <<l>>[Len(<<>>) + 1])
      <4> DEFINE s == <<>>
                 t == <<l>>
      <4>1. Len(s) \in Nat /\ Len(t) = Len(s) + 1 /\ \A i \in 1..Len(s) : s[i] = t[i]
        BY <3>1
      <4> HIDE DEF s, t
      <4>2. LoadAll(b0, t) = LoadLine(LoadAll(b0, s), t[Len(s) + 1])
        BY <4>1, LoadOne
      <4> QED BY <4>2 DEF s, t
    <3>3. LoadLine(none, l) = none
      <4> HIDE DEF none
      <4> QED BY <2>2, SilentLine
    <3> HIDE DEF none
    <3> QED BY <2>3, <3>1, <3>2, <3>3, Zenon
  <2>5. out' \in {<<>>, <<l>>}
    BY <1>1, <1>5, Zenon DEF l
  <2> HIDE DEF none
  <2>6. Reader' = none
    BY <2>1, <2>3, <2>4, <2>5
  <2>7. none = [base |-> none.base, image |-> none.image] /\ none.base = b0
        /\ DOMAIN none.image = {}
    BY DEF none
  <2>8. LaidTo(Reader, curAddr)'
    <3>1. {a \in Ltext..(Ltext - 1) : mem.ptr[a \div BlkSize] # 0} = {}
      <4>1. Ltext \in Nat
        <5>1. Ltext \in 0..(Limit - 1) /\ Limit \in Nat
          BY Sizes DEF TypeInv, Memory
        <5> QED BY <5>1
      <4> QED BY <4>1
    <3>2. DOMAIN Reader.image' = {a \in Ltext'..(curAddr' - 1) : mem'.ptr[a \div BlkSize] # 0}
      BY <1>1, <1>2, <2>6, <2>7, <3>1
    <3>3. \A a \in DOMAIN Reader.image' : Reader.image'[a] = ByteAt(image, a)'
      BY <2>6, <2>7
    <3> QED BY <2>6, <2>7, <3>2, <3>3, Zenon DEF LaidTo
  <2>9. Based(Reader)'
    <3>1. job.fmt = "bin" => b0 = imageOffset
      BY DEF b0
    <3>2. job.fmt = "intel" => b0 = 0
      BY DEF b0
    <3>3. imageOffset' = imageOffset
      BY <1>2, Zenon DEF imageOffset
    <3>4. Reader'.base = b0 /\ job.fmt' = job.fmt /\ segment' = 0 /\ ~haveOrg' /\ curAddr' = Ltext'
      <4>1. Reader'.base = b0
        BY <2>6, <2>7
      <4>2. job.fmt' = job.fmt /\ curAddr' = Ltext'
        BY <1>1, <1>2
      <4>3. segment' = 0 /\ ~haveOrg'
        BY <1>2, <1>3, Zenon
      <4> QED BY <4>1, <4>2, <4>3, Zenon
    <3> QED BY <3>1, <3>2, <3>3, <3>4, Zenon DEF Based
  <2> QED BY <1>5, <2>8, <2>9 DEF Laid
<1> QED BY <1>4, <1>5

LEMMA LaidSkip == ASSUME TypeInv, Laid, SkipLine PROVE Laid'
<1>1. /\ pc = "lines" /\ remaining # 0 /\ mem.ptr[curAddr \div BlkSize] = 0
      /\ curAddr' = curAddr + Count /\ pc' = pc
      /\ UNCHANGED <<job, memVars, segment, haveOrg, out>>
  BY DEF SkipLine
<1>2. /\ mem' = mem /\ image' = image /\ Ltext' = Ltext /\ Htext' = Htext /\ job' = job
      /\ segment' = segment /\ haveOrg' = haveOrg /\ out' = out
  BY <1>1, Zenon DEF memVars
<1>3. /\ Count \in Nat \ {0} /\ curAddr \in Nat /\ Ltext \in Nat /\ Ltext <= curAddr
      /\ curAddr + Count <= Htext /\ Htext \in Nat
      /\ \A i \in 1..Count : (curAddr + i - 1) \div BlkSize = curAddr \div BlkSize
  <2>1. Ltext \in 0..(Limit - 1) /\ Htext \in Nat /\ Limit \in Nat
    BY Sizes DEF TypeInv, Memory
  <2> QED BY <1>1, <2>1, CountOK
<1>4. Reader' = Reader /\ imageOffset' = imageOffset
  BY <1>2, Zenon DEF Reader, imageOffset
<1>5. Loadable' <=> Loadable
  BY <1>2, Zenon DEF Loadable
<1>6. ASSUME Loadable PROVE LaidTo(Reader, curAddr)' /\ Based(Reader)'
  <2>1. LaidTo(Reader, curAddr) /\ Based(Reader)
    BY <1>1, <1>6, Zenon DEF Laid
  <2>2. \A a \in curAddr..(curAddr + Count - 1) : mem.ptr[a \div BlkSize] = 0
    <3> DEFINE n == Count
    <3>1. n \in Nat /\ \A i \in 1..n : (curAddr + i - 1) \div BlkSize = curAddr \div BlkSize
      BY <1>3
    <3> HIDE DEF n
    <3>2. ASSUME NEW a \in curAddr..(curAddr + n - 1) PROVE mem.ptr[a \div BlkSize] = 0
      <4> DEFINE i == a - curAddr + 1
      <4>1. i \in 1..n /\ curAddr + i - 1 = a
        BY <1>3, <3>1
      <4> HIDE DEF i
      <4>2. a \div BlkSize = curAddr \div BlkSize
        BY <3>1, <4>1
      <4> QED BY <1>1, <4>2
    <3> QED BY <3>2 DEF n
  <2>3. {a \in Ltext..(curAddr - 1) : mem.ptr[a \div BlkSize] # 0}
          = {a \in Ltext..((curAddr + Count) - 1) : mem.ptr[a \div BlkSize] # 0}
    <3> DEFINE n == Count
    <3>1. n \in Nat /\ \A a \in curAddr..(curAddr + n - 1) : mem.ptr[a \div BlkSize] = 0
      BY <1>3, <2>2
    <3> HIDE DEF n
    <3>2. \A a : a \in Ltext..((curAddr + n) - 1)
                 <=> a \in Ltext..(curAddr - 1) \/ a \in curAddr..(curAddr + n - 1)
      BY <1>3, <3>1
    <3>3. {a \in Ltext..(curAddr - 1) : mem.ptr[a \div BlkSize] # 0}
            = {a \in Ltext..((curAddr + n) - 1) : mem.ptr[a \div BlkSize] # 0}
      BY <3>1, <3>2, Zenon
    <3> QED BY <3>3 DEF n
  <2>4. LaidTo(Reader, curAddr)'
    <3>1. /\ Reader = [base |-> Reader.base, image |-> Reader.image]
          /\ DOMAIN Reader.image = {a \in Ltext..(curAddr - 1) : mem.ptr[a \div BlkSize] # 0}
          /\ \A a \in DOMAIN Reader.image : Reader.image[a] = ByteAt(image, a)
      BY <2>1, Zenon DEF LaidTo
    <3> QED BY <1>1, <1>2, <1>4, <2>3, <3>1, Zenon DEF LaidTo, ByteAt
  <2>5. job.fmt # "asm"
    <3>1. curAddr \in Ltext..(Htext - 1)
      BY <1>3
    <3> QED BY <1>1, <1>6, <3>1, Zenon DEF Loadable
  <2>6. Based(Reader)'
    BY <1>2, <1>4, <2>1, <2>5, Zenon DEF Based
  <2> QED BY <2>4, <2>6
<1>7. pc' = "lines" /\ pc' # "done"
      /\ pc' \notin {"records", "count", "items", "sums", "add"}
  BY <1>1
<1> QED BY <1>5, <1>6, <1>7 DEF Laid

LEMMA LaidWrite == ASSUME TypeInv, Laid, WriteLine PROVE Laid'
<1>1. /\ pc = "lines" /\ remaining # 0 /\ mem.ptr[curAddr \div BlkSize] # 0
      /\ mem' = Load(mem, curAddr \div BlkSize)
      /\ UNCHANGED <<job, Ltext, Htext, image>>
  BY WriteLineIs, Zenon
<1>2. CASE pc' \in {"crash", "failed"}
  <2>1. pc' \notin {"lines", "done", "records", "count", "items", "sums", "add"}
    BY <1>2
  <2> QED BY <2>1 DEF Laid
<1>3. CASE pc' \notin {"crash", "failed"}
  <2>1. /\ mem'.fault = "none" /\ out' = out \o DataLines(LineData(mem')) /\ pc' = pc
        /\ segment' = IF job.fmt = "intel" THEN NewSegment ELSE segment
        /\ haveOrg' = (haveOrg \/ job.fmt = "asm") /\ curAddr' = curAddr + Count
    <3>1. ~(pc' = "crash") /\ ~Fatal
      BY <1>3 DEF Fatal
    <3> QED BY <3>1, WriteLineIs, Zenon
  <2>2. mem' = mem
    <3>1. pc \notin {"failed", "crash"}
      BY <1>1
    <3> QED BY <1>1, <2>1, <3>1, LoadSame, Zenon
  <2>3. Loadable' <=> Loadable
    BY <1>1, <2>2, Zenon DEF Loadable
  <2>4. ASSUME Loadable PROVE LaidTo(Reader, curAddr)' /\ Based(Reader)'
    <3> DEFINE w == LineData(mem')
               r == ReaderWith(w)
    <3>1. w \in Seq(Bytes) /\ Len(w) = Count /\ \A i \in 1..Count : w[i] = ByteAt(image, curAddr + i - 1)
      BY <1>1, <2>1, LineDataOK
    <3>2. LaidTo(Reader, curAddr) /\ Based(Reader)
      BY <1>1, <2>4, Zenon DEF Laid
    <3> HIDE DEF w
    <3>3. Ready(w)
      BY <1>1, <2>4, <3>1, <3>2, Zenon DEF Ready
    <3>4. NextLaid(r)
      BY <3>3, ReadNext
    <3>5. imageOffset' = imageOffset
      BY <1>1, Zenon DEF imageOffset
    <3>6. Reader' = r
      BY <1>1, <2>1, <3>5, Zenon DEF Reader, ReaderWith, w
    <3> HIDE DEF r
    <3>7. LaidTo(Reader, curAddr)'
      <4>1. LaidTo(r, curAddr + Count)
        BY <3>4, Zenon DEF NextLaid
      <4> QED BY <1>1, <2>1, <2>2, <3>6, <4>1, Zenon DEF LaidTo, ByteAt
    <3>8. Based(Reader)'
      <4>1. job.fmt = "intel" => Reader'.base = segment'
        BY <2>1, <3>4, <3>6, Zenon DEF NextLaid
      <4>2. job.fmt = "bin" => Reader'.base = imageOffset'
        BY <3>4, <3>5, <3>6, Zenon DEF NextLaid
      <4>3. job.fmt = "asm" => Reader'.base = curAddr' /\ haveOrg'
        BY <2>1, <3>4, <3>6, Zenon DEF NextLaid
      <4> QED BY <1>1, <4>1, <4>2, <4>3, Zenon DEF Based
    <3> QED BY <3>7, <3>8
  <2>5. pc' = "lines" /\ pc' # "done"
        /\ pc' \notin {"records", "count", "items", "sums", "add"}
    BY <1>1, <2>1
  <2> QED BY <2>3, <2>4, <2>5 DEF Laid
<1> QED BY <1>2, <1>3

LEMMA LaidEnd == ASSUME TypeInv, Laid, EndOutput PROVE Laid'
<1>1. /\ pc = "lines" /\ remaining = 0 /\ out' = out \o EndLine /\ pc' = "done"
      /\ UNCHANGED <<job, memVars, curAddr>>
  BY DEF EndOutput
<1>2. mem' = mem /\ image' = image /\ Ltext' = Ltext /\ Htext' = Htext /\ job' = job
  BY <1>1, Zenon DEF memVars
<1>3. curAddr' = Htext'
  <2>1. curAddr + remaining = Htext /\ curAddr \in 0..Limit /\ Limit \in Nat
    BY <1>1, Sizes DEF TypeInv, Output
  <2> QED BY <1>1, <1>2, <2>1
<1>4. Reader' = Reader
  <2> DEFINE b0 == IF job.fmt = "bin" THEN imageOffset ELSE 0
             e == EndLine
  <2>1. Reader = LoadAll(b0, out) /\ Reader' = LoadAll(b0, out \o e)
    BY <1>1, <1>2, Zenon DEF Reader, imageOffset
  <2>2. out \in Seq(OutLine) /\ e \in Seq(OutLine)
    BY EndLineOK, Zenon DEF TypeInv, Output
  <2>3. e = <<>> \/ \E k : e = <<k>> /\ k.t \in {"S9", "end", "END"}
    <3>1. job.fmt \in {"intel", "srec", "asm", "bin"}
      BY JobFacts DEF TypeInv, Inputs
    <3>2. CASE job.fmt = "bin"
      BY <3>2 DEF EndLine
    <3>3. CASE job.fmt = "asm"
      <4> DEFINE k == [t |-> "END", bytes |-> Word(startAddr)]
      <4>1. e = <<k>> /\ k.t = "END"
        BY <3>3 DEF EndLine
      <4> HIDE DEF k, e
      <4> QED BY <4>1
    <3>4. CASE job.fmt = "srec"
      <4> DEFINE k == Closed("S9", <<3>> \o Word(startAddr))
      <4>1. e = <<k>> /\ k.t = "S9"
        BY <3>4 DEF EndLine, Closed
      <4> HIDE DEF k, e
      <4> QED BY <4>1
    <3>5. CASE job.fmt = "intel"
      <4> DEFINE k == [t |-> "end", bytes |-> <<0>> \o Word(startAddr)
                           \o <<1, Neg(Hi(startAddr) + Lo(startAddr) + 3)>>]
      <4>1. e = <<k>> /\ k.t = "end"
        BY <3>5 DEF EndLine
      <4> HIDE DEF k, e
      <4> QED BY <4>1
    <3> QED BY <3>1, <3>2, <3>3, <3>4, <3>5
  <2> HIDE DEF e, b0
  <2>4. CASE e = <<>>
    <3>1. out \o e = out
      <4> HIDE DEF OutLine
      <4> QED BY <2>2, <2>4
    <3> QED BY <2>1, <3>1
  <2>5. CASE e # <<>>
    <3>1. PICK k : e = <<k>> /\ k.t \in {"S9", "end", "END"}
      BY <2>3, <2>5
    <3>2. k \in OutLine
      <4> HIDE DEF OutLine
      <4>1. e \in Seq(OutLine) /\ Len(e) = 1 /\ e[1] = k
        BY <2>2, <3>1
      <4> QED BY <4>1
    <3>3. LoadAll(b0, out \o <<k>>) = LoadLine(LoadAll(b0, out), k)
      BY <2>2, <3>2, ReadOn
    <3>4. LoadLine(LoadAll(b0, out), k) = LoadAll(b0, out)
      BY <3>1, SilentLine
    <3> QED BY <2>1, <3>1, <3>3, <3>4, Zenon
  <2> QED BY <2>4, <2>5
<1>5. Loadable' <=> Loadable
  BY <1>2, Zenon DEF Loadable
<1>6. Loadable => LaidTo(Reader, curAddr)'
  <2>1. Loadable => LaidTo(Reader, curAddr)
    BY <1>1, Zenon DEF Laid
  <2>2. curAddr' = curAddr
    BY <1>1
  <2> QED BY <1>2, <1>4, <2>1, <2>2, Zenon DEF LaidTo, ByteAt
<1>7. pc' # "lines" /\ pc' \notin {"records", "count", "items", "sums", "add"}
  BY <1>1
<1> QED BY <1>3, <1>5, <1>6, <1>7 DEF Laid

LEMMA LaidInit == ASSUME Init PROVE Laid
<1>1. pc = "records" /\ segment = 0 /\ haveOrg = FALSE
  BY DEF Init
<1>2. pc \notin {"lines", "done"} /\ pc \in {"records", "count", "items", "sums", "add"}
  BY <1>1
<1> QED BY <1>1, <1>2 DEF Laid

LEMMA NextLaidOK == ASSUME TypeInv, Laid, [Next]_vars PROVE Laid'
<1>1. ASSUME ReadRec \/ PutCount \/ PutItem \/ TableDone \/ SumStart \/ SumByte \/ SumStore
      PROVE  Laid'
  <2>1. UNCHANGED outVars /\ pc \in {"records", "count", "items", "sums", "add"}
    BY <1>1 DEF ReadRec, ReadRecFails, DoText, DoStart, DoIdent, DoSym, DoReloc, DoEnd, Reading,
       PutCount, PutItem, TableDone, SumStart, SumByte, SumStore
  <2>2. pc' \in {"records", "count", "items", "sums", "add", "crash", "failed", "adrift"}
    <3>1. CASE ReadRecFails \/ DoStart \/ DoIdent \/ DoSym \/ DoReloc \/ DoEnd \/ TableDone
               \/ SumStart
      BY <3>1 DEF ReadRecFails, DoStart, DoIdent, DoSym, DoReloc, DoEnd, Reading, TableDone,
         SumStart, Fatal
    <3>2. CASE DoText
      BY <3>2 DEF DoText, Reading, Put
    <3>3. CASE PutCount
      BY <3>3 DEF PutCount, Put
    <3>4. CASE PutItem
      BY <3>4 DEF PutItem, Put
    <3>5. CASE SumByte
      BY <3>5 DEF SumByte
    <3>6. CASE SumStore
      BY <3>6 DEF SumStore, Put, Fatal
    <3> QED BY <1>1, <3>1, <3>2, <3>3, <3>4, <3>5, <3>6 DEF ReadRec
  <2> QED BY <2>1, <2>2, LaidEarly
<1>2. ASSUME UNCHANGED vars PROVE Laid'
  <2>1. UNCHANGED <<job, mem, Ltext, Htext, image, outVars>> /\ pc' = pc
    BY <1>2 DEF vars, memVars
  <2> QED BY <2>1, LaidSame
<1> QED BY <1>1, <1>2, LaidStart, LaidSkip, LaidWrite, LaidEnd DEF Next, Step, Exited

LEMMA AlwaysLaid == Spec => [](TypeInv /\ Laid)
<1>1. Init => TypeInv /\ Laid
  BY InitTypes, LaidInit
<1>2. TypeInv /\ Laid /\ [Next]_vars => (TypeInv /\ Laid)'
  BY NextTypes, NextLaidOK
<1> QED BY <1>1, <1>2, PTL DEF Spec

\* What a loader has of the lines of a run that went well.
LEMMA LoadedIs ==
  ASSUME TypeInv, Laid, pc = "done", Loadable
  PROVE  /\ DOMAIN image \subseteq DOMAIN Loaded
         /\ \A a \in DOMAIN Loaded : Loaded[a] = ByteAt(image, a)
<1>1. LaidTo(Reader, curAddr) /\ curAddr = Htext /\ Loaded = Reader.image
  BY DEF Laid, Loaded, Reader
<1>2. /\ DOMAIN Loaded = {a \in Ltext..(Htext - 1) : mem.ptr[a \div BlkSize] # 0}
      /\ \A a \in DOMAIN Loaded : Loaded[a] = ByteAt(image, a)
  BY <1>1, Zenon DEF LaidTo
<1>3. DOMAIN image \subseteq Ltext..(Htext - 1)
      /\ \A a \in DOMAIN image : mem.ptr[a \div BlkSize] # 0
  BY DEF TypeInv, Memory, Shows
<1> HIDE DEF Loaded
<1> QED BY <1>2, <1>3

\* A loader of the lines, or of the binary file, finds every byte of the text, the table and
\* the sums at its own address, and zeros only besides, however the lines were cut at the ends
\* of blocks and whatever segments or blocks without text lie between.
THEOREM ImageComesBack == Spec => []BytesInPlace
<1>1. TypeInv /\ Laid => BytesInPlace
  <2> SUFFICES ASSUME TypeInv, Laid, pc = "done", Loadable
               PROVE  /\ DOMAIN image \subseteq DOMAIN Loaded
                      /\ \A a \in DOMAIN Loaded :
                           Loaded[a] = IF a \in DOMAIN image THEN image[a] ELSE 0
    BY DEF BytesInPlace
  <2> QED BY LoadedIs, Zenon DEF ByteAt
<1> QED BY <1>1, AlwaysLaid, PTL

-----------------------------------------------------------------------------
(* The relocation table *)

\* the place of item i among those that were read
Nth(i) == Cardinality(ItemsRead \cap (1..i))

\* an item for every relocation record so far, with the address that the record meant
ItemsKnown ==
  /\ nreloc = Cardinality(ItemsRead) /\ Len(relocs) = nreloc
  /\ \A k \in 1..nreloc : relocs[k] \in 0..(Seg - 1)
  /\ \A i \in ItemsRead : Nth(i) \in 1..nreloc
                          /\ relocs[Nth(i)] = TextBefore(i) + job.recs[i].off

HasWord(im, a, x) == {a, a + 1} \subseteq DOMAIN im /\ WordOf(im[a + 1], im[a]) = x

\* the number of items and the first n of them are in the image
PutSoFar(n) ==
  /\ HasWord(image, SymbolAt, nreloc)
  /\ \A k \in 1..n : HasWord(image, SymbolAt + 2 * k, relocs[k])

TableInv ==
  job.reloc = "R" =>
    /\ pc \in {"records", "count", "items"} => ItemsKnown
    /\ pc = "records" => textAddr = TextBefore(recIdx)
    /\ pc \in {"records", "count"} => wrPos = SymbolAt /\ item = 0
    /\ pc = "items" => SymbolAt \in Nat /\ wrPos = SymbolAt + 2 * item /\ PutSoFar(item)
    /\ pc = "sums" /\ chkIdx = 1 => ItemsKnown /\ PutSoFar(nreloc)

LEMMA BeforeMore ==
  ASSUME NEW n \in Nat \ {0}, NEW t
  PROVE  /\ job.recs[n].t = t => Before(n + 1, t) = Before(n, t) \cup {n}
         /\ job.recs[n].t # t => Before(n + 1, t) = Before(n, t)
<1>1. \A j : j \in 1..((n + 1) - 1) <=> j \in 1..(n - 1) \/ j = n
  OBVIOUS
<1> QED BY <1>1, Zenon DEF Before

LEMMA MaxTop ==
  ASSUME NEW n \in Nat, NEW S, S \subseteq 1..(n - 1)
  PROVE  Max(S \cup {n}) = n
<1> DEFINE T == S \cup {n}
<1>1. n \in T /\ \A y \in T : n >= y
  OBVIOUS
<1>2. \A x \in T : (\A y \in T : x >= y) => x = n
  BY <1>1
<1>3. Max(T) \in T /\ \A y \in T : Max(T) >= y
  <2> HIDE DEF T
  <2>1. \E x \in T : \A y \in T : x >= y
    BY <1>1, Zenon
  <2>2. Max(T) = CHOOSE x \in T : \A y \in T : x >= y
    BY DEF Max
  <2> QED BY <2>1, <2>2, Zenon
<1> HIDE DEF T
<1>4. Max(T) = n
  BY <1>2, <1>3
<1> QED BY <1>4 DEF T

LEMMA TopCut ==
  ASSUME NEW n \in Nat \ {0}, NEW S, S \subseteq 1..(n - 1)
  PROVE  (S \cup {n}) \cap (1..n) = S \cup {n}
<1>1. \A y \in S \cup {n} : y \in 1..n
  OBVIOUS
<1> QED BY <1>1, Zenon

LEMMA BeforeFinite ==
  ASSUME NEW n \in Nat, NEW t
  PROVE  /\ Before(n, t) \subseteq 1..(n - 1) /\ IsFiniteSet(Before(n, t))
         /\ n \notin Before(n, t) /\ Cardinality(Before(n, t)) \in Nat
<1>1. Before(n, t) \subseteq 1..(n - 1)
  BY DEF Before
<1>2. IsFiniteSet(1..(n - 1))
  BY FS_Interval
<1>3. IsFiniteSet(Before(n, t))
  BY <1>1, <1>2, FS_Subset
<1>4. n \notin Before(n, t)
  BY <1>1
<1> QED BY <1>1, <1>3, <1>4, FS_CardinalityType

\* What depends on the records and the items only.
LEMMA ItemsSame ==
  ASSUME UNCHANGED <<job, recIdx, relocs, nreloc>>
  PROVE  (ItemsKnown' <=> ItemsKnown) /\ SymbolAt' = SymbolAt
<1>1. ItemsRead' = ItemsRead /\ Symbols' = Symbols
  BY Zenon DEF ItemsRead, Symbols, Before
<1>2. \A i : Nth(i)' = Nth(i) /\ TextBefore(i)' = TextBefore(i)
  BY <1>1, Zenon DEF Nth, TextBefore, Before
<1>3. SymbolAt' = SymbolAt
  BY <1>1, Zenon DEF SymbolAt
<1>4. ItemsKnown' <=> ItemsKnown
  BY <1>1, <1>2, Zenon DEF ItemsKnown
<1> QED BY <1>3, <1>4

\* A record of another kind than t.
LEMMA OtherRecord ==
  ASSUME TypeInv, job' = job, recIdx' = recIdx + 1, NEW t, job.recs[recIdx].t # t
  PROVE  /\ t = "RELOC" /\ UNCHANGED <<relocs, nreloc>> => ItemsKnown' = ItemsKnown
         /\ t = "SYM" => SymbolAt' = SymbolAt
         /\ t = "TEXT" => TextBefore(recIdx)' = TextBefore(recIdx)
<1>1. recIdx \in Nat \ {0}
  <2>1. recIdx \in 1..(Len(job.recs) + 1) /\ Len(job.recs) \in Nat
    BY JobFacts DEF TypeInv, Inputs
  <2> QED BY <2>1
<1>2. Before(recIdx, t)' = Before(recIdx, t)
  <2>1. Before(recIdx, t)' = Before(recIdx + 1, t)
    BY Zenon DEF Before
  <2> QED BY <1>1, <2>1, BeforeMore, Zenon
<1>3. t = "RELOC" /\ UNCHANGED <<relocs, nreloc>> => ItemsKnown' = ItemsKnown
  <2>1. t = "RELOC" => ItemsRead' = ItemsRead
    BY <1>2, Zenon DEF ItemsRead
  <2> QED BY <2>1, Zenon DEF ItemsKnown, Nth, TextBefore, Before
<1>4. t = "SYM" => SymbolAt' = SymbolAt
  <2>1. t = "SYM" => Symbols' = Symbols
    BY <1>2, Zenon DEF Symbols
  <2> QED BY <2>1, Zenon DEF SymbolAt
<1>5. t = "TEXT" => TextBefore(recIdx)' = TextBefore(recIdx)
  <2>1. t = "TEXT" => Before(recIdx, "TEXT")' = Before(recIdx, "TEXT")
    BY <1>2, Zenon
  <2> QED BY <2>1, Zenon DEF TextBefore
<1> QED BY <1>3, <1>4, <1>5

LEMMA TableText ==
  ASSUME TypeInv, job.reloc = "R", TableInv, DoText
  PROVE  TableInv'
<1>1. /\ pc = "records" /\ Rec.t = "TEXT" /\ job' = job /\ recIdx' = recIdx + 1
      /\ textAddr' = Rec.off /\ UNCHANGED <<relocs, nreloc, wrPos, item>>
      /\ pc' \in {"records", "crash", "failed"}
  BY DEF DoText, Reading, NextRec, Put
<1>2. ItemsKnown /\ wrPos = SymbolAt /\ item = 0
  BY <1>1 DEF TableInv
<1>3. job.recs[recIdx].t # "RELOC" /\ job.recs[recIdx].t # "SYM"
  BY <1>1 DEF Rec
<1>4. ItemsKnown' /\ wrPos' = SymbolAt'
  <2>1. ItemsKnown' = ItemsKnown
    BY <1>1, <1>3, OtherRecord, Zenon
  <2>2. SymbolAt' = SymbolAt
    BY <1>1, <1>3, OtherRecord, Zenon
  <2> QED BY <1>1, <1>2, <2>1, <2>2
<1>5. textAddr' = TextBefore(recIdx)'
  <2>0. recIdx \in Nat \ {0}
    <3>1. recIdx \in 1..(Len(job.recs) + 1) /\ Len(job.recs) \in Nat
      BY JobFacts DEF TypeInv, Inputs
    <3> QED BY <3>1
  <2> DEFINE S == Before(recIdx, "TEXT")
  <2>1. Before(recIdx, "TEXT")' = S \cup {recIdx}
    <3>1. Before(recIdx, "TEXT")' = Before(recIdx + 1, "TEXT")
      BY <1>1, Zenon DEF Before
    <3>2. job.recs[recIdx].t = "TEXT"
      BY <1>1 DEF Rec
    <3> QED BY <2>0, <3>1, <3>2, BeforeMore, Zenon
  <2>2. S \subseteq 1..(recIdx - 1)
    BY <2>0, BeforeFinite
  <2> HIDE DEF S
  <2>3. Max(S \cup {recIdx}) = recIdx
    BY <2>0, <2>2, MaxTop
  <2>4. TextBefore(recIdx)' = job.recs[recIdx].off
    <3>1. S \cup {recIdx} # {}
      OBVIOUS
    <3> QED BY <1>1, <2>1, <2>3, <3>1, Zenon DEF TextBefore
  <2> QED BY <1>1, <2>4 DEF Rec
<1> QED BY <1>1, <1>2, <1>4, <1>5 DEF TableInv

LEMMA TableSym ==
  ASSUME TypeInv, job.reloc = "R", TableInv, DoSym
  PROVE  TableInv'
<1>1. /\ pc = "records" /\ Rec.t = "SYM" /\ UNCHANGED <<job, pc, textAddr, relocs, nreloc, item>>
      /\ recIdx' = recIdx + 1
      /\ wrPos' = IF Rec.name = relocSegName THEN Rec.val ELSE wrPos
  BY DEF DoSym, Reading, NextRec
<1>2. ItemsKnown /\ wrPos = SymbolAt /\ item = 0 /\ textAddr = TextBefore(recIdx)
  BY <1>1 DEF TableInv
<1>3. job.recs[recIdx].t # "RELOC" /\ job.recs[recIdx].t # "TEXT"
  BY <1>1 DEF Rec
<1>4. ItemsKnown' /\ textAddr' = TextBefore(recIdx)'
  <2>1. ItemsKnown' = ItemsKnown
    BY <1>1, <1>3, OtherRecord, Zenon
  <2>2. TextBefore(recIdx)' = TextBefore(recIdx)
    BY <1>1, <1>3, OtherRecord, Zenon
  <2> QED BY <1>1, <1>2, <2>1, <2>2
<1>5. wrPos' = SymbolAt'
  <2>0. recIdx \in Nat \ {0}
    <3>1. recIdx \in 1..(Len(job.recs) + 1) /\ Len(job.recs) \in Nat
      BY JobFacts DEF TypeInv, Inputs
    <3> QED BY <3>1
  <2> DEFINE S == Before(recIdx, "SYM")
             Y == Symbols
  <2>1. Before(recIdx, "SYM")' = S \cup {recIdx}
    <3>1. Before(recIdx, "SYM")' = Before(recIdx + 1, "SYM")
      BY <1>1, Zenon DEF Before
    <3>2. job.recs[recIdx].t = "SYM"
      BY <1>1 DEF Rec
    <3> QED BY <2>0, <3>1, <3>2, BeforeMore, Zenon
  <2>2. S \subseteq 1..(recIdx - 1)
    BY <2>0, BeforeFinite
  <2>3. Symbols' = {i \in S \cup {recIdx} : job.recs[i].name = relocSegName}
    BY <1>1, <2>1, Zenon DEF Symbols
  <2>4. Y = {i \in S : job.recs[i].name = relocSegName}
    BY DEF Symbols
  <2> HIDE DEF S
  <2>5. CASE Rec.name = relocSegName
    <3>1. Symbols' = Y \cup {recIdx}
      BY <2>3, <2>4, <2>5, Zenon DEF Rec
    <3>2. Y \subseteq 1..(recIdx - 1)
      BY <2>2, <2>4
    <3> HIDE DEF Y
    <3>3. Max(Y \cup {recIdx}) = recIdx
      BY <2>0, <3>2, MaxTop
    <3>4. SymbolAt' = job.recs[recIdx].val
      <4>1. Y \cup {recIdx} # {}
        OBVIOUS
      <4> QED BY <1>1, <3>1, <3>3, <4>1, Zenon DEF SymbolAt
    <3> QED BY <1>1, <2>5, <3>4 DEF Rec
  <2>6. CASE Rec.name # relocSegName
    <3>1. Symbols' = Symbols
      BY <2>3, <2>4, <2>6, Zenon DEF Rec
    <3>2. SymbolAt' = SymbolAt
      BY <1>1, <3>1, Zenon DEF SymbolAt
    <3> QED BY <1>1, <1>2, <2>6, <3>2
  <2> QED BY <2>5, <2>6
<1> QED BY <1>1, <1>2, <1>4, <1>5 DEF TableInv

LEMMA TableReloc ==
  ASSUME TypeInv, job.reloc = "R", TableInv, DoReloc
  PROVE  TableInv'
<1>1. /\ pc = "records" /\ Rec.t = "RELOC" /\ UNCHANGED <<job, textAddr, wrPos, item>>
  BY DEF DoReloc, Reading
<1>2. ItemsKnown /\ wrPos = SymbolAt /\ item = 0 /\ textAddr = TextBefore(recIdx)
  BY <1>1 DEF TableInv
<1>3. CASE pc' = "failed"
  BY <1>3 DEF TableInv
<1>4. CASE pc' # "failed"
  <2>1. /\ recIdx' = recIdx + 1 /\ pc' = pc /\ nreloc' = nreloc + 1
        /\ relocs' = relocs \o <<PlaceOf(Rec.off) % Seg>>
        /\ ~(PlaceOf(Rec.off) > Seg - 2)
    <3>1. ~Fatal /\ job.reloc # "L" /\ job.reloc # "none"
      BY <1>4 DEF Fatal
    <3> QED BY <3>1 DEF DoReloc, NextRec
  <2>2. job.recs[recIdx].t # "SYM" /\ job.recs[recIdx].t # "TEXT" /\ job.recs[recIdx].t = "RELOC"
    BY <1>1 DEF Rec
  <2>3. wrPos' = SymbolAt' /\ textAddr' = TextBefore(recIdx)'
    <3>1. SymbolAt' = SymbolAt
      BY <1>1, <2>1, <2>2, OtherRecord, Zenon
    <3>2. TextBefore(recIdx)' = TextBefore(recIdx)
      BY <1>1, <2>1, <2>2, OtherRecord, Zenon
    <3> QED BY <1>1, <1>2, <3>1, <3>2
  <2>4. recIdx \in Nat \ {0} /\ Rec.off \in Nat /\ textAddr \in Nat /\ relocs \in Seq(Nat)
        /\ nreloc \in Nat /\ Seg \in Nat \ {0}
    <3>1. recIdx \in 1..(Len(job.recs) + 1) /\ Len(job.recs) \in Nat /\ textAddr \in Nat
          /\ relocs \in Seq(Nat) /\ nreloc \in 0..(Seg - 1)
      BY JobFacts DEF TypeInv, Inputs
    <3>2. Rec.off \in 0..(Seg \div 2 - 1)
      BY RecIs, RecordFacts DEF DoReloc
    <3> QED BY <3>1, <3>2, Sizes
  <2> DEFINE v == TextBefore(recIdx) + job.recs[recIdx].off
             I == ItemsRead
             n == recIdx
  <2>5. v \in 0..(Seg - 1) /\ PlaceOf(Rec.off) % Seg = v
    <3>1. PlaceOf(Rec.off) = v
      BY <1>2 DEF PlaceOf, Rec
    <3>2. PlaceOf(Rec.off) \in Nat
      BY <2>4 DEF PlaceOf
    <3> HIDE DEF v
    <3>3. v \in 0..(Seg - 1)
      BY <2>1, <2>4, <3>1, <3>2
    <3> QED BY <2>4, <3>1, <3>3, SmallMod
  <2>6. ItemsRead' = I \cup {n}
    <3>1. Before(recIdx, "RELOC")' = Before(recIdx + 1, "RELOC")
      BY <1>1, <2>1, Zenon DEF Before
    <3> QED BY <2>2, <2>4, <3>1, BeforeMore, Zenon DEF ItemsRead
  <2>7. I \subseteq 1..(n - 1) /\ IsFiniteSet(I) /\ n \notin I
    BY <2>4, BeforeFinite DEF ItemsRead
  <2>8. /\ nreloc = Cardinality(I) /\ Len(relocs) = nreloc
        /\ \A k \in 1..nreloc : relocs[k] \in 0..(Seg - 1)
        /\ \A i \in I : Nth(i) \in 1..nreloc
                        /\ relocs[Nth(i)] = TextBefore(i) + job.recs[i].off
    BY <1>2, Zenon DEF ItemsKnown
  <2> HIDE DEF v
  <2>9. /\ Len(relocs') = nreloc' /\ relocs'[nreloc'] = v /\ nreloc' \in Nat
        /\ \A k \in 1..nreloc : relocs'[k] = relocs[k]
    BY <2>1, <2>4, <2>5, <2>8
  <2>10. Cardinality(I \cup {n}) = nreloc'
    <3> HIDE DEF I, n
    <3> QED BY <2>1, <2>7, <2>8, FS_AddElement
  <2>11. \A i \in I : Nth(i)' = Nth(i)
    <3>1. ASSUME NEW i \in I PROVE (I \cup {n}) \cap (1..i) = I \cap (1..i)
      <4>1. i < n
        BY <2>4, <2>7
      <4>2. n \notin 1..i
        BY <2>4, <2>7, <4>1
      <4> QED BY <4>2
    <3> QED BY <2>6, <3>1, Zenon DEF Nth
  <2>12. Cardinality((I \cup {n}) \cap (1..n)) = nreloc'
    <3>1. (I \cup {n}) \cap (1..n) = I \cup {n}
      <4>1. n \in Nat \ {0}
        BY <2>4
      <4> HIDE DEF I, n
      <4> QED BY <2>7, <4>1, TopCut
    <3> QED BY <2>10, <3>1
  <2>13. ItemsKnown'
    <3>1. nreloc' = Cardinality(ItemsRead')
      BY <2>6, <2>10
    <3>2. ASSUME NEW k \in 1..nreloc' PROVE relocs'[k] \in 0..(Seg - 1)
      <4>1. k \in 1..nreloc \/ k = nreloc'
        BY <2>1, <2>4
      <4> QED BY <2>5, <2>8, <2>9, <4>1
    <3>3. ASSUME NEW i \in ItemsRead'
          PROVE  Nth(i)' \in 1..nreloc' /\ relocs'[Nth(i)'] = TextBefore(i) + job.recs[i].off
      <4>1. CASE i \in I
        <5>1. Nth(i)' = Nth(i) /\ Nth(i) \in 1..nreloc
              /\ relocs[Nth(i)] = TextBefore(i) + job.recs[i].off
          BY <2>8, <2>11, <4>1
        <5> QED BY <2>1, <2>4, <2>9, <5>1
      <4>2. CASE i = n
        <5>1. Nth(i)' = nreloc'
          BY <2>6, <2>12, <4>2, Zenon DEF Nth
        <5>2. nreloc' \in 1..nreloc'
          BY <2>1, <2>4
        <5> QED BY <2>9, <4>2, <5>1, <5>2 DEF v
      <4> QED BY <2>6, <4>1, <4>2
    <3>4. \A i : TextBefore(i)' = TextBefore(i)
      BY <1>1, Zenon DEF TextBefore, Before
    <3> QED BY <1>1, <2>9, <3>1, <3>2, <3>3, <3>4, Zenon DEF ItemsKnown
  <2> QED BY <1>1, <1>2, <2>1, <2>3, <2>13 DEF TableInv
<1> QED BY <1>3, <1>4

LEMMA TableOther ==
  ASSUME TypeInv, job.reloc = "R", TableInv, DoStart \/ DoIdent
  PROVE  TableInv'
<1>1. /\ pc = "records" /\ pc' = pc /\ Rec.t \in {"START", "IDENT"} /\ recIdx' = recIdx + 1
      /\ UNCHANGED <<job, textAddr, relocs, nreloc, wrPos, item>>
  BY DEF DoStart, DoIdent, Reading, NextRec
<1>2. ItemsKnown /\ wrPos = SymbolAt /\ item = 0 /\ textAddr = TextBefore(recIdx)
  BY <1>1 DEF TableInv
<1>3. /\ job.recs[recIdx].t # "RELOC" /\ job.recs[recIdx].t # "TEXT"
      /\ job.recs[recIdx].t # "SYM"
  BY <1>1 DEF Rec
<1>4. ItemsKnown' = ItemsKnown
  BY <1>1, <1>3, OtherRecord, Zenon
<1>5. TextBefore(recIdx)' = TextBefore(recIdx)
  BY <1>1, <1>3, OtherRecord, Zenon
<1>6. SymbolAt' = SymbolAt
  BY <1>1, <1>3, OtherRecord, Zenon
<1> QED BY <1>1, <1>2, <1>4, <1>5, <1>6 DEF TableInv

\* A word that is put is there, and one below it is what it was.
LEMMA WordPut ==
  ASSUME NEW x \in 0..(Seg - 1), NEW at \in Nat, NEW im
  PROVE  LET new == With(im, LittleEndian(x), at)
         IN  /\ HasWord(new, at, x)
             /\ \A a \in Nat : \A y : a + 1 < at /\ HasWord(im, a, y) => HasWord(new, a, y)
<1> DEFINE d == LittleEndian(x)
           new == With(im, d, at)
<1>1. x \in Nat /\ x % Seg = x
  <2>1. Seg \in Nat \ {0}
    BY Sizes
  <2> QED BY <2>1, SmallMod
<1>2. DOMAIN d = 1..2 /\ d[1] = Lo(x) /\ d[2] = Hi(x)
  BY DEF LittleEndian
<1> HIDE DEF d
<1>3. /\ DOMAIN new = DOMAIN im \cup {at + i - 1 : i \in 1..2}
      /\ \A a \in DOMAIN new : new[a] = IF a >= at /\ a - at + 1 \in 1..2 THEN d[a - at + 1] ELSE im[a]
  BY <1>2 DEF With
<1> HIDE DEF new
<1>4. at \in DOMAIN new /\ at + 1 \in DOMAIN new
  <2>1. at = at + 1 - 1 /\ at + 1 = at + 2 - 1 /\ 1 \in 1..2 /\ 2 \in 1..2
    OBVIOUS
  <2>2. at \in {at + i - 1 : i \in 1..2} /\ at + 1 \in {at + i - 1 : i \in 1..2}
    BY <2>1, Zenon
  <2> QED BY <1>3, <2>2
<1>5. new[at] = Lo(x) /\ new[at + 1] = Hi(x)
  <2>1. at >= at /\ at - at + 1 = 1 /\ at + 1 >= at /\ (at + 1) - at + 1 = 2
        /\ 1 \in 1..2 /\ 2 \in 1..2
    OBVIOUS
  <2>2. new[at] = d[at - at + 1] /\ new[at + 1] = d[(at + 1) - at + 1]
    BY <1>3, <1>4, <2>1
  <2> QED BY <1>2, <2>1, <2>2
<1>6. HasWord(new, at, x)
  BY <1>1, <1>4, <1>5, WordBack DEF HasWord
<1>7. ASSUME NEW a \in Nat, NEW y, a + 1 < at, HasWord(im, a, y) PROVE HasWord(new, a, y)
  <2>1. a \in DOMAIN im /\ a + 1 \in DOMAIN im /\ WordOf(im[a + 1], im[a]) = y
    BY <1>7 DEF HasWord
  <2>2. a \in DOMAIN new /\ a + 1 \in DOMAIN new /\ ~(a >= at) /\ ~(a + 1 >= at)
    BY <1>3, <1>7, <2>1
  <2>3. new[a] = im[a] /\ new[a + 1] = im[a + 1]
    BY <1>3, <2>2
  <2> QED BY <2>1, <2>2, <2>3, Zenon DEF HasWord
<1> QED BY <1>6, <1>7 DEF new, d

LEMMA TableCount ==
  ASSUME TypeInv, job.reloc = "R", TableInv, PutCount
  PROVE  TableInv'
<1>1. /\ pc = "count" /\ Put(LittleEndian(nreloc), wrPos, "items")
      /\ UNCHANGED <<job, inVars, sumVars, outVars>>
  BY DEF PutCount
<1>2. UNCHANGED <<job, recIdx, relocs, nreloc, wrPos, item>>
  BY <1>1 DEF inVars
<1>3. /\ image' = With(image, LittleEndian(nreloc), wrPos)
      /\ pc' \in {"items", "crash", "failed"}
  BY <1>1 DEF Put, With
<1>4. ItemsKnown /\ wrPos = SymbolAt /\ item = 0
  BY <1>1 DEF TableInv
<1>5. nreloc \in 0..(Seg - 1) /\ wrPos \in Nat
  BY DEF TypeInv, Inputs
<1>6. CASE pc' # "items"
  BY <1>3, <1>6 DEF TableInv
<1>7. CASE pc' = "items"
  <2>1. ItemsKnown' /\ SymbolAt' = SymbolAt
    BY <1>2, <1>4, ItemsSame
  <2>2. HasWord(image', wrPos, nreloc)
    BY <1>3, <1>5, WordPut, Zenon
  <2>3. PutSoFar(item)'
    <3>1. HasWord(image', SymbolAt', nreloc')
      BY <1>2, <1>4, <2>1, <2>2, Zenon
    <3>2. item' = 0
      BY <1>2, <1>4
    <3>3. \A k : k \notin 1..item'
      BY <3>2
    <3> QED BY <3>1, <3>3, Zenon DEF PutSoFar
  <2>4. SymbolAt' \in Nat /\ wrPos' = SymbolAt' + 2 * item'
    BY <1>2, <1>4, <1>5, <2>1
  <2> QED BY <1>7, <2>1, <2>3, <2>4 DEF TableInv
<1> QED BY <1>6, <1>7

LEMMA TableItem ==
  ASSUME TypeInv, job.reloc = "R", TableInv, PutItem
  PROVE  TableInv'
<1>1. /\ pc = "items" /\ item < nreloc /\ item' = item + 1
      /\ wrPos' = wrPos + Len(ItemBytes(item + 1))
      /\ Put(ItemBytes(item + 1), wrPos + 2, pc)
      /\ UNCHANGED <<job, recIdx, relocs, nreloc>>
  BY DEF PutItem
<1>2. /\ image' = With(image, ItemBytes(item + 1), wrPos + 2)
      /\ pc' \in {"items", "crash", "failed"}
  BY <1>1 DEF Put, With
<1>3. /\ ItemsKnown /\ SymbolAt \in Nat /\ wrPos = SymbolAt + 2 * item /\ PutSoFar(item)
  BY <1>1 DEF TableInv
<1>4. nreloc \in Nat /\ item \in Nat /\ item + 1 \in 1..nreloc
  <2>1. nreloc \in 0..(Seg - 1) /\ item \in 0..nreloc /\ Seg \in Nat
    BY Sizes DEF TypeInv, Inputs
  <2> QED BY <1>1, <2>1
<1> DEFINE x == relocs[item + 1]
<1>5. x \in 0..(Seg - 1) /\ ItemBytes(item + 1) = LittleEndian(x)
  <2>1. x \in 0..(Seg - 1) /\ item + 1 <= Len(relocs)
    BY <1>3, <1>4 DEF ItemsKnown
  <2>2. RelocWord(item + 1) = x
    BY <2>1, Zenon DEF RelocWord
  <2> QED BY <2>1, <2>2 DEF ItemBytes
<1> HIDE DEF x
<1>6. CASE pc' # "items"
  BY <1>2, <1>6 DEF TableInv
<1>7. CASE pc' = "items"
  <2>1. ItemsKnown' /\ SymbolAt' = SymbolAt
    BY <1>1, <1>3, ItemsSame
  <2> DEFINE at == SymbolAt + 2 * (item + 1)
  <2>2. at \in Nat /\ wrPos + 2 = at
    BY <1>3, <1>4
  <2>3. image' = With(image, LittleEndian(x), at)
    BY <1>2, <1>5, <2>2
  <2> HIDE DEF at
  <2>4. /\ HasWord(image', at, x)
        /\ \A a \in Nat : \A y : a + 1 < at /\ HasWord(image, a, y) => HasWord(image', a, y)
    BY <1>5, <2>2, <2>3, WordPut, Zenon
  <2>5. HasWord(image', SymbolAt, nreloc)
    <3>1. SymbolAt + 1 < at
      BY <1>3, <1>4 DEF at
    <3> QED BY <1>3, <2>4, <3>1, Zenon DEF PutSoFar
  <2>6. ASSUME NEW k \in 1..item' PROVE HasWord(image', SymbolAt + 2 * k, relocs[k])
    <3>1. CASE k = item + 1
      BY <2>4, <3>1 DEF at, x
    <3>2. CASE k # item + 1
      <4>1. k \in 1..item /\ SymbolAt + 2 * k \in Nat /\ (SymbolAt + 2 * k) + 1 < at
        BY <1>1, <1>3, <1>4, <3>2 DEF at
      <4>2. HasWord(image, SymbolAt + 2 * k, relocs[k])
        BY <1>3, <4>1, Zenon DEF PutSoFar
      <4> QED BY <2>4, <4>1, <4>2, Zenon
    <3> QED BY <3>1, <3>2
  <2>7. PutSoFar(item)'
    <3>1. nreloc' = nreloc /\ relocs' = relocs
      BY <1>1
    <3> QED BY <2>1, <2>5, <2>6, <3>1, Zenon DEF PutSoFar
  <2>8. wrPos' = SymbolAt' + 2 * item'
    <3>1. Len(ItemBytes(item + 1)) = 2
      <4>1. Len(LittleEndian(x)) = 2
        BY DEF LittleEndian
      <4> QED BY <1>5, <4>1
    <3>2. wrPos' = wrPos + 2
      BY <1>1, <3>1, Zenon
    <3>3. item' = item + 1 /\ SymbolAt' = SymbolAt
      BY <1>1, <2>1
    <3>4. wrPos = SymbolAt + 2 * item /\ SymbolAt \in Nat /\ item \in Nat
      BY <1>3, <1>4
    <3> HIDE DEF SymbolAt
    <3> QED BY <3>2, <3>3, <3>4
  <2> QED BY <1>3, <1>7, <2>1, <2>7, <2>8 DEF TableInv
<1> QED BY <1>6, <1>7

LEMMA TableInit == ASSUME Init PROVE TableInv
<1>1. /\ pc = "records" /\ recIdx = 1 /\ textAddr = 0 /\ relocs = <<>> /\ nreloc = 0
      /\ wrPos = 0 /\ item = 0
  BY DEF Init
<1>2. \A t : Before(1, t) = {}
  BY DEF Before
<1>3. ItemsRead = {} /\ TextBefore(recIdx) = 0 /\ SymbolAt = 0
  <2>1. Symbols = {}
    BY <1>1, <1>2 DEF Symbols
  <2> QED BY <1>1, <1>2, <2>1 DEF ItemsRead, TextBefore, SymbolAt
<1>4. ItemsKnown
  <2>1. Cardinality({}) = 0 /\ Len(<<>>) = 0
    BY FS_EmptySet
  <2> QED BY <1>1, <1>3, <2>1 DEF ItemsKnown
<1> QED BY <1>1, <1>3, <1>4 DEF TableInv

LEMMA TableNext == ASSUME TypeInv, TableInv, [Next]_vars PROVE TableInv'
<1>0. CASE job.reloc # "R"
  <2>1. job' = job
    BY DEF Next, Step, ReadRec, ReadRecFails, DoText, DoStart, DoIdent, DoSym, DoReloc, DoEnd,
       PutCount, PutItem, TableDone, SumStart, SumByte, SumStore, StartOutput, SkipLine,
       WriteLine, EndOutput, Exited, vars
  <2> QED BY <1>0, <2>1 DEF TableInv
<1>r. CASE job.reloc = "R"
  <2>1. CASE DoText \/ DoStart \/ DoIdent \/ DoSym \/ DoReloc
    BY <1>r, <2>1, TableText, TableOther, TableSym, TableReloc
  <2>2. CASE PutCount \/ PutItem
    BY <1>r, <2>2, TableCount, TableItem
  <2>3. CASE ReadRecFails
    BY <2>3 DEF ReadRecFails, Fatal, TableInv
  <2>4. CASE DoEnd
    <3>1. pc = "records" /\ pc' = "count" /\ UNCHANGED <<job, recIdx, relocs, nreloc, wrPos, item>>
      BY <1>r, <2>4 DEF DoEnd, Reading, inVars
    <3>2. ItemsKnown /\ wrPos = SymbolAt /\ item = 0
      BY <1>r, <3>1 DEF TableInv
    <3>3. ItemsKnown' /\ SymbolAt' = SymbolAt
      BY <3>1, <3>2, ItemsSame
    <3> QED BY <3>1, <3>2, <3>3 DEF TableInv
  <2>5. CASE TableDone
    <3>1. /\ pc = "items" /\ pc' = "sums" /\ item = nreloc
          /\ UNCHANGED <<job, recIdx, relocs, nreloc, wrPos, item, image>>
      BY <2>5 DEF TableDone, inVars, memVars
    <3>2. ItemsKnown /\ PutSoFar(nreloc)
      BY <1>r, <3>1 DEF TableInv
    <3>3. ItemsKnown' /\ SymbolAt' = SymbolAt
      BY <3>1, <3>2, ItemsSame
    <3>4. PutSoFar(nreloc)'
      BY <3>1, <3>2, <3>3, Zenon DEF PutSoFar
    <3> QED BY <3>1, <3>3, <3>4 DEF TableInv
  <2>6. CASE SumStart \/ SumByte \/ StartOutput \/ SkipLine \/ WriteLine \/ EndOutput
    <3>1. pc' \in {"add", "crash", "failed", "adrift", "lines", "done"}
      BY <2>6 DEF SumStart, SumByte, StartOutput, SkipLine, WriteLine, EndOutput, Fatal
    <3> QED BY <3>1 DEF TableInv
  <2>7. CASE SumStore
    <3>1. pc' \in {"sums", "crash", "failed"} /\ (pc' = "sums" => chkIdx' = chkIdx + 1)
      BY <2>7 DEF SumStore, Put, Fatal
    <3>2. chkIdx + 1 # 1
      <4>1. chkIdx \in 1..(Len(job.sums) + 1) /\ Len(job.sums) \in Nat
        BY JobFacts DEF TypeInv, SumVars, Inputs
      <4> QED BY <4>1
    <3> QED BY <3>1, <3>2 DEF TableInv
  <2>8. CASE UNCHANGED vars
    <3>1. /\ UNCHANGED <<job, recIdx, relocs, nreloc>>
          /\ pc' = pc /\ wrPos' = wrPos /\ item' = item /\ textAddr' = textAddr
          /\ chkIdx' = chkIdx /\ image' = image
      BY <2>8 DEF vars, inVars, memVars, sumVars
    <3>2. (ItemsKnown' <=> ItemsKnown) /\ SymbolAt' = SymbolAt
      BY <3>1, ItemsSame
    <3>3. TextBefore(recIdx)' = TextBefore(recIdx)
      BY <3>1, Zenon DEF TextBefore, Before
    <3>4. (PutSoFar(item)' <=> PutSoFar(item)) /\ (PutSoFar(nreloc)' <=> PutSoFar(nreloc))
      BY <3>1, <3>2, Zenon DEF PutSoFar
    <3> QED BY <3>1, <3>2, <3>3, <3>4, Zenon DEF TableInv
  <2> QED BY <2>1, <2>2, <2>3, <2>4, <2>5, <2>6, <2>7, <2>8 DEF Next, Step, ReadRec, Exited
<1> QED BY <1>0, <1>r

LEMMA AlwaysTable == Spec => [](TypeInv /\ TableInv)
<1>1. Init => TypeInv /\ TableInv
  BY InitTypes, TableInit
<1>2. TypeInv /\ TableInv /\ [Next]_vars => (TypeInv /\ TableInv)'
  BY NextTypes, TableNext
<1> QED BY <1>1, <1>2, PTL DEF Spec

\* With -R the table stands at the address of its symbol: the number of relocation records,
\* and for each of them the address that it named, in their order.
THEOREM TableComesOut == Spec => []TableWritten
<1>1. TypeInv /\ TableInv => TableWritten
  <2> SUFFICES ASSUME TypeInv, TableInv, pc = "sums", chkIdx = 1, job.reloc = "R"
               PROVE  /\ WordAt(SymbolAt) = Cardinality(ItemsRead)
                      /\ \A i \in ItemsRead : WordAt(SymbolAt + 2 * Nth(i))
                                                = TextBefore(i) + job.recs[i].off
    BY Zenon DEF TableWritten, Nth
  <2>1. ItemsKnown /\ PutSoFar(nreloc)
    BY DEF TableInv
  <2>2. \A a, x : HasWord(image, a, x) => WordAt(a) = x
    BY DEF HasWord, WordAt
  <2> QED BY <2>1, <2>2, Zenon DEF ItemsKnown, PutSoFar
<1> QED BY <1>1, AlwaysTable, PTL

-----------------------------------------------------------------------------
(* Checksums *)

\* the first n bytes of sum s
Counted(im, s, n) == s.offset + Plus([i \in 1..n |-> ByteAt(im, s.addr1 + i - 1)])

\* Sum s stands where it belongs.
Right(im, s) ==
  /\ s.where2 - s.where1 + 1 \in {1, 2, 4}
  /\ s.where2 - s.where1 < 2 =>
       /\ Places(s) \subseteq DOMAIN im
       /\ Stored(im, s) = SumOf(im, s) % (IF s.where1 = s.where2 THEN Byte ELSE Seg)

\* what has been counted of the sum, as long as loc does not begin again at 0
Numbers(im, s, n) == \A i \in 1..n : ByteAt(im, s.addr1 + i - 1) \in Nat
Counting ==
  CurSum.addr2 < Seg - 1 =>
    /\ CurSum.addr1 <= loc /\ (loc = CurSum.addr1 \/ loc <= CurSum.addr2 + 1)
    /\ Numbers(image, CurSum, loc - CurSum.addr1)
    /\ crc = Counted(image, CurSum, loc - CurSum.addr1) % Seg

\* the sums before the one that is counted
AllRight == Apart => \A j \in 1..(chkIdx - 1) : Right(image, job.sums[j])

SumInv ==
  /\ pc \in {"records", "count", "items"} => chkIdx = 1
  /\ pc \in {"lines", "done"} => chkIdx = Len(job.sums) + 1
  /\ pc = "add" => Counting
  /\ pc \in {"sums", "add", "lines", "done"} => AllRight

LEMMA SumParts ==
  ASSUME NEW s \in Sum
  PROVE  /\ s.addr1 \in Nat /\ s.addr2 \in Nat /\ s.where1 \in Nat /\ s.where2 \in Nat
         /\ s.offset \in Nat /\ s.addr1 < Seg /\ s.addr2 < Seg
<1>1. /\ s.addr1 \in 0..(Seg - 1) /\ s.addr2 \in 0..(Seg - 1) /\ s.where1 \in 0..(Seg - 1)
      /\ s.where2 \in 0..(Seg - 1) /\ s.offset \in Nat
  BY Zenon DEF Sum
<1>2. Seg \in Nat
  BY Sizes
<1> QED BY <1>1, <1>2

LEMMA CountedNone == ASSUME NEW im, NEW s \in Sum PROVE Counted(im, s, 0) = s.offset
<1> DEFINE f == [i \in 1..0 |-> ByteAt(im, s.addr1 + i - 1)]
<1>1. Len(f) = 0
  <2>1. f = <<>>
    OBVIOUS
  <2> HIDE DEF f
  <2> QED BY <2>1
<1> HIDE DEF f
<1>2. Plus(f) = 0
  BY <1>1, PlusNone
<1>3. s.offset \in Nat
  BY SumParts
<1>4. s.offset + Plus(f) = s.offset
  BY <1>2, <1>3
<1> QED BY <1>4 DEF Counted, f

\* A sum over numbers, without its last one.
LEMMA PlusLast ==
  ASSUME NEW n \in Nat, NEW f, NEW g, f = [i \in 1..n |-> g[i]], g = [i \in 1..(n + 1) |-> g[i]],
         \A i \in 1..(n + 1) : g[i] \in Nat
  PROVE  Plus(f) \in Nat /\ Plus(g) = Plus(f) + g[n + 1]
<1>0. \A i \in 1..n : g[i] \in Nat
  OBVIOUS
<1>1. Len(f) = n /\ \A i \in 1..n : f[i] = g[i] /\ f[i] \in Nat
  <2>2. Len([i \in 1..n |-> g[i]]) = n
    OBVIOUS
  <2>3. \A i \in 1..n : [j \in 1..n |-> g[j]][i] = g[i]
    OBVIOUS
  <2> QED BY <1>0, <2>2, <2>3, Zenon
<1>2. Len(g) = n + 1 /\ g[n + 1] \in Nat
  OBVIOUS
<1>3. Plus(g) = Plus(f) + g[n + 1]
  BY <1>1, <1>2, PlusOne
<1>4. Len(f) \in Nat /\ \A i \in 1..Len(f) : f[i] \in Nat
  BY <1>1
<1>5. Plus(f) \in Nat
  BY <1>4, PlusNat, Zenon
<1> QED BY <1>3, <1>5

LEMMA CountedNat ==
  ASSUME NEW im, NEW s \in Sum, NEW n \in Nat, Numbers(im, s, n)
  PROVE  Counted(im, s, n) \in Nat
<1> DEFINE f == [i \in 1..n |-> ByteAt(im, s.addr1 + i - 1)]
<1>1. s.offset \in Nat
  BY SumParts
<1>2. Len(f) = n /\ \A i \in 1..n : f[i] = ByteAt(im, s.addr1 + i - 1)
  OBVIOUS
<1>3. Counted(im, s, n) = s.offset + Plus(f)
  BY Zenon DEF Counted
<1> HIDE DEF f
<1>4. Len(f) \in Nat /\ \A i \in 1..Len(f) : f[i] \in Nat
  BY <1>2 DEF Numbers
<1>5. Plus(f) \in Nat
  BY <1>4, PlusNat, Zenon
<1> QED BY <1>1, <1>3, <1>5

LEMMA CountedOne ==
  ASSUME NEW im, NEW s \in Sum, NEW n \in Nat, Numbers(im, s, n + 1)
  PROVE  /\ Counted(im, s, n) \in Nat
         /\ Counted(im, s, n + 1) = Counted(im, s, n) + ByteAt(im, s.addr1 + n)
<1> DEFINE f == [i \in 1..n |-> ByteAt(im, s.addr1 + i - 1)]
           g == [i \in 1..(n + 1) |-> ByteAt(im, s.addr1 + i - 1)]
<1>0. s.addr1 \in Nat /\ s.offset \in Nat
  BY SumParts
<1>2. s.addr1 + (n + 1) - 1 = s.addr1 + n
  BY <1>0
<1>3. \A i \in 1..(n + 1) : g[i] = ByteAt(im, s.addr1 + i - 1)
  OBVIOUS
<1>4. f = [i \in 1..n |-> g[i]] /\ g = [i \in 1..(n + 1) |-> g[i]]
  OBVIOUS
<1>5. n + 1 \in 1..(n + 1)
  OBVIOUS
<1>6. Counted(im, s, n) = s.offset + Plus(f) /\ Counted(im, s, n + 1) = s.offset + Plus(g)
  BY Zenon DEF Counted
<1> HIDE DEF f, g
<1>7. \A i \in 1..(n + 1) : g[i] \in Nat
  BY <1>3, Zenon DEF Numbers
<1>8. g[n + 1] = ByteAt(im, s.addr1 + n)
  BY <1>2, <1>3, <1>5, Zenon
<1>9. Plus(f) \in Nat /\ Plus(g) = Plus(f) + g[n + 1]
  BY <1>4, <1>7, PlusLast, Zenon
<1> DEFINE p == Plus(f)
           q == g[n + 1]
           o == s.offset
<1>10. p \in Nat /\ q \in Nat /\ o \in Nat
  BY <1>0, <1>5, <1>7, <1>9, Zenon
<1> HIDE DEF p, q, o
<1>11. o + p \in Nat /\ o + (p + q) = (o + p) + q
  BY <1>10
<1> QED BY <1>6, <1>8, <1>9, <1>11, Zenon DEF p, q, o

LEMMA SumOfIs ==
  ASSUME NEW im, NEW s
  PROVE  SumOf(im, s) = Counted(im, s, Highest(0, s.addr2 - s.addr1 + 1))
BY Zenon DEF SumOf, Counted

LEMMA SumOfSame ==
  ASSUME NEW im, NEW new, NEW s \in Sum,
         \A a \in s.addr1..s.addr2 : ByteAt(new, a) = ByteAt(im, a)
  PROVE  SumOf(new, s) = SumOf(im, s)
<1> DEFINE n == Highest(0, s.addr2 - s.addr1 + 1)
<1>0. s.addr1 \in Nat /\ s.addr2 \in Nat
  BY SumParts
<1>1. \A i \in 1..n : s.addr1 + i - 1 \in s.addr1..s.addr2
  BY <1>0 DEF Highest
<1>2. [i \in 1..n |-> ByteAt(new, s.addr1 + i - 1)] = [i \in 1..n |-> ByteAt(im, s.addr1 + i - 1)]
  <2> HIDE DEF n
  <2> QED BY <1>1
<1> QED BY <1>2, Zenon DEF SumOf

\* Where a sum of one or two bytes is kept.
LEMMA StoredIs ==
  ASSUME NEW s \in Sum, NEW im
  PROVE  /\ s.where2 = s.where1 /\ big =>
              Places(s) = {s.where1 + 1} /\ Stored(im, s) = im[s.where1 + 1]
         /\ s.where2 = s.where1 /\ ~big =>
              Places(s) = {s.where1} /\ Stored(im, s) = im[s.where1]
         /\ s.where2 = s.where1 + 1 =>
              Places(s) = {s.where1, s.where1 + 1}
         /\ s.where2 = s.where1 + 1 /\ big =>
              Stored(im, s) = WordOf(im[s.where1], im[s.where1 + 1])
         /\ s.where2 = s.where1 + 1 /\ ~big =>
              Stored(im, s) = WordOf(im[s.where1 + 1], im[s.where1])
<1>0. s.where1 \in Nat /\ s.where2 \in Nat
  BY SumParts
<1>1. CASE s.where2 = s.where1
  <2>1. s.where1..s.where2 = {s.where1} /\ s.where1 + 0 = s.where1 /\ s.where2 # s.where1 + 1
    BY <1>0, <1>1
  <2>2. Stored(im, s) = im[s.where1 + (IF big THEN 1 ELSE 0)]
    BY <1>1, Zenon DEF Stored
  <2> QED BY <1>1, <2>1, <2>2, Zenon DEF Places
<1>2. CASE s.where2 = s.where1 + 1
  <2>1. s.where1..s.where2 = {s.where1, s.where1 + 1} /\ s.where1 # s.where2
    BY <1>0, <1>2
  <2>2. CASE big
    <3>1. Stored(im, s) = WordOf(im[s.where1], im[s.where2])
      BY <2>1, <2>2, Zenon DEF Stored
    <3>2. Places(s) = {s.where1, s.where1 + 1}
      BY <2>1, Zenon DEF Places
    <3> QED BY <1>2, <2>1, <2>2, <3>1, <3>2, Zenon
  <2>3. CASE ~big
    <3>1. Stored(im, s) = WordOf(im[s.where2], im[s.where1])
      BY <2>1, <2>3, Zenon DEF Stored
    <3>2. Places(s) = {s.where1, s.where1 + 1}
      BY <2>1, Zenon DEF Places
    <3> QED BY <1>2, <2>1, <2>3, <3>1, <3>2, Zenon
  <2> QED BY <2>2, <2>3, Zenon
<1>3. CASE s.where2 # s.where1 /\ s.where2 # s.where1 + 1
  BY <1>3, Zenon
<1> QED BY <1>1, <1>2, <1>3, Zenon

LEMMA StoredSame ==
  ASSUME NEW s \in Sum, NEW im, NEW new, s.where2 \in {s.where1, s.where1 + 1},
         \A a \in Places(s) : new[a] = im[a]
  PROVE  Stored(new, s) = Stored(im, s)
<1>1. CASE s.where2 = s.where1 /\ big
  BY <1>1, StoredIs, Zenon
<1>2. CASE s.where2 = s.where1 /\ ~big
  BY <1>2, StoredIs, Zenon
<1>3. CASE s.where2 = s.where1 + 1
  <2>1. s.where1 \in Places(s) /\ s.where1 + 1 \in Places(s)
    BY <1>3, StoredIs, Zenon
  <2>2. new[s.where1] = im[s.where1] /\ new[s.where1 + 1] = im[s.where1 + 1]
    BY <2>1
  <2>3. CASE big
    <3>1. Stored(im, s) = WordOf(im[s.where1], im[s.where1 + 1])
      BY <1>3, <2>3, StoredIs, Zenon
    <3>2. Stored(new, s) = WordOf(new[s.where1], new[s.where1 + 1])
      BY <1>3, <2>3, StoredIs, Zenon
    <3> QED BY <2>2, <3>1, <3>2, Zenon
  <2>4. CASE ~big
    <3>1. Stored(im, s) = WordOf(im[s.where1 + 1], im[s.where1])
      BY <1>3, <2>4, StoredIs, Zenon
    <3>2. Stored(new, s) = WordOf(new[s.where1 + 1], new[s.where1])
      BY <1>3, <2>4, StoredIs, Zenon
    <3> QED BY <2>2, <3>1, <3>2, Zenon
  <2> QED BY <2>3, <2>4, Zenon
<1> QED BY <1>1, <1>2, <1>3, Zenon

\* A sum stays right as long as nothing is put where it stands and where it looks.
LEMMA RightKept ==
  ASSUME NEW s \in Sum, NEW im, NEW new, Right(im, s),
         \A a \in Places(s) : a \in DOMAIN im => a \in DOMAIN new /\ new[a] = im[a],
         \A a \in s.addr1..s.addr2 : ByteAt(new, a) = ByteAt(im, a)
  PROVE  Right(new, s)
<1>1. SumOf(new, s) = SumOf(im, s)
  BY SumOfSame
<1>2. s.where2 - s.where1 + 1 \in {1, 2, 4} /\ s.where1 \in Nat /\ s.where2 \in Nat
  BY SumParts DEF Right
<1>3. ASSUME s.where2 - s.where1 < 2
      PROVE  /\ Places(s) \subseteq DOMAIN new
             /\ Stored(new, s) = SumOf(new, s) % (IF s.where1 = s.where2 THEN Byte ELSE Seg)
  <2>1. s.where2 \in {s.where1, s.where1 + 1}
    BY <1>2, <1>3
  <2>2. /\ Places(s) \subseteq DOMAIN im
        /\ Stored(im, s) = SumOf(im, s) % (IF s.where1 = s.where2 THEN Byte ELSE Seg)
    BY <1>3, Zenon DEF Right
  <2>3. Places(s) \subseteq DOMAIN new /\ \A a \in Places(s) : new[a] = im[a]
    BY <2>2
  <2>4. \A a \in Places(s) : new[a] = im[a]
    BY <2>3, Zenon
  <2>5. Stored(new, s) = Stored(im, s)
    BY <2>1, <2>4, StoredSame
  <2> QED BY <1>1, <2>2, <2>3, <2>5, Zenon
<1> QED BY <1>2, <1>3, Zenon DEF Right

\* new is im with d at address at, which takes the places P.
PutOver(im, new, d, at, P) ==
  /\ P \subseteq DOMAIN new
  /\ \A i \in 1..Len(d) : new[at + i - 1] = d[i]
  /\ \A a \in Nat : a \notin P => ByteAt(new, a) = ByteAt(im, a)
  /\ \A a \in Nat : a \notin P /\ a \in DOMAIN im => a \in DOMAIN new /\ new[a] = im[a]

LEMMA WithIs ==
  ASSUME NEW im, NEW d \in Seq(Bytes), NEW at \in Nat, NEW P, P = at..(at + Len(d) - 1),
         NEW new, new = With(im, d, at)
  PROVE  PutOver(im, new, d, at, P)
<1> DEFINE n == Len(d)
<1>1. n \in Nat /\ DOMAIN d = 1..n
  OBVIOUS
<1> HIDE DEF n
<1>2. /\ DOMAIN new = DOMAIN im \cup {at + i - 1 : i \in 1..n}
      /\ \A a \in DOMAIN new : new[a] = IF a >= at /\ a - at + 1 \in 1..n THEN d[a - at + 1] ELSE im[a]
  BY <1>1 DEF With
<1>3. \A i \in 1..n : at + i - 1 \in DOMAIN new
  BY <1>2
<1>4. ASSUME NEW i \in 1..n PROVE new[at + i - 1] = d[i]
  <2>1. at + i - 1 >= at /\ (at + i - 1) - at + 1 = i
    BY <1>1
  <2> QED BY <1>2, <1>3, <2>1
<1>5. P \subseteq DOMAIN new
  <2>0. P = at..(at + n - 1)
    BY DEF n
  <2>1. ASSUME NEW a \in at..(at + n - 1) PROVE a \in DOMAIN new
    <3>1. a - at + 1 \in 1..n /\ at + (a - at + 1) - 1 = a
      BY <1>1
    <3> DEFINE i == a - at + 1
    <3>2. i \in 1..n /\ at + i - 1 = a
      BY <3>1
    <3> HIDE DEF i
    <3> QED BY <1>3, <3>2
  <2> QED BY <2>0, <2>1
<1>6. ASSUME NEW a \in Nat, a \notin P
      PROVE  /\ ByteAt(new, a) = ByteAt(im, a)
             /\ a \in DOMAIN im => a \in DOMAIN new /\ new[a] = im[a]
  <2>0. a \notin at..(at + n - 1)
    BY <1>6 DEF n
  <2>1. ~(a >= at /\ a - at + 1 \in 1..n)
    BY <1>1, <2>0
  <2>2. \A i \in 1..n : a # at + i - 1
    BY <1>1, <2>0
  <2>3. a \in DOMAIN new <=> a \in DOMAIN im
    BY <1>2, <2>2
  <2>4. a \in DOMAIN new => new[a] = im[a]
    BY <1>2, <2>1
  <2> QED BY <2>3, <2>4, Zenon DEF ByteAt
<1> QED BY <1>4, <1>5, <1>6, Zenon DEF n, PutOver

\* The bytes of a sum, in the order in which they are put.
LEMMA SumDataIs ==
  ASSUME TypeInv, chkIdx <= Len(job.sums)
  PROVE  /\ SumSize = 1 => SumData[1] = Lo(crc)
         /\ SumSize = 2 /\ big => SumData[1] = Hi(crc) /\ SumData[2] = Lo(crc)
         /\ SumSize = 2 /\ ~big => SumData[1] = Lo(crc) /\ SumData[2] = Hi(crc)
<1> DEFINE w == <<Lo(crc), Hi(crc), 0, 0>>
           n == SumSize
           s == SubSeq(w, 1, n)
<1>1. w[1] = Lo(crc) /\ w[2] = Hi(crc) /\ Len(w) = 4
  OBVIOUS
<1>2. SumBytes = s
  BY DEF SumBytes
<1> HIDE DEF w, n
<1>3. n \in {1, 2} => Len(s) = n /\ \A i \in 1..n : s[i] = w[i]
  BY <1>1
<1> HIDE DEF s
<1>4. n \in {1, 2} => \A i \in 1..n : Reverse(s)[i] = s[(n - i) + 1]
  BY <1>3 DEF Reverse
<1>5. n = 1 => s[1] = Lo(crc) /\ Reverse(s)[1] = Lo(crc)
  <2>1. ASSUME n = 1 PROVE s[1] = Lo(crc) /\ Reverse(s)[1] = Lo(crc)
    <3>1. 1 \in 1..n /\ (n - 1) + 1 = 1
      BY <2>1
    <3> QED BY <1>1, <1>3, <1>4, <2>1, <3>1
  <2> QED BY <2>1
<1>6. n = 2 => /\ s[1] = Lo(crc) /\ s[2] = Hi(crc)
               /\ Reverse(s)[1] = Hi(crc) /\ Reverse(s)[2] = Lo(crc)
  <2>1. ASSUME n = 2 PROVE /\ s[1] = Lo(crc) /\ s[2] = Hi(crc)
                           /\ Reverse(s)[1] = Hi(crc) /\ Reverse(s)[2] = Lo(crc)
    <3>1. 1 \in 1..n /\ 2 \in 1..n /\ (n - 1) + 1 = 2 /\ (n - 2) + 1 = 1
      BY <2>1
    <3> QED BY <1>1, <1>3, <1>4, <2>1, <3>1
  <2> QED BY <2>1
<1>7. (big => SumData = Reverse(s)) /\ (~big => SumData = s)
  BY <1>2, Zenon DEF SumData
<1>8. n = 1 => SumData[1] = Lo(crc)
  BY <1>5, <1>7, Zenon
<1>9. n = 2 /\ big => SumData[1] = Hi(crc) /\ SumData[2] = Lo(crc)
  BY <1>6, <1>7, Zenon
<1>10. n = 2 /\ ~big => SumData[1] = Lo(crc) /\ SumData[2] = Hi(crc)
  BY <1>6, <1>7, Zenon
<1> QED BY <1>8, <1>9, <1>10, Zenon DEF n

LEMMA RightPrime ==
  ASSUME UNCHANGED <<job, big>>
  PROVE  /\ Apart' = Apart
         /\ \A j : Right(image, job.sums[j])' <=> Right(image', job.sums[j])
BY DEF Apart, Right, Places, Stored, SumOf, ByteAt

LEMMA AllRightSame ==
  ASSUME AllRight, UNCHANGED <<job, big, image, chkIdx>>
  PROVE  AllRight'
BY RightPrime DEF AllRight

\* SumInv says nothing of a run that failed, and little of one that has no sums yet.
LEMMA SumsOver == ASSUME pc' \in {"crash", "failed", "adrift"} PROVE SumInv'
BY DEF SumInv

LEMMA SumsEarly ==
  ASSUME SumInv, pc \in {"records", "count", "items"}, chkIdx' = chkIdx,
         pc' \in {"records", "count", "items", "sums", "crash", "failed"}
  PROVE  SumInv'
<1>1. chkIdx' = 1
  BY DEF SumInv
<1>2. AllRight'
  BY <1>1 DEF AllRight
<1>3. pc' \notin {"lines", "done", "add"}
  OBVIOUS
<1> QED BY <1>1, <1>2, <1>3, Zenon DEF SumInv

LEMMA SumsStart == ASSUME TypeInv, SumInv, SumStart PROVE SumInv'
<1>1. /\ pc = "sums" /\ chkIdx <= Len(job.sums) /\ pc' = "add"
      /\ loc' = CurSum.addr1 % Seg /\ crc' = CurSum.offset % Seg
      /\ UNCHANGED <<job, big, image, chkIdx>>
  BY DEF SumStart, inVars
<1>2. CurSum \in Sum /\ CurSum.addr1 \in 0..(Seg - 1) /\ CurSum' = CurSum
  BY <1>1, SumIs DEF CurSum
<1>3. loc' = CurSum.addr1
  BY <1>1, <1>2, SmallMod, Sizes
<1>4. loc' - CurSum.addr1 = 0
  BY <1>2, <1>3
<1>5. Numbers(image, CurSum, 0) /\ Counted(image, CurSum, 0) = CurSum.offset
  BY <1>2, CountedNone DEF Numbers
<1>6. CurSum.addr1 <= CurSum.addr1
  BY <1>2
<1>7. /\ CurSum.addr1 <= loc' /\ loc' = CurSum.addr1
      /\ Numbers(image, CurSum, loc' - CurSum.addr1)
      /\ crc' = Counted(image, CurSum, loc' - CurSum.addr1) % Seg
  BY <1>1, <1>3, <1>4, <1>5, <1>6, Zenon
<1>8. Numbers(image, CurSum, loc - CurSum.addr1)' = Numbers(image, CurSum, loc' - CurSum.addr1)
      /\ Counted(image, CurSum, loc - CurSum.addr1)' = Counted(image, CurSum, loc' - CurSum.addr1)
  BY <1>1, <1>2, Zenon DEF Numbers, Counted, ByteAt
<1>9. Counting'
  BY <1>1, <1>2, <1>7, <1>8, Zenon DEF Counting
<1>10. AllRight'
  BY <1>1, AllRightSame DEF SumInv
<1> QED BY <1>1, <1>9, <1>10 DEF SumInv

\* One byte more.
LEMMA CountOn ==
  ASSUME NEW im, NEW s \in Sum, NEW at \in 0..(Seg - 1), NEW x \in Nat, NEW c \in Nat,
         s.addr2 < Seg - 1, at <= s.addr2, s.addr1 <= at, x = ByteAt(im, at),
         Numbers(im, s, at - s.addr1), c = Counted(im, s, at - s.addr1) % Seg
  PROVE  /\ (at + 1) % Seg = at + 1
         /\ s.addr1 <= at + 1 /\ at + 1 <= s.addr2 + 1
         /\ Numbers(im, s, (at + 1) - s.addr1)
         /\ (c + x) % Seg = Counted(im, s, (at + 1) - s.addr1) % Seg
<1>0. s.addr1 \in Nat /\ s.addr2 \in Nat /\ Seg \in Nat \ {0}
  BY SumParts, Sizes
<1> DEFINE n == at - s.addr1
<1>1. n \in Nat /\ n + 1 = (at + 1) - s.addr1 /\ s.addr1 + n = at
  BY <1>0
<1>2. at + 1 \in 0..(Seg - 1) /\ s.addr1 <= at + 1 /\ at + 1 <= s.addr2 + 1
  BY <1>0
<1>3. (at + 1) % Seg = at + 1
  BY <1>0, <1>2, SmallMod
<1> HIDE DEF n
<1>4. Numbers(im, s, n) /\ c = Counted(im, s, n) % Seg
  BY DEF n
<1>5. Numbers(im, s, n + 1)
  <2>1. ASSUME NEW i \in 1..(n + 1) PROVE ByteAt(im, s.addr1 + i - 1) \in Nat
    <3>1. CASE i \in 1..n
      BY <1>4, <3>1 DEF Numbers
    <3>2. CASE i = n + 1
      <4>1. s.addr1 + i - 1 = at
        BY <1>0, <1>1, <3>2
      <4> QED BY <4>1
    <3>3. i \in 1..n \/ i = n + 1
      BY <1>1
    <3> QED BY <3>1, <3>2, <3>3
  <2> QED BY <2>1 DEF Numbers
<1>6. Counted(im, s, n) \in Nat /\ Counted(im, s, n + 1) = Counted(im, s, n) + x
  BY <1>1, <1>5, CountedOne
<1>7. ((Counted(im, s, n) % Seg) + x) % Seg = (Counted(im, s, n) + x) % Seg
  BY <1>0, <1>6, ModPlus
<1>8. (c + x) % Seg = Counted(im, s, n + 1) % Seg
  BY <1>4, <1>6, <1>7, Zenon
<1> QED BY <1>1, <1>2, <1>3, <1>5, <1>8, Zenon

LEMMA SumsByte == ASSUME TypeInv, SumInv, SumByte PROVE SumInv'
<1>1. /\ pc = "add" /\ loc <= CurSum.addr2 /\ mem' = Load(mem, loc \div BlkSize)
      /\ mem'.fault = "none" => /\ crc' = (crc + Peek(mem', loc)) % Seg
                                /\ loc' = (loc + 1) % Seg /\ pc' = pc
      /\ mem'.fault # "none" => pc' \in {"crash", "failed"}
      /\ UNCHANGED <<job, inVars, image, chkIdx>>
  BY Zenon DEF SumByte
<1>2. CASE mem'.fault # "none"
  BY <1>1, <1>2, SumsOver
<1>3. CASE mem'.fault = "none"
  <2>0. chkIdx <= Len(job.sums) /\ pc \notin {"failed", "crash"} /\ big' = big
    BY <1>1 DEF TypeInv, SumVars, inVars
  <2>1. CurSum \in Sum /\ CurSum' = CurSum
    BY <1>1, <2>0, SumIs DEF CurSum
  <2>2. loc \in 0..(Seg - 1) /\ crc \in Nat /\ loc \in 0..(Limit - 1)
    BY Sizes DEF TypeInv, SumVars
  <2>3. Peek(mem', loc) = ByteAt(image, loc) /\ Peek(mem', loc) \in Nat
    <3>1. Peek(mem', loc) = ByteAt(image, loc) /\ Peek(mem', loc) \in Bytes
      BY <1>1, <1>3, <2>0, <2>2, PeekIs
    <3> QED BY <3>1, Sizes
  <2>4. Counting
    BY <1>1 DEF SumInv
  <2>5. ASSUME CurSum.addr2 < Seg - 1
        PROVE  /\ loc' = loc + 1 /\ CurSum.addr1 <= loc' /\ loc' <= CurSum.addr2 + 1
               /\ Numbers(image, CurSum, loc' - CurSum.addr1)
               /\ crc' = Counted(image, CurSum, loc' - CurSum.addr1) % Seg
    <3>1. CurSum.addr1 <= loc /\ Numbers(image, CurSum, loc - CurSum.addr1)
          /\ crc = Counted(image, CurSum, loc - CurSum.addr1) % Seg
      BY <2>4, <2>5, Zenon DEF Counting
    <3> DEFINE x == Peek(mem', loc)
    <3>x. x \in Nat /\ x = ByteAt(image, loc)
      BY <2>3
    <3> HIDE DEF x
    <3>2. /\ (loc + 1) % Seg = loc + 1
          /\ CurSum.addr1 <= loc + 1 /\ loc + 1 <= CurSum.addr2 + 1
          /\ Numbers(image, CurSum, (loc + 1) - CurSum.addr1)
          /\ (crc + x) % Seg = Counted(image, CurSum, (loc + 1) - CurSum.addr1) % Seg
      BY <1>1, <2>1, <2>2, <2>5, <3>1, <3>x, CountOn, Zenon
    <3>3. loc' = loc + 1 /\ crc' = (crc + x) % Seg
      BY <1>1, <1>3, <3>2, Zenon DEF x
    <3> QED BY <3>2, <3>3, Zenon
  <2>6. Numbers(image, CurSum, loc - CurSum.addr1)' = Numbers(image, CurSum, loc' - CurSum.addr1)
        /\ Counted(image, CurSum, loc - CurSum.addr1)' = Counted(image, CurSum, loc' - CurSum.addr1)
    BY <1>1, <2>1, Zenon DEF Numbers, Counted, ByteAt
  <2>7. Counting'
    BY <2>1, <2>5, <2>6, Zenon DEF Counting
  <2>8. AllRight'
    BY <1>1, <2>0, AllRightSame DEF SumInv
  <2> QED BY <1>1, <1>3, <2>7, <2>8 DEF SumInv
<1> QED BY <1>2, <1>3

\* When loc has passed the end of a sum, all of it is counted.
LEMMA AllCounted ==
  ASSUME NEW im, NEW s \in Sum, NEW at \in 0..(Seg - 1), s.addr2 < at, s.addr1 <= at,
         at = s.addr1 \/ at <= s.addr2 + 1
  PROVE  SumOf(im, s) = Counted(im, s, at - s.addr1) /\ at - s.addr1 \in Nat
<1>0. s.addr1 \in Nat /\ s.addr2 \in Nat /\ Seg \in Nat
  BY SumParts, Sizes
<1>1. Highest(0, s.addr2 - s.addr1 + 1) = at - s.addr1 /\ at - s.addr1 \in Nat
  BY <1>0 DEF Highest
<1> QED BY <1>1, SumOfIs, Zenon

\* The bytes that are put take the place of the sum.
LEMMA SumPlaces ==
  ASSUME TypeInv, chkIdx <= Len(job.sums), SumSize \in {1, 2, 4}
  PROVE  Places(CurSum) = SumAt..(SumAt + Len(SumData) - 1)
<1>1. CurSum.where1 \in Nat /\ CurSum.where2 \in Nat
  BY SumIs, SumParts
<1>2. Len(SumData) = SumSize /\ SumAt = CurSum.where1 + (IF big /\ SumSize = 1 THEN 1 ELSE 0)
  BY SumPut
<1>3. CASE SumSize = 1 /\ big
  <2>1. SumAt = CurSum.where1 + 1
    BY <1>2, <1>3, Zenon
  <2>2. CurSum.where1 = CurSum.where2
    BY <1>1, <1>3 DEF SumSize
  <2>3. Places(CurSum) = {CurSum.where1 + 1}
    BY <1>3, <2>2, Zenon DEF Places
  <2>4. (CurSum.where1 + 1)..((CurSum.where1 + 1) + 1 - 1) = {CurSum.where1 + 1}
    BY <1>1
  <2>5. SumAt + Len(SumData) - 1 = (CurSum.where1 + 1) + 1 - 1
    BY <1>2, <1>3, <2>1, Zenon
  <2> QED BY <2>1, <2>3, <2>4, <2>5, Zenon
<1>4. CASE ~(SumSize = 1 /\ big)
  <2>1. SumAt = CurSum.where1 + 0
    BY <1>2, <1>4, Zenon
  <2>2. ~(big /\ CurSum.where1 = CurSum.where2)
    <3>1. CurSum.where1 = CurSum.where2 => SumSize = 1
      BY <1>1 DEF SumSize
    <3> QED BY <1>4, <3>1, Zenon
  <2>3. Places(CurSum) = CurSum.where1..CurSum.where2
    BY <2>2, Zenon DEF Places
  <2>4. SumAt = CurSum.where1 /\ SumAt + SumSize - 1 = CurSum.where2
    BY <1>1, <2>1 DEF SumSize
  <2> QED BY <1>2, <2>3, <2>4, Zenon
<1> QED BY <1>3, <1>4, Zenon

\* The words and bytes that are stored have the value of the sum.
LEMMA SumValue ==
  ASSUME TypeInv, chkIdx <= Len(job.sums), CurSum.where2 - CurSum.where1 < 2,
         SumSize \in {1, 2, 4}, NEW C \in Nat, crc = C % Seg,
         NEW new, \A i \in 1..Len(SumData) : new[SumAt + i - 1] = SumData[i]
  PROVE  Stored(new, CurSum) = C % (IF CurSum.where1 = CurSum.where2 THEN Byte ELSE Seg)
<1>0. CurSum \in Sum /\ CurSum.where1 \in Nat /\ CurSum.where2 \in Nat
  BY SumIs, SumParts
<1>1. Len(SumData) = SumSize /\ SumAt = CurSum.where1 + (IF big /\ SumSize = 1 THEN 1 ELSE 0)
      /\ SumAt \in Nat
  BY SumPut
<1>2. Byte \in Nat \ {0} /\ Seg = Byte * Byte /\ crc \in 0..(Seg - 1) /\ Seg \in Nat \ {0}
  BY Sizes DEF TypeInv, SumVars
<1>3. Lo(crc) = C % Byte
  <2>1. (C % (Byte * Byte)) % Byte = C % Byte
    BY <1>2, ModMod
  <2> QED BY <1>2, <2>1, Zenon DEF Lo
<1>4. WordOf(Hi(crc), Lo(crc)) = C % Seg
  <2>1. crc \in Nat
    BY <1>2
  <2>2. WordOf(Hi(crc), Lo(crc)) = crc % Seg
    BY <2>1, WordBack
  <2>3. crc % Seg = crc
    BY <1>2, SmallMod
  <2> QED BY <2>2, <2>3, Zenon
<1>5. CASE SumSize = 1
  <2>1. CurSum.where2 = CurSum.where1
    BY <1>0, <1>5 DEF SumSize
  <2>2. 1 \in 1..Len(SumData)
    BY <1>1, <1>5
  <2>3. SumAt + 1 - 1 = SumAt
    BY <1>1
  <2>4. new[SumAt] = Lo(crc)
    BY <1>5, <2>2, <2>3, SumDataIs, Zenon
  <2>5. CASE big
    <3>1. Stored(new, CurSum) = new[CurSum.where1 + 1] /\ SumAt = CurSum.where1 + 1
      BY <1>0, <1>1, <1>5, <2>1, <2>5, StoredIs, Zenon
    <3> QED BY <1>3, <2>1, <2>4, <3>1, Zenon
  <2>6. CASE ~big
    <3>1. Stored(new, CurSum) = new[CurSum.where1] /\ SumAt = CurSum.where1 + 0
      BY <1>0, <1>1, <1>5, <2>1, <2>6, StoredIs, Zenon
    <3>2. CurSum.where1 + 0 = CurSum.where1
      BY <1>0
    <3> QED BY <1>3, <2>1, <2>4, <3>1, <3>2, Zenon
  <2> QED BY <2>5, <2>6, Zenon
<1>6. CASE SumSize = 2
  <2>1. CurSum.where2 = CurSum.where1 + 1 /\ CurSum.where1 # CurSum.where2
    BY <1>0, <1>6 DEF SumSize
  <2>2. 1 \in 1..Len(SumData) /\ 2 \in 1..Len(SumData)
    BY <1>1, <1>6
  <2>3. SumAt = CurSum.where1
    <3>1. SumSize # 1
      BY <1>6
    <3>2. SumAt = CurSum.where1 + 0
      BY <1>1, <3>1, Zenon
    <3> QED BY <1>0, <3>2
  <2>4. CurSum.where1 + 1 - 1 = CurSum.where1 /\ CurSum.where1 + 2 - 1 = CurSum.where1 + 1
    BY <1>0
  <2>5. new[CurSum.where1] = SumData[1] /\ new[CurSum.where1 + 1] = SumData[2]
    BY <2>2, <2>3, <2>4, Zenon
  <2>6. CASE big
    <3>1. Stored(new, CurSum) = WordOf(new[CurSum.where1], new[CurSum.where1 + 1])
      BY <1>0, <2>1, <2>6, StoredIs, Zenon
    <3>2. SumData[1] = Hi(crc) /\ SumData[2] = Lo(crc)
      BY <1>6, <2>6, SumDataIs, Zenon
    <3> QED BY <1>4, <2>1, <2>5, <3>1, <3>2, Zenon
  <2>7. CASE ~big
    <3>1. Stored(new, CurSum) = WordOf(new[CurSum.where1 + 1], new[CurSum.where1])
      BY <1>0, <2>1, <2>7, StoredIs, Zenon
    <3>2. SumData[1] = Lo(crc) /\ SumData[2] = Hi(crc)
      BY <1>6, <2>7, SumDataIs, Zenon
    <3> QED BY <1>4, <2>1, <2>5, <3>1, <3>2, Zenon
  <2> QED BY <2>6, <2>7, Zenon
<1>7. SumSize = 1 \/ SumSize = 2
  BY <1>0 DEF SumSize
<1> QED BY <1>5, <1>6, <1>7, Zenon

\* The sums that are apart: this one is not put where another one looks or stands.
LEMMA ApartIs ==
  ASSUME Apart, NEW i \in DOMAIN job.sums, NEW j \in DOMAIN job.sums
  PROVE  /\ \A a \in Places(job.sums[i]) : a \notin job.sums[j].addr1..job.sums[j].addr2
         /\ i # j => \A a \in Places(job.sums[i]) : a \notin Places(job.sums[j])
BY DEF Apart

LEMMA PlacesNat == ASSUME NEW s \in Sum PROVE Places(s) \subseteq Nat /\ s.addr1..s.addr2 \subseteq Nat
<1>1. s.where1 \in Nat /\ s.where2 \in Nat /\ s.addr1 \in Nat /\ s.addr2 \in Nat
  BY SumParts
<1>2. {s.where1 + 1} \subseteq Nat /\ s.where1..s.where2 \subseteq Nat /\ s.addr1..s.addr2 \subseteq Nat
  BY <1>1
<1> QED BY <1>2, Zenon DEF Places

\* The sum that has been counted and is put.
LEMMA NewRight ==
  ASSUME TypeInv, chkIdx <= Len(job.sums), Apart, Counting, loc > CurSum.addr2,
         SumSize \in {1, 2, 4}
  PROVE  Right(With(image, SumData, SumAt), CurSum)
<1> DEFINE new == With(image, SumData, SumAt)
<1>0. CurSum \in Sum /\ SumData \in Seq(Bytes) /\ SumAt \in Nat
      /\ Places(CurSum) = SumAt..(SumAt + Len(SumData) - 1)
  BY SumIs, SumPut, SumPlaces
<1>1. /\ Places(CurSum) \subseteq DOMAIN new
      /\ \A i \in 1..Len(SumData) : new[SumAt + i - 1] = SumData[i]
      /\ \A a \in Nat : a \notin Places(CurSum) => ByteAt(new, a) = ByteAt(image, a)
  <2>1. PutOver(image, new, SumData, SumAt, Places(CurSum))
    BY <1>0, WithIs
  <2> QED BY <2>1, Zenon DEF PutOver
<1> HIDE DEF new
<1>2. loc \in 0..(Seg - 1) /\ Seg \in Nat /\ CurSum.addr1 \in Nat /\ CurSum.addr2 \in Nat
  BY <1>0, SumParts, Sizes DEF TypeInv, SumVars
<1>3. CurSum.addr2 < Seg - 1
  BY <1>2
<1>4. /\ CurSum.addr1 <= loc /\ (loc = CurSum.addr1 \/ loc <= CurSum.addr2 + 1)
      /\ Numbers(image, CurSum, loc - CurSum.addr1)
      /\ crc = Counted(image, CurSum, loc - CurSum.addr1) % Seg
  BY <1>3, Zenon DEF Counting
<1>5. SumOf(image, CurSum) = Counted(image, CurSum, loc - CurSum.addr1)
      /\ loc - CurSum.addr1 \in Nat
  <2>1. CurSum.addr2 < loc
    BY <1>2
  <2> QED BY <1>0, <1>2, <1>4, <2>1, AllCounted, Zenon
<1>6. SumOf(image, CurSum) \in Nat
  BY <1>0, <1>4, <1>5, CountedNat
<1>7. SumOf(new, CurSum) = SumOf(image, CurSum)
  <2>1. chkIdx \in DOMAIN job.sums
    BY JobFacts DEF TypeInv, SumVars, Inputs
  <2>2. \A a \in Places(CurSum) : a \notin CurSum.addr1..CurSum.addr2
    BY <2>1, ApartIs, Zenon DEF CurSum
  <2>3. \A a \in CurSum.addr1..CurSum.addr2 : ByteAt(new, a) = ByteAt(image, a)
    BY <1>0, <1>1, <2>2, PlacesNat
  <2> QED BY <1>0, <2>3, SumOfSame
<1>8. CurSum.where2 - CurSum.where1 < 2 =>
        Stored(new, CurSum)
          = SumOf(image, CurSum) % (IF CurSum.where1 = CurSum.where2 THEN Byte ELSE Seg)
  <2> DEFINE C == SumOf(image, CurSum)
  <2>1. C \in Nat /\ crc = C % Seg
    BY <1>4, <1>5, <1>6, Zenon
  <2> HIDE DEF C
  <2>2. CurSum.where2 - CurSum.where1 < 2 =>
          Stored(new, CurSum) = C % (IF CurSum.where1 = CurSum.where2 THEN Byte ELSE Seg)
    BY <1>1, <2>1, SumValue, Zenon
  <2> QED BY <2>2 DEF C
<1>9. CurSum.where2 - CurSum.where1 + 1 \in {1, 2, 4}
  BY DEF SumSize
<1> QED BY <1>1, <1>7, <1>8, <1>9, Zenon DEF Right, new

LEMMA SumsStore == ASSUME TypeInv, SumInv, SumStore PROVE SumInv'
<1>1. /\ pc = "add" /\ loc > CurSum.addr2 /\ UNCHANGED <<job, inVars, outVars>>
      /\ chkIdx <= Len(job.sums)
  BY DEF SumStore, TypeInv, SumVars
<1>2. CASE SumSize \notin {1, 2, 4}
  <2>1. pc' = "failed"
    BY <1>2, Zenon DEF SumStore, Fatal
  <2> QED BY <2>1, SumsOver
<1>3. CASE SumSize \in {1, 2, 4}
  <2>1. Put(SumData, SumAt, "sums") /\ chkIdx' = chkIdx + 1
    BY <1>3, Zenon DEF SumStore, SumData, SumAt
  <2>2. SumData \in Seq(Bytes) /\ SumAt \in Nat
        /\ Places(CurSum) = SumAt..(SumAt + Len(SumData) - 1)
    BY <1>1, <1>3, SumPut, SumPlaces
  <2>3. image' = With(image, SumData, SumAt) /\ pc' \in {"sums", "failed", "crash"}
    <3>1. "sums" \in PCs
      BY DEF PCs
    <3> QED BY <1>1, <2>1, <2>2, <3>1, PutOK
  <2>4. CASE pc' # "sums"
    BY <2>3, <2>4, SumsOver
  <2>5. CASE pc' = "sums"
    <3>1. UNCHANGED <<job, big>> /\ Counting /\ AllRight
      BY <1>1 DEF inVars, SumInv
    <3>2. ASSUME Apart, NEW j \in 1..chkIdx PROVE Right(image', job.sums[j])
      <4>1. chkIdx \in DOMAIN job.sums /\ j \in DOMAIN job.sums /\ job.sums[j] \in Sum
            /\ chkIdx \in Nat
        BY <1>1, JobFacts DEF TypeInv, SumVars, Inputs
      <4>2. CASE j = chkIdx
        BY <1>1, <1>3, <2>3, <3>1, <3>2, <4>2, NewRight, Zenon DEF CurSum
      <4>3. CASE j # chkIdx
        <5> DEFINE s == job.sums[j]
                   new == image'
        <5>1. Right(image, s)
          <6>1. j \in 1..(chkIdx - 1)
            BY <4>1, <4>3
          <6> QED BY <3>1, <3>2, <6>1, Zenon DEF AllRight
        <5>2. /\ \A a \in Nat : a \notin Places(CurSum) => ByteAt(new, a) = ByteAt(image, a)
              /\ \A a \in Nat : a \notin Places(CurSum) /\ a \in DOMAIN image
                               => a \in DOMAIN new /\ new[a] = image[a]
          <6>1. PutOver(image, new, SumData, SumAt, Places(CurSum))
            BY <2>2, <2>3, WithIs
          <6> QED BY <6>1, Zenon DEF PutOver
        <5>3. /\ \A a \in Places(CurSum) : a \notin s.addr1..s.addr2
              /\ \A a \in Places(CurSum) : a \notin Places(s)
          BY <3>2, <4>1, <4>3, ApartIs, Zenon DEF CurSum
        <5>4. Places(s) \subseteq Nat /\ s.addr1..s.addr2 \subseteq Nat /\ s \in Sum
          BY <4>1, PlacesNat
        <5> HIDE DEF s, new
        <5>5. /\ \A a \in Places(s) : a \in DOMAIN image => a \in DOMAIN new /\ new[a] = image[a]
              /\ \A a \in s.addr1..s.addr2 : ByteAt(new, a) = ByteAt(image, a)
          BY <5>2, <5>3, <5>4
        <5>6. Right(new, s)
          BY <5>1, <5>4, <5>5, RightKept
        <5> QED BY <5>6 DEF new, s
      <4> QED BY <4>2, <4>3
    <3>3. chkIdx' - 1 = chkIdx
      BY <2>1 DEF TypeInv, SumVars
    <3>4. AllRight'
      BY <3>1, <3>2, <3>3, RightPrime, Zenon DEF AllRight
    <3> QED BY <2>5, <3>4 DEF SumInv
  <2> QED BY <2>4, <2>5
<1> QED BY <1>2, <1>3

\* The output changes neither the image nor the sums.
LEMMA SumsOutput ==
  ASSUME TypeInv, SumInv, StartOutput \/ SkipLine \/ WriteLine \/ EndOutput
  PROVE  SumInv'
<1>1. CASE StartOutput
  <2>1. pc = "sums" /\ chkIdx > Len(job.sums) /\ pc' \in {"crash", "adrift", "lines"}
        /\ UNCHANGED <<job, big, image, chkIdx>>
    BY <1>1 DEF StartOutput, memVars, sumVars
  <2>2. chkIdx' = Len(job'.sums) + 1
    BY <2>1, JobFacts DEF TypeInv, SumVars, Inputs
  <2>3. AllRight'
    BY <2>1, AllRightSame DEF SumInv
  <2> QED BY <2>1, <2>2, <2>3 DEF SumInv
<1>2. CASE SkipLine \/ WriteLine \/ EndOutput
  <2>1. pc = "lines" /\ pc' \in {"lines", "done", "crash", "failed"}
        /\ UNCHANGED <<job, big, image, chkIdx>>
    <3>1. CASE SkipLine \/ EndOutput
      BY <3>1 DEF SkipLine, EndOutput, inVars, memVars, sumVars
    <3>2. CASE WriteLine
      BY <3>2, WriteLineIs DEF inVars, sumVars, Fatal
    <3> QED BY <1>2, <3>1, <3>2
  <2>2. chkIdx' = Len(job'.sums) + 1
    BY <2>1 DEF SumInv
  <2>3. AllRight'
    BY <2>1, AllRightSame DEF SumInv
  <2> QED BY <2>1, <2>2, <2>3 DEF SumInv
<1> QED BY <1>1, <1>2

LEMMA SumsInit == ASSUME Init PROVE SumInv
BY DEF Init, SumInv

LEMMA SumsNext == ASSUME TypeInv, SumInv, [Next]_vars PROVE SumInv'
<1>1. CASE ReadRec
  <2>1. pc = "records" /\ chkIdx' = chkIdx
        /\ pc' \in {"records", "count", "sums", "crash", "failed"}
    <3>1. CASE ReadRecFails \/ DoStart \/ DoIdent \/ DoSym \/ DoReloc \/ DoEnd
      BY <3>1 DEF ReadRecFails, DoStart, DoIdent, DoSym, DoReloc, DoEnd, Reading, Fatal, sumVars
    <3>2. CASE DoText
      BY <3>2 DEF DoText, Reading, Put, sumVars
    <3> QED BY <1>1, <3>1, <3>2 DEF ReadRec
  <2> QED BY <2>1, SumsEarly
<1>2. CASE PutCount \/ PutItem \/ TableDone
  <2>1. pc \in {"count", "items"} /\ chkIdx' = chkIdx
        /\ pc' \in {"items", "sums", "crash", "failed"}
    <3>1. CASE PutCount
      BY <3>1 DEF PutCount, Put, sumVars
    <3>2. CASE PutItem
      BY <3>2 DEF PutItem, Put, sumVars
    <3>3. CASE TableDone
      BY <3>3 DEF TableDone, sumVars
    <3> QED BY <1>2, <3>1, <3>2, <3>3
  <2> QED BY <2>1, SumsEarly
<1>3. CASE UNCHANGED vars
  <2>1. UNCHANGED <<job, pc, big, image, chkIdx, loc, crc>>
    BY <1>3 DEF vars, inVars, memVars, sumVars
  <2>2. CurSum' = CurSum
    BY <2>1 DEF CurSum
  <2>3. Counting => Counting'
    BY <2>1, <2>2 DEF Counting, Numbers, Counted, ByteAt
  <2>4. AllRight => AllRight'
    BY <2>1, AllRightSame
  <2> QED BY <2>1, <2>3, <2>4, Zenon DEF SumInv
<1> QED BY <1>1, <1>2, <1>3, SumsStart, SumsByte, SumsStore, SumsOutput DEF Next, Step, Exited

LEMMA AlwaysSums == Spec => [](TypeInv /\ Laid /\ SumInv)
<1>1. Init => TypeInv /\ Laid /\ SumInv
  BY InitTypes, LaidInit, SumsInit
<1>2. TypeInv /\ Laid /\ SumInv /\ [Next]_vars => (TypeInv /\ Laid /\ SumInv)'
  BY NextTypes, NextLaidOK, SumsNext
<1> QED BY <1>1, <1>2, PTL DEF Spec

\* Every sum of one or two bytes that a loader of the lines finds is that of the bytes it
\* finds between its addresses, although sums are added up one after the other and each is put
\* into the image before the next one is taken; provided that they are apart.
THEOREM SumsAreTrue == Spec => []ChecksumTrue
<1>1. ASSUME TypeInv, Laid, SumInv, pc = "done", Loadable, Apart, NEW s \in ToSet(job.sums),
             s.where2 - s.where1 < 2
      PROVE  Stored(Loaded, s) = SumOf(Loaded, s) % (IF s.where1 = s.where2 THEN Byte ELSE Seg)
  <2>1. job.sums \in Seq(Sum) /\ chkIdx = Len(job.sums) + 1 /\ Len(job.sums) \in Nat /\ AllRight
    BY <1>1, JobFacts DEF TypeInv, Inputs, SumInv
  <2>2. PICK j \in 1..Len(job.sums) : s = job.sums[j]
    BY <2>1 DEF ToSet
  <2>3. s \in Sum /\ j \in 1..(chkIdx - 1)
    BY <2>1, <2>2
  <2>4. Right(image, s)
    BY <1>1, <2>1, <2>2, <2>3, Zenon DEF AllRight
  <2> DEFINE l == Loaded
  <2>5. DOMAIN image \subseteq DOMAIN l /\ \A a \in DOMAIN l : l[a] = ByteAt(image, a)
    BY <1>1, LoadedIs
  <2> HIDE DEF l
  <2>6. \A a : ByteAt(l, a) = ByteAt(image, a)
    BY <2>5 DEF ByteAt
  <2>7. \A a \in DOMAIN image : a \in DOMAIN l /\ l[a] = image[a]
    BY <2>5 DEF ByteAt
  <2>8. Right(l, s)
    BY <2>3, <2>4, <2>6, <2>7, RightKept
  <2> QED BY <1>1, <2>8, Zenon DEF Right, l
<1>2. TypeInv /\ Laid /\ SumInv => ChecksumTrue
  BY <1>1, Zenon DEF ChecksumTrue
<1> QED BY <1>2, AlwaysSums, PTL

\* The whole of it: what a run that ends well has written is the image, in valid lines, with
\* the table and the sums that belong to it.
THEOREM ImageIsFaithful == Spec => []ImageFaithful
<1>1. BytesInPlace /\ RecordsValid /\ TableWritten /\ ChecksumTrue => ImageFaithful
  BY Zenon DEF ImageFaithful
<1> QED BY <1>1, ImageComesBack, LinesValid, TableComesOut, SumsAreTrue, PTL

=============================================================================
