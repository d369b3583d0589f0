----------------------------- MODULE ZasProofs -----------------------------
(***************************************************************************)
(* Proofs about module Zas, the assembler.                                 *)
(***************************************************************************)
EXTENDS Zas, TLAPS, FiniteSetTheorems, SequenceTheorems, WellFoundedInduction

-----------------------------------------------------------------------------
(* Induction over the natural numbers *)

\* A set of natural numbers has a smallest element.
LEMMA Least == ASSUME NEW S, S \subseteq Nat, S # {}
               PROVE  \E x \in S : \A y \in S : x <= y
<1> DEFINE T == {1..n : n \in S}
<1>0. \A n \in S : n \in Nat /\ 1..n \in FiniteSubsetsOf(Int) /\ 1..n \in T
  BY FS_Interval DEF FiniteSubsetsOf
<1>1. IsWellFoundedOn(StrictSubsetOrdering(Int), FiniteSubsetsOf(Int))
  BY FS_StrictSubsetOrderingWellFounded
<1>2. T \subseteq FiniteSubsetsOf(Int) /\ T # {}
  BY <1>0
<1> HIDE DEF T
<1>3. PICK t \in T : \A y \in T : <<y, t>> \notin StrictSubsetOrdering(Int)
  BY <1>1, <1>2, WFMin
<1>4. PICK x \in S : t = 1..x
  BY <1>3 DEF T
<1>5. ASSUME NEW y \in S, y < x PROVE FALSE
  <2>1. 1..y \in T /\ x \in Nat /\ y \in Nat
    BY <1>0, <1>5
  <2>2. 1..y \subseteq 1..x /\ x \in 1..x /\ x \notin 1..y
    BY <1>5, <2>1
  <2>3. <<1..y, 1..x>> \in StrictSubsetOrdering(Int)
    BY <2>1, <2>2 DEF StrictSubsetOrdering
  <2> QED BY <1>3, <1>4, <2>1, <2>3
<1>6. \A y \in S : x <= y
  BY <1>5
<1> QED BY <1>6

\* What holds of 0, and of n + 1 when it holds of n, holds of every natural number.
LEMMA Induct == ASSUME NEW S, 0 \in S, \A n \in S : n + 1 \in S PROVE Nat \subseteq S
<1> SUFFICES ASSUME Nat \ S # {} PROVE FALSE
  OBVIOUS
<1>1. PICK x \in Nat \ S : \A y \in Nat \ S : x <= y
  BY Least
<1>2. x # 0 /\ x - 1 \in Nat
  BY <1>1
<1>3. x - 1 \in S
  BY <1>1, <1>2
<1> QED BY <1>1, <1>3

-----------------------------------------------------------------------------
(* What is counted through: the functions that Through goes by, for each of the *)
(* operators that are defined with it.                                          *)

\* f is the function that AddAll counts up with, as far as m
AddTo(s, f, m, o) == f = [n \in 0..m |-> IF n = 0 THEN o ELSE AddObj(f[n - 1], s[n])]

LEMMA AddExists == ASSUME NEW o, NEW s PROVE \A m \in Nat : \E f : AddTo(s, f, m, o)
<1> DEFINE P == {m \in Nat : \E f : AddTo(s, f, m, o)}
<1>1. 0 \in P
  <2> DEFINE f == [n \in 0..0 |-> o]
  <2>1. AddTo(s, f, 0, o)
    BY DEF AddTo
  <2> QED BY <2>1
<1>2. ASSUME NEW m \in P PROVE m + 1 \in P
  <2>1. PICK f : AddTo(s, f, m, o)
    OBVIOUS
  <2> DEFINE g == [n \in 0..(m + 1) |-> IF n <= m THEN f[n] ELSE AddObj(f[m], s[m + 1])]
  <2>2. ASSUME NEW n \in 0..(m + 1)
        PROVE  g[n] = IF n = 0 THEN o ELSE AddObj(g[n - 1], s[n])
    <3>1. CASE n = 0
      BY <2>1, <3>1 DEF AddTo
    <3>2. CASE n \in 1..m
      <4>1. n \in 0..m /\ n - 1 \in 0..m /\ n # 0
        BY <3>2
      <4>2. g[n] = f[n] /\ g[n - 1] = f[n - 1]
        BY <4>1
      <4>3. f[n] = AddObj(f[n - 1], s[n])
        <5> HIDE DEF g
        <5> QED BY <2>1, <4>1 DEF AddTo
      <4> QED BY <4>1, <4>2, <4>3, Zenon
    <3>3. CASE n = m + 1
      <4>1. m \in Nat /\ n \notin 0..m /\ n - 1 = m /\ m \in 0..(m + 1) /\ n # 0 /\ m \in 0..m
        BY <3>3
      <4>2. g[n] = AddObj(f[m], s[m + 1]) /\ g[m] = f[m]
        BY <4>1, <3>3
      <4> QED BY <4>1, <4>2, <3>3, Zenon
    <3> QED BY <3>1, <3>2, <3>3
  <2>3. AddTo(s, g, m + 1, o)
    <3>1. g = [n \in 0..(m + 1) |-> g[n]]
      OBVIOUS
    <3> HIDE DEF g
    <3>2. [n \in 0..(m + 1) |-> g[n]]
            = [n \in 0..(m + 1) |-> IF n = 0 THEN o ELSE AddObj(g[n - 1], s[n])]
      BY <2>2, Zenon
    <3> QED BY <3>1, <3>2, Zenon DEF AddTo
  <2> QED BY <2>3
<1> HIDE DEF P
<1>3. Nat \subseteq P
  BY <1>1, <1>2, Induct
<1> QED BY <1>3 DEF P

\* Sequences that agree so far are counted through alike.
LEMMA AddUnique ==
  ASSUME NEW o, NEW s, NEW t, NEW f, NEW g, NEW m \in Nat, NEW k \in Nat, m <= k,
         AddTo(s, f, m, o), AddTo(t, g, k, o), \A i \in 1..m : s[i] = t[i]
  PROVE  \A n \in 0..m : f[n] = g[n]
<1> DEFINE P == {n \in Nat : n <= m => f[n] = g[n]}
<1>1. 0 \in P
  BY DEF AddTo
<1>2. ASSUME NEW n \in P PROVE n + 1 \in P
  <2>1. SUFFICES ASSUME n + 1 <= m PROVE f[n + 1] = g[n + 1]
    OBVIOUS
  <2>2. /\ n + 1 \in 0..m /\ n + 1 \in 0..k /\ n + 1 # 0 /\ (n + 1) - 1 = n
        /\ f[n] = g[n] /\ s[n + 1] = t[n + 1]
    BY <2>1
  <2>3. f[n + 1] = AddObj(f[n], s[n + 1])
    <3>1. f[n + 1] = IF n + 1 = 0 THEN o ELSE AddObj(f[(n + 1) - 1], s[n + 1])
      BY <2>2, Zenon DEF AddTo
    <3> QED BY <2>2, <3>1, Zenon
  <2>4. g[n + 1] = AddObj(g[n], t[n + 1])
    <3>1. g[n + 1] = IF n + 1 = 0 THEN o ELSE AddObj(g[(n + 1) - 1], t[n + 1])
      BY <2>2, Zenon DEF AddTo
    <3> QED BY <2>2, <3>1, Zenon
  <2> QED BY <2>2, <2>3, <2>4, Zenon
<1> HIDE DEF P
<1>3. Nat \subseteq P
  BY <1>1, <1>2, Induct
<1> QED BY <1>3 DEF P

LEMMA AddIs ==
  ASSUME NEW o, NEW s, Len(s) \in Nat, NEW f, AddTo(s, f, Len(s), o)
  PROVE  AddAll(o, s) = f[Len(s)]
<1>1. PICK g : AddTo(s, g, Len(s), o) /\ AddAll(o, s) = g[Len(s)]
  BY Zenon DEF AddAll, Through, AddTo
<1>2. g[Len(s)] = f[Len(s)]
  BY <1>1, AddUnique
<1> QED BY <1>1, <1>2

LEMMA AddNone == ASSUME NEW o, NEW s, Len(s) = 0 PROVE AddAll(o, s) = o
<1>1. PICK f : AddTo(s, f, Len(s), o)
  BY AddExists
<1>2. AddAll(o, s) = f[Len(s)]
  BY <1>1, AddIs
<1>3. f[0] = o
  BY <1>1 DEF AddTo
<1> QED BY <1>2, <1>3

LEMMA AddOne ==
  ASSUME NEW o, NEW s, NEW t, Len(s) \in Nat, Len(t) = Len(s) + 1, \A i \in 1..Len(s) : s[i] = t[i]
  PROVE  AddAll(o, t) = AddObj(AddAll(o, s), t[Len(s) + 1])
<1>1. PICK f : AddTo(s, f, Len(s), o)
  BY AddExists
<1>2. PICK g : AddTo(t, g, Len(s) + 1, o)
  BY AddExists
<1>3. AddAll(o, s) = f[Len(s)] /\ AddAll(o, t) = g[Len(s) + 1]
  BY <1>1, <1>2, AddIs
<1>4. f[Len(s)] = g[Len(s)]
  BY <1>1, <1>2, AddUnique
<1>5. Len(s) + 1 \in 0..(Len(s) + 1) /\ Len(s) + 1 # 0 /\ (Len(s) + 1) - 1 = Len(s)
  OBVIOUS
<1>6. g[Len(s) + 1] = AddObj(g[Len(s)], t[Len(s) + 1])
  <2>1. g[Len(s) + 1] = IF Len(s) + 1 = 0 THEN o
                        ELSE AddObj(g[(Len(s) + 1) - 1], t[Len(s) + 1])
    BY <1>2, <1>5, Zenon DEF AddTo
  <2> QED BY <1>5, <2>1, Zenon
<1> QED BY <1>3, <1>4, <1>6, Zenon

\* the same for ItemErrors
ErrTo(s, f, m, stray, more) == f = [n \in 0..m |-> IF n = 0 THEN more ELSE (IF s[n].w = 0 THEN f[n - 1] ELSE f[n - 1] + ExprErrors(s[n].e, stray) + CountIf(TooWide(Field(s[n], stray))))]

LEMMA ErrExists == ASSUME NEW stray, NEW more, NEW s PROVE \A m \in Nat : \E f : ErrTo(s, f, m, stray, more)
<1> DEFINE P == {m \in Nat : \E f : ErrTo(s, f, m, stray, more)}
<1>1. 0 \in P
  <2> DEFINE f == [n \in 0..0 |-> more]
  <2>1. ErrTo(s, f, 0, stray, more)
    BY DEF ErrTo
  <2> QED BY <2>1
<1>2. ASSUME NEW m \in P PROVE m + 1 \in P
  <2>1. PICK f : ErrTo(s, f, m, stray, more)
    OBVIOUS
  <2> DEFINE g == [n \in 0..(m + 1) |-> IF n <= m THEN f[n] ELSE (IF s[m + 1].w = 0 THEN f[m] ELSE f[m] + ExprErrors(s[m + 1].e, stray) + CountIf(TooWide(Field(s[m + 1], stray))))]
  <2>2. ASSUME NEW n \in 0..(m + 1)
        PROVE  g[n] = IF n = 0 THEN more ELSE (IF s[n].w = 0 THEN g[n - 1] ELSE g[n - 1] + ExprErrors(s[n].e, stray) + CountIf(TooWide(Field(s[n], stray))))
    <3>1. CASE n = 0
      BY <2>1, <3>1 DEF ErrTo
    <3>2. CASE n \in 1..m
      <4>1. n \in 0..m /\ n - 1 \in 0..m /\ n # 0
        BY <3>2
      <4>2. g[n] = f[n] /\ g[n - 1] = f[n - 1]
        BY <4>1
      <4>3. f[n] = (IF s[n].w = 0 THEN f[n - 1] ELSE f[n - 1] + ExprErrors(s[n].e, stray) + CountIf(TooWide(Field(s[n], stray))))
        <5> HIDE DEF g
        <5> QED BY <2>1, <4>1 DEF ErrTo
      <4> QED BY <4>1, <4>2, <4>3, Zenon
    <3>3. CASE n = m + 1
      <4>1. m \in Nat /\ n \notin 0..m /\ n - 1 = m /\ m \in 0..(m + 1) /\ n # 0 /\ m \in 0..m
        BY <3>3
      <4>2. g[n] = (IF s[m + 1].w = 0 THEN f[m] ELSE f[m] + ExprErrors(s[m + 1].e, stray) + CountIf(TooWide(Field(s[m + 1], stray)))) /\ g[m] = f[m]
        BY <4>1, <3>3
      <4> QED BY <4>1, <4>2, <3>3, Zenon
    <3> QED BY <3>1, <3>2, <3>3
  <2>3. ErrTo(s, g, m + 1, stray, more)
    <3>1. g = [n \in 0..(m + 1) |-> g[n]]
      OBVIOUS
    <3> HIDE DEF g
    <3>2. [n \in 0..(m + 1) |-> g[n]]
            = [n \in 0..(m + 1) |-> IF n = 0 THEN more ELSE (IF s[n].w = 0 THEN g[n - 1] ELSE g[n - 1] + ExprErrors(s[n].e, stray) + CountIf(TooWide(Field(s[n], stray))))]
      BY <2>2, Zenon
    <3> QED BY <3>1, <3>2, Zenon DEF ErrTo
  <2> QED BY <2>3
<1> HIDE DEF P
<1>3. Nat \subseteq P
  BY <1>1, <1>2, Induct
<1> QED BY <1>3 DEF P

\* Sequences that agree so far are counted through alike.
LEMMA ErrUnique ==
  ASSUME NEW stray, NEW more, NEW s, NEW t, NEW f, NEW g, NEW m \in Nat, NEW k \in Nat, m <= k,
         ErrTo(s, f, m, stray, more), ErrTo(t, g, k, stray, more), \A i \in 1..m : s[i] = t[i]
  PROVE  \A n \in 0..m : f[n] = g[n]
<1> DEFINE P == {n \in Nat : n <= m => f[n] = g[n]}
<1>1. 0 \in P
  BY DEF ErrTo
<1>2. ASSUME NEW n \in P PROVE n + 1 \in P
  <2>1. SUFFICES ASSUME n + 1 <= m PROVE f[n + 1] = g[n + 1]
    OBVIOUS
  <2>2. /\ n + 1 \in 0..m /\ n + 1 \in 0..k /\ n + 1 # 0 /\ (n + 1) - 1 = n
        /\ f[n] = g[n] /\ s[n + 1] = t[n + 1]
    BY <2>1
  <2>3. f[n + 1] = (IF s[n + 1].w = 0 THEN f[n] ELSE f[n] + ExprErrors(s[n + 1].e, stray) + CountIf(TooWide(Field(s[n + 1], stray))))
    <3>1. f[n + 1] = IF n + 1 = 0 THEN more ELSE (IF s[n + 1].w = 0 THEN f[(n + 1) - 1] ELSE f[(n + 1) - 1] + ExprErrors(s[n + 1].e, stray) + CountIf(TooWide(Field(s[n + 1], stray))))
      BY <2>2, Zenon DEF ErrTo
    <3> QED BY <2>2, <3>1, Zenon
  <2>4. g[n + 1] = (IF t[n + 1].w = 0 THEN g[n] ELSE g[n] + ExprErrors(t[n + 1].e, stray) + CountIf(TooWide(Field(t[n + 1], stray))))
    <3>1. g[n + 1] = IF n + 1 = 0 THEN more ELSE (IF t[n + 1].w = 0 THEN g[(n + 1) - 1] ELSE g[(n + 1) - 1] + ExprErrors(t[n + 1].e, stray) + CountIf(TooWide(Field(t[n + 1], stray))))
      BY <2>2, Zenon DEF ErrTo
    <3> QED BY <2>2, <3>1, Zenon
  <2> QED BY <2>2, <2>3, <2>4, Zenon
<1> HIDE DEF P
<1>3. Nat \subseteq P
  BY <1>1, <1>2, Induct
<1> QED BY <1>3 DEF P

LEMMA ErrIs ==
  ASSUME NEW stray, NEW more, NEW s, Len(s) \in Nat, NEW f, ErrTo(s, f, Len(s), stray, more)
  PROVE  ItemErrors(s, stray, more) = f[Len(s)]
<1>1. PICK g : ErrTo(s, g, Len(s), stray, more) /\ ItemErrors(s, stray, more) = g[Len(s)]
  BY Zenon DEF ItemErrors, Through, ErrTo
<1>2. g[Len(s)] = f[Len(s)]
  BY <1>1, ErrUnique
<1> QED BY <1>1, <1>2

LEMMA ErrNone == ASSUME NEW stray, NEW more, NEW s, Len(s) = 0 PROVE ItemErrors(s, stray, more) = more
<1>1. PICK f : ErrTo(s, f, Len(s), stray, more)
  BY ErrExists
<1>2. ItemErrors(s, stray, more) = f[Len(s)]
  BY <1>1, ErrIs
<1>3. f[0] = more
  BY <1>1 DEF ErrTo
<1> QED BY <1>2, <1>3

LEMMA ErrOne ==
  ASSUME NEW stray, NEW more, NEW s, NEW t, Len(s) \in Nat, Len(t) = Len(s) + 1, \A i \in 1..Len(s) : s[i] = t[i]
  PROVE  ItemErrors(t, stray, more) = (IF t[Len(s) + 1].w = 0 THEN ItemErrors(s, stray, more) ELSE ItemErrors(s, stray, more) + ExprErrors(t[Len(s) + 1].e, stray) + CountIf(TooWide(Field(t[Len(s) + 1], stray))))
<1>1. PICK f : ErrTo(s, f, Len(s), stray, more)
  BY ErrExists
<1>2. PICK g : ErrTo(t, g, Len(s) + 1, stray, more)
  BY ErrExists
<1>3. ItemErrors(s, stray, more) = f[Len(s)] /\ ItemErrors(t, stray, more) = g[Len(s) + 1]
  BY <1>1, <1>2, ErrIs
<1>4. f[Len(s)] = g[Len(s)]
  BY <1>1, <1>2, ErrUnique
<1>5. Len(s) + 1 \in 0..(Len(s) + 1) /\ Len(s) + 1 # 0 /\ (Len(s) + 1) - 1 = Len(s)
  OBVIOUS
<1>6. g[Len(s) + 1] = (IF t[Len(s) + 1].w = 0 THEN g[Len(s)] ELSE g[Len(s)] + ExprErrors(t[Len(s) + 1].e, stray) + CountIf(TooWide(Field(t[Len(s) + 1], stray))))
  <2>1. g[Len(s) + 1] = IF Len(s) + 1 = 0 THEN more
                        ELSE (IF t[Len(s) + 1].w = 0 THEN g[(Len(s) + 1) - 1] ELSE g[(Len(s) + 1) - 1] + ExprErrors(t[Len(s) + 1].e, stray) + CountIf(TooWide(Field(t[Len(s) + 1], stray))))
    BY <1>2, <1>5, Zenon DEF ErrTo
  <2> QED BY <1>5, <2>1, Zenon
<1> QED BY <1>3, <1>4, <1>6, Zenon

\* the same for Skip
SkipTo(s, f, m) == f = [n \in 0..m |-> IF n = 0 THEN [nest |-> 1, at |-> ip, n |-> 0] ELSE PastStatement(f[n - 1], s[n])]

LEMMA SkipExists == ASSUME NEW s PROVE \A m \in Nat : \E f : SkipTo(s, f, m)
<1> DEFINE P == {m \in Nat : \E f : SkipTo(s, f, m)}
<1>1. 0 \in P
  <2> DEFINE f == [n \in 0..0 |-> [nest |-> 1, at |-> ip, n |-> 0]]
  <2>1. SkipTo(s, f, 0)
    BY DEF SkipTo
  <2> QED BY <2>1
<1>2. ASSUME NEW m \in P PROVE m + 1 \in P
  <2>1. PICK f : SkipTo(s, f, m)
    OBVIOUS
  <2> DEFINE g == [n \in 0..(m + 1) |-> IF n <= m THEN f[n] ELSE PastStatement(f[m], s[m + 1])]
  <2>2. ASSUME NEW n \in 0..(m + 1)
        PROVE  g[n] = IF n = 0 THEN [nest |-> 1, at |-> ip, n |-> 0] ELSE PastStatement(g[n - 1], s[n])
    <3>1. CASE n = 0
      BY <2>1, <3>1 DEF SkipTo
    <3>2. CASE n \in 1..m
      <4>1. n \in 0..m /\ n - 1 \in 0..m /\ n # 0
        BY <3>2
      <4>2. g[n] = f[n] /\ g[n - 1] = f[n - 1]
        BY <4>1
      <4>3. f[n] = PastStatement(f[n - 1], s[n])
        <5> HIDE DEF g
        <5> QED BY <2>1, <4>1 DEF SkipTo
      <4> QED BY <4>1, <4>2, <4>3, Zenon
    <3>3. CASE n = m + 1
      <4>1. m \in Nat /\ n \notin 0..m /\ n - 1 = m /\ m \in 0..(m + 1) /\ n # 0 /\ m \in 0..m
        BY <3>3
      <4>2. g[n] = PastStatement(f[m], s[m + 1]) /\ g[m] = f[m]
        BY <4>1, <3>3
      <4> QED BY <4>1, <4>2, <3>3, Zenon
    <3> QED BY <3>1, <3>2, <3>3
  <2>3. SkipTo(s, g, m + 1)
    <3>1. g = [n \in 0..(m + 1) |-> g[n]]
      OBVIOUS
    <3> HIDE DEF g
    <3>2. [n \in 0..(m + 1) |-> g[n]]
            = [n \in 0..(m + 1) |-> IF n = 0 THEN [nest |-> 1, at |-> ip, n |-> 0] ELSE PastStatement(g[n - 1], s[n])]
      BY <2>2, Zenon
    <3> QED BY <3>1, <3>2, Zenon DEF SkipTo
  <2> QED BY <2>3
<1> HIDE DEF P
<1>3. Nat \subseteq P
  BY <1>1, <1>2, Induct
<1> QED BY <1>3 DEF P

\* Sequences that agree so far are counted through alike.
LEMMA SkipUnique ==
  ASSUME NEW s, NEW t, NEW f, NEW g, NEW m \in Nat, NEW k \in Nat, m <= k,
         SkipTo(s, f, m), SkipTo(t, g, k), \A i \in 1..m : s[i] = t[i]
  PROVE  \A n \in 0..m : f[n] = g[n]
<1> DEFINE P == {n \in Nat : n <= m => f[n] = g[n]}
<1>1. 0 \in P
  BY DEF SkipTo
<1>2. ASSUME NEW n \in P PROVE n + 1 \in P
  <2>1. SUFFICES ASSUME n + 1 <= m PROVE f[n + 1] = g[n + 1]
    OBVIOUS
  <2>2. /\ n + 1 \in 0..m /\ n + 1 \in 0..k /\ n + 1 # 0 /\ (n + 1) - 1 = n
        /\ f[n] = g[n] /\ s[n + 1] = t[n + 1]
    BY <2>1
  <2>3. f[n + 1] = PastStatement(f[n], s[n + 1])
    <3>1. f[n + 1] = IF n + 1 = 0 THEN [nest |-> 1, at |-> ip, n |-> 0] ELSE PastStatement(f[(n + 1) - 1], s[n + 1])
      BY <2>2, Zenon DEF SkipTo
    <3> QED BY <2>2, <3>1, Zenon
  <2>4. g[n + 1] = PastStatement(g[n], t[n + 1])
    <3>1. g[n + 1] = IF n + 1 = 0 THEN [nest |-> 1, at |-> ip, n |-> 0] ELSE PastStatement(g[(n + 1) - 1], t[n + 1])
      BY <2>2, Zenon DEF SkipTo
    <3> QED BY <2>2, <3>1, Zenon
  <2> QED BY <2>2, <2>3, <2>4, Zenon
<1> HIDE DEF P
<1>3. Nat \subseteq P
  BY <1>1, <1>2, Induct
<1> QED BY <1>3 DEF P

LEMMA SkipIs ==
  ASSUME NEW s, Len(s) \in Nat, NEW f, SkipTo(s, f, Len(s))
  PROVE  Skip(s) = f[Len(s)]
<1>1. PICK g : SkipTo(s, g, Len(s)) /\ Skip(s) = g[Len(s)]
  BY Zenon DEF Skip, Through, SkipTo
<1>2. g[Len(s)] = f[Len(s)]
  BY <1>1, SkipUnique
<1> QED BY <1>1, <1>2

LEMMA SkipNone == ASSUME NEW s, Len(s) = 0 PROVE Skip(s) = [nest |-> 1, at |-> ip, n |-> 0]
<1>1. PICK f : SkipTo(s, f, Len(s))
  BY SkipExists
<1>2. Skip(s) = f[Len(s)]
  BY <1>1, SkipIs
<1>3. f[0] = [nest |-> 1, at |-> ip, n |-> 0]
  BY <1>1 DEF SkipTo
<1> QED BY <1>2, <1>3

LEMMA SkipOne ==
  ASSUME NEW s, NEW t, Len(s) \in Nat, Len(t) = Len(s) + 1, \A i \in 1..Len(s) : s[i] = t[i]
  PROVE  Skip(t) = PastStatement(Skip(s), t[Len(s) + 1])
<1>1. PICK f : SkipTo(s, f, Len(s))
  BY SkipExists
<1>2. PICK g : SkipTo(t, g, Len(s) + 1)
  BY SkipExists
<1>3. Skip(s) = f[Len(s)] /\ Skip(t) = g[Len(s) + 1]
  BY <1>1, <1>2, SkipIs
<1>4. f[Len(s)] = g[Len(s)]
  BY <1>1, <1>2, SkipUnique
<1>5. Len(s) + 1 \in 0..(Len(s) + 1) /\ Len(s) + 1 # 0 /\ (Len(s) + 1) - 1 = Len(s)
  OBVIOUS
<1>6. g[Len(s) + 1] = PastStatement(g[Len(s)], t[Len(s) + 1])
  <2>1. g[Len(s) + 1] = IF Len(s) + 1 = 0 THEN [nest |-> 1, at |-> ip, n |-> 0]
                        ELSE PastStatement(g[(Len(s) + 1) - 1], t[Len(s) + 1])
    BY <1>2, <1>5, Zenon DEF SkipTo
  <2> QED BY <1>5, <2>1, Zenon
<1> QED BY <1>3, <1>4, <1>6, Zenon

\* the same for CellsOf
WithCells(c, f, p, at) == c \o Cells(f, p, at + Len(c))
CellTo(s, f, m, p, at) == f = [n \in 0..m |-> IF n = 0 THEN <<>> ELSE WithCells(f[n - 1], s[n], p, at)]

LEMMA CellExists == ASSUME NEW p, NEW at, NEW s PROVE \A m \in Nat : \E f : CellTo(s, f, m, p, at)
<1> DEFINE P == {m \in Nat : \E f : CellTo(s, f, m, p, at)}
<1>1. 0 \in P
  <2> DEFINE f == [n \in 0..0 |-> <<>>]
  <2>1. CellTo(s, f, 0, p, at)
    BY DEF CellTo
  <2> QED BY <2>1
<1>2. ASSUME NEW m \in P PROVE m + 1 \in P
  <2>1. PICK f : CellTo(s, f, m, p, at)
    OBVIOUS
  <2> DEFINE g == [n \in 0..(m + 1) |-> IF n <= m THEN f[n] ELSE WithCells(f[m], s[m + 1], p, at)]
  <2>2. ASSUME NEW n \in 0..(m + 1)
        PROVE  g[n] = IF n = 0 THEN <<>> ELSE WithCells(g[n - 1], s[n], p, at)
    <3>1. CASE n = 0
      BY <2>1, <3>1 DEF CellTo
    <3>2. CASE n \in 1..m
      <4>1. n \in 0..m /\ n - 1 \in 0..m /\ n # 0
        BY <3>2
      <4>2. g[n] = f[n] /\ g[n - 1] = f[n - 1]
        BY <4>1
      <4>3. f[n] = WithCells(f[n - 1], s[n], p, at)
        <5> HIDE DEF g
        <5> QED BY <2>1, <4>1 DEF CellTo
      <4> QED BY <4>1, <4>2, <4>3, Zenon
    <3>3. CASE n = m + 1
      <4>1. m \in Nat /\ n \notin 0..m /\ n - 1 = m /\ m \in 0..(m + 1) /\ n # 0 /\ m \in 0..m
        BY <3>3
      <4>2. g[n] = WithCells(f[m], s[m + 1], p, at) /\ g[m] = f[m]
        BY <4>1, <3>3
      <4> QED BY <4>1, <4>2, <3>3, Zenon
    <3> QED BY <3>1, <3>2, <3>3
  <2>3. CellTo(s, g, m + 1, p, at)
    <3>1. g = [n \in 0..(m + 1) |-> g[n]]
      OBVIOUS
    <3> HIDE DEF g
    <3>2. [n \in 0..(m + 1) |-> g[n]]
            = [n \in 0..(m + 1) |-> IF n = 0 THEN <<>> ELSE WithCells(g[n - 1], s[n], p, at)]
      BY <2>2, Zenon
    <3> QED BY <3>1, <3>2, Zenon DEF CellTo
  <2> QED BY <2>3
<1> HIDE DEF P
<1>3. Nat \subseteq P
  BY <1>1, <1>2, Induct
<1> QED BY <1>3 DEF P

\* Sequences that agree so far are counted through alike.
LEMMA CellUnique ==
  ASSUME NEW p, NEW at, NEW s, NEW t, NEW f, NEW g, NEW m \in Nat, NEW k \in Nat, m <= k,
         CellTo(s, f, m, p, at), CellTo(t, g, k, p, at), \A i \in 1..m : s[i] = t[i]
  PROVE  \A n \in 0..m : f[n] = g[n]
<1> DEFINE P == {n \in Nat : n <= m => f[n] = g[n]}
<1>1. 0 \in P
  BY DEF CellTo
<1>2. ASSUME NEW n \in P PROVE n + 1 \in P
  <2>1. SUFFICES ASSUME n + 1 <= m PROVE f[n + 1] = g[n + 1]
    OBVIOUS
  <2>2. /\ n + 1 \in 0..m /\ n + 1 \in 0..k /\ n + 1 # 0 /\ (n + 1) - 1 = n
        /\ f[n] = g[n] /\ s[n + 1] = t[n + 1]
    BY <2>1
  <2>3. f[n + 1] = WithCells(f[n], s[n + 1], p, at)
    <3>1. f[n + 1] = IF n + 1 = 0 THEN <<>> ELSE WithCells(f[(n + 1) - 1], s[n + 1], p, at)
      BY <2>2, Zenon DEF CellTo
    <3> QED BY <2>2, <3>1, Zenon
  <2>4. g[n + 1] = WithCells(g[n], t[n + 1], p, at)
    <3>1. g[n + 1] = IF n + 1 = 0 THEN <<>> ELSE WithCells(g[(n + 1) - 1], t[n + 1], p, at)
      BY <2>2, Zenon DEF CellTo
    <3> QED BY <2>2, <3>1, Zenon
  <2> QED BY <2>2, <2>3, <2>4, Zenon
<1> HIDE DEF P
<1>3. Nat \subseteq P
  BY <1>1, <1>2, Induct
<1> QED BY <1>3 DEF P

LEMMA CellIs ==
  ASSUME NEW p, NEW at, NEW s, Len(s) \in Nat, NEW f, CellTo(s, f, Len(s), p, at)
  PROVE  CellsOf(p, at, s) = f[Len(s)]
<1>1. PICK g : CellTo(s, g, Len(s), p, at) /\ CellsOf(p, at, s) = g[Len(s)]
  BY Zenon DEF CellsOf, Through, CellTo, WithCells
<1>2. g[Len(s)] = f[Len(s)]
  BY <1>1, CellUnique
<1> QED BY <1>1, <1>2

LEMMA CellNone == ASSUME NEW p, NEW at, NEW s, Len(s) = 0 PROVE CellsOf(p, at, s) = <<>>
<1>1. PICK f : CellTo(s, f, Len(s), p, at)
  BY CellExists
<1>2. CellsOf(p, at, s) = f[Len(s)]
  BY <1>1, CellIs
<1>3. f[0] = <<>>
  BY <1>1 DEF CellTo
<1> QED BY <1>2, <1>3

LEMMA CellOne ==
  ASSUME NEW p, NEW at, NEW s, NEW t, Len(s) \in Nat, Len(t) = Len(s) + 1, \A i \in 1..Len(s) : s[i] = t[i]
  PROVE  CellsOf(p, at, t) = WithCells(CellsOf(p, at, s), t[Len(s) + 1], p, at)
<1>1. PICK f : CellTo(s, f, Len(s), p, at)
  BY CellExists
<1>2. PICK g : CellTo(t, g, Len(s) + 1, p, at)
  BY CellExists
<1>3. CellsOf(p, at, s) = f[Len(s)] /\ CellsOf(p, at, t) = g[Len(s) + 1]
  BY <1>1, <1>2, CellIs
<1>4. f[Len(s)] = g[Len(s)]
  BY <1>1, <1>2, CellUnique
<1>5. Len(s) + 1 \in 0..(Len(s) + 1) /\ Len(s) + 1 # 0 /\ (Len(s) + 1) - 1 = Len(s)
  OBVIOUS
<1>6. g[Len(s) + 1] = WithCells(g[Len(s)], t[Len(s) + 1], p, at)
  <2>1. g[Len(s) + 1] = IF Len(s) + 1 = 0 THEN <<>>
                        ELSE WithCells(g[(Len(s) + 1) - 1], t[Len(s) + 1], p, at)
    BY <1>2, <1>5, Zenon DEF CellTo
  <2> QED BY <1>5, <2>1, Zenon
<1> QED BY <1>3, <1>4, <1>6, Zenon

\* the same for CellsIn
WithVisit(c, r) == c \o CellsOf(r.psect, r.at, r.fields)
SeenTo(s, f, m) == f = [n \in 0..m |-> IF n = 0 THEN <<>> ELSE WithVisit(f[n - 1], s[n])]

LEMMA SeenExists == ASSUME NEW s PROVE \A m \in Nat : \E f : SeenTo(s, f, m)
<1> DEFINE P == {m \in Nat : \E f : SeenTo(s, f, m)}
<1>1. 0 \in P
  <2> DEFINE f == [n \in 0..0 |-> <<>>]
  <2>1. SeenTo(s, f, 0)
    BY DEF SeenTo
  <2> QED BY <2>1
<1>2. ASSUME NEW m \in P PROVE m + 1 \in P
  <2>1. PICK f : SeenTo(s, f, m)
    OBVIOUS
  <2> DEFINE g == [n \in 0..(m + 1) |-> IF n <= m THEN f[n] ELSE WithVisit(f[m], s[m + 1])]
  <2>2. ASSUME NEW n \in 0..(m + 1)
        PROVE  g[n] = IF n = 0 THEN <<>> ELSE WithVisit(g[n - 1], s[n])
    <3>1. CASE n = 0
      BY <2>1, <3>1 DEF SeenTo
    <3>2. CASE n \in 1..m
      <4>1. n \in 0..m /\ n - 1 \in 0..m /\ n # 0
        BY <3>2
      <4>2. g[n] = f[n] /\ g[n - 1] = f[n - 1]
        BY <4>1
      <4>3. f[n] = WithVisit(f[n - 1], s[n])
        <5> HIDE DEF g
        <5> QED BY <2>1, <4>1 DEF SeenTo
      <4> QED BY <4>1, <4>2, <4>3, Zenon
    <3>3. CASE n = m + 1
      <4>1. m \in Nat /\ n \notin 0..m /\ n - 1 = m /\ m \in 0..(m + 1) /\ n # 0 /\ m \in 0..m
        BY <3>3
      <4>2. g[n] = WithVisit(f[m], s[m + 1]) /\ g[m] = f[m]
        BY <4>1, <3>3
      <4> QED BY <4>1, <4>2, <3>3, Zenon
    <3> QED BY <3>1, <3>2, <3>3
  <2>3. SeenTo(s, g, m + 1)
    <3>1. g = [n \in 0..(m + 1) |-> g[n]]
      OBVIOUS
    <3> HIDE DEF g
    <3>2. [n \in 0..(m + 1) |-> g[n]]
            = [n \in 0..(m + 1) |-> IF n = 0 THEN <<>> ELSE WithVisit(g[n - 1], s[n])]
      BY <2>2, Zenon
    <3> QED BY <3>1, <3>2, Zenon DEF SeenTo
  <2> QED BY <2>3
<1> HIDE DEF P
<1>3. Nat \subseteq P
  BY <1>1, <1>2, Induct
<1> QED BY <1>3 DEF P

\* Sequences that agree so far are counted through alike.
LEMMA SeenUnique ==
  ASSUME NEW s, NEW t, NEW f, NEW g, NEW m \in Nat, NEW k \in Nat, m <= k,
         SeenTo(s, f, m), SeenTo(t, g, k), \A i \in 1..m : s[i] = t[i]
  PROVE  \A n \in 0..m : f[n] = g[n]
<1> DEFINE P == {n \in Nat : n <= m => f[n] = g[n]}
<1>1. 0 \in P
  BY DEF SeenTo
<1>2. ASSUME NEW n \in P PROVE n + 1 \in P
  <2>1. SUFFICES ASSUME n + 1 <= m PROVE f[n + 1] = g[n + 1]
    OBVIOUS
  <2>2. /\ n + 1 \in 0..m /\ n + 1 \in 0..k /\ n + 1 # 0 /\ (n + 1) - 1 = n
        /\ f[n] = g[n] /\ s[n + 1] = t[n + 1]
    BY <2>1
  <2>3. f[n + 1] = WithVisit(f[n], s[n + 1])
    <3>1. f[n + 1] = IF n + 1 = 0 THEN <<>> ELSE WithVisit(f[(n + 1) - 1], s[n + 1])
      BY <2>2, Zenon DEF SeenTo
    <3> QED BY <2>2, <3>1, Zenon
  <2>4. g[n + 1] = WithVisit(g[n], t[n + 1])
    <3>1. g[n + 1] = IF n + 1 = 0 THEN <<>> ELSE WithVisit(g[(n + 1) - 1], t[n + 1])
      BY <2>2, Zenon DEF SeenTo
    <3> QED BY <2>2, <3>1, Zenon
  <2> QED BY <2>2, <2>3, <2>4, Zenon
<1> HIDE DEF P
<1>3. Nat \subseteq P
  BY <1>1, <1>2, Induct
<1> QED BY <1>3 DEF P

LEMMA SeenIs ==
  ASSUME NEW s, Len(s) \in Nat, NEW f, SeenTo(s, f, Len(s))
  PROVE  CellsIn(s) = f[Len(s)]
<1>1. PICK g : SeenTo(s, g, Len(s)) /\ CellsIn(s) = g[Len(s)]
  BY Zenon DEF CellsIn, Through, SeenTo, WithVisit
<1>2. g[Len(s)] = f[Len(s)]
  BY <1>1, SeenUnique
<1> QED BY <1>1, <1>2

LEMMA SeenNone == ASSUME NEW s, Len(s) = 0 PROVE CellsIn(s) = <<>>
<1>1. PICK f : SeenTo(s, f, Len(s))
  BY SeenExists
<1>2. CellsIn(s) = f[Len(s)]
  BY <1>1, SeenIs
<1>3. f[0] = <<>>
  BY <1>1 DEF SeenTo
<1> QED BY <1>2, <1>3

LEMMA SeenOne ==
  ASSUME NEW s, NEW t, Len(s) \in Nat, Len(t) = Len(s) + 1, \A i \in 1..Len(s) : s[i] = t[i]
  PROVE  CellsIn(t) = WithVisit(CellsIn(s), t[Len(s) + 1])
<1>1. PICK f : SeenTo(s, f, Len(s))
  BY SeenExists
<1>2. PICK g : SeenTo(t, g, Len(s) + 1)
  BY SeenExists
<1>3. CellsIn(s) = f[Len(s)] /\ CellsIn(t) = g[Len(s) + 1]
  BY <1>1, <1>2, SeenIs
<1>4. f[Len(s)] = g[Len(s)]
  BY <1>1, <1>2, SeenUnique
<1>5. Len(s) + 1 \in 0..(Len(s) + 1) /\ Len(s) + 1 # 0 /\ (Len(s) + 1) - 1 = Len(s)
  OBVIOUS
<1>6. g[Len(s) + 1] = WithVisit(g[Len(s)], t[Len(s) + 1])
  <2>1. g[Len(s) + 1] = IF Len(s) + 1 = 0 THEN <<>>
                        ELSE WithVisit(g[(Len(s) + 1) - 1], t[Len(s) + 1])
    BY <1>2, <1>5, Zenon DEF SeenTo
  <2> QED BY <1>5, <2>1, Zenon
<1> QED BY <1>3, <1>4, <1>6, Zenon

\* the same for Relocated
PutTo(s, f, m, acc) == f = [n \in 0..m |-> IF n = 0 THEN acc ELSE PutReloc(f[n - 1], s[n])]

LEMMA PutExists == ASSUME NEW acc, NEW s PROVE \A m \in Nat : \E f : PutTo(s, f, m, acc)
<1> DEFINE P == {m \in Nat : \E f : PutTo(s, f, m, acc)}
<1>1. 0 \in P
  <2> DEFINE f == [n \in 0..0 |-> acc]
  <2>1. PutTo(s, f, 0, acc)
    BY DEF PutTo
  <2> QED BY <2>1
<1>2. ASSUME NEW m \in P PROVE m + 1 \in P
  <2>1. PICK f : PutTo(s, f, m, acc)
    OBVIOUS
  <2> DEFINE g == [n \in 0..(m + 1) |-> IF n <= m THEN f[n] ELSE PutReloc(f[m], s[m + 1])]
  <2>2. ASSUME NEW n \in 0..(m + 1)
        PROVE  g[n] = IF n = 0 THEN acc ELSE PutReloc(g[n - 1], s[n])
    <3>1. CASE n = 0
      BY <2>1, <3>1 DEF PutTo
    <3>2. CASE n \in 1..m
      <4>1. n \in 0..m /\ n - 1 \in 0..m /\ n # 0
        BY <3>2
      <4>2. g[n] = f[n] /\ g[n - 1] = f[n - 1]
        BY <4>1
      <4>3. f[n] = PutReloc(f[n - 1], s[n])
        <5> HIDE DEF g
        <5> QED BY <2>1, <4>1 DEF PutTo
      <4> QED BY <4>1, <4>2, <4>3, Zenon
    <3>3. CASE n = m + 1
      <4>1. m \in Nat /\ n \notin 0..m /\ n - 1 = m /\ m \in 0..(m + 1) /\ n # 0 /\ m \in 0..m
        BY <3>3
      <4>2. g[n] = PutReloc(f[m], s[m + 1]) /\ g[m] = f[m]
        BY <4>1, <3>3
      <4> QED BY <4>1, <4>2, <3>3, Zenon
    <3> QED BY <3>1, <3>2, <3>3
  <2>3. PutTo(s, g, m + 1, acc)
    <3>1. g = [n \in 0..(m + 1) |-> g[n]]
      OBVIOUS
    <3> HIDE DEF g
    <3>2. [n \in 0..(m + 1) |-> g[n]]
            = [n \in 0..(m + 1) |-> IF n = 0 THEN acc ELSE PutReloc(g[n - 1], s[n])]
      BY <2>2, Zenon
    <3> QED BY <3>1, <3>2, Zenon DEF PutTo
  <2> QED BY <2>3
<1> HIDE DEF P
<1>3. Nat \subseteq P
  BY <1>1, <1>2, Induct
<1> QED BY <1>3 DEF P

\* Sequences that agree so far are counted through alike.
LEMMA PutUnique ==
  ASSUME NEW acc, NEW s, NEW t, NEW f, NEW g, NEW m \in Nat, NEW k \in Nat, m <= k,
         PutTo(s, f, m, acc), PutTo(t, g, k, acc), \A i \in 1..m : s[i] = t[i]
  PROVE  \A n \in 0..m : f[n] = g[n]
<1> DEFINE P == {n \in Nat : n <= m => f[n] = g[n]}
<1>1. 0 \in P
  BY DEF PutTo
<1>2. ASSUME NEW n \in P PROVE n + 1 \in P
  <2>1. SUFFICES ASSUME n + 1 <= m PROVE f[n + 1] = g[n + 1]
    OBVIOUS
  <2>2. /\ n + 1 \in 0..m /\ n + 1 \in 0..k /\ n + 1 # 0 /\ (n + 1) - 1 = n
        /\ f[n] = g[n] /\ s[n + 1] = t[n + 1]
    BY <2>1
  <2>3. f[n + 1] = PutReloc(f[n], s[n + 1])
    <3>1. f[n + 1] = IF n + 1 = 0 THEN acc ELSE PutReloc(f[(n + 1) - 1], s[n + 1])
      BY <2>2, Zenon DEF PutTo
    <3> QED BY <2>2, <3>1, Zenon
  <2>4. g[n + 1] = PutReloc(g[n], t[n + 1])
    <3>1. g[n + 1] = IF n + 1 = 0 THEN acc ELSE PutReloc(g[(n + 1) - 1], t[n + 1])
      BY <2>2, Zenon DEF PutTo
    <3> QED BY <2>2, <3>1, Zenon
  <2> QED BY <2>2, <2>3, <2>4, Zenon
<1> HIDE DEF P
<1>3. Nat \subseteq P
  BY <1>1, <1>2, Induct
<1> QED BY <1>3 DEF P

LEMMA PutIs ==
  ASSUME NEW acc, NEW s, Len(s) \in Nat, NEW f, PutTo(s, f, Len(s), acc)
  PROVE  Relocated(acc, s) = f[Len(s)]
<1>1. PICK g : PutTo(s, g, Len(s), acc) /\ Relocated(acc, s) = g[Len(s)]
  BY Zenon DEF Relocated, Through, PutTo
<1>2. g[Len(s)] = f[Len(s)]
  BY <1>1, PutUnique
<1> QED BY <1>1, <1>2

LEMMA PutNone == ASSUME NEW acc, NEW s, Len(s) = 0 PROVE Relocated(acc, s) = acc
<1>1. PICK f : PutTo(s, f, Len(s), acc)
  BY PutExists
<1>2. Relocated(acc, s) = f[Len(s)]
  BY <1>1, PutIs
<1>3. f[0] = acc
  BY <1>1 DEF PutTo
<1> QED BY <1>2, <1>3

LEMMA PutOne ==
  ASSUME NEW acc, NEW s, NEW t, Len(s) \in Nat, Len(t) = Len(s) + 1, \A i \in 1..Len(s) : s[i] = t[i]
  PROVE  Relocated(acc, t) = PutReloc(Relocated(acc, s), t[Len(s) + 1])
<1>1. PICK f : PutTo(s, f, Len(s), acc)
  BY PutExists
<1>2. PICK g : PutTo(t, g, Len(s) + 1, acc)
  BY PutExists
<1>3. Relocated(acc, s) = f[Len(s)] /\ Relocated(acc, t) = g[Len(s) + 1]
  BY <1>1, <1>2, PutIs
<1>4. f[Len(s)] = g[Len(s)]
  BY <1>1, <1>2, PutUnique
<1>5. Len(s) + 1 \in 0..(Len(s) + 1) /\ Len(s) + 1 # 0 /\ (Len(s) + 1) - 1 = Len(s)
  OBVIOUS
<1>6. g[Len(s) + 1] = PutReloc(g[Len(s)], t[Len(s) + 1])
  <2>1. g[Len(s) + 1] = IF Len(s) + 1 = 0 THEN acc
                        ELSE PutReloc(g[(Len(s) + 1) - 1], t[Len(s) + 1])
    BY <1>2, <1>5, Zenon DEF PutTo
  <2> QED BY <1>5, <2>1, Zenon
<1> QED BY <1>3, <1>4, <1>6, Zenon

\* the same for ReadAll
ReadTo(s, f, m) == f = [n \in 0..m |-> IF n = 0 THEN [base |-> 0, cells |-> <<>>] ELSE ReadRecord(f[n - 1], s[n])]

LEMMA ReadExists == ASSUME NEW s PROVE \A m \in Nat : \E f : ReadTo(s, f, m)
<1> DEFINE P == {m \in Nat : \E f : ReadTo(s, f, m)}
<1>1. 0 \in P
  <2> DEFINE f == [n \in 0..0 |-> [base |-> 0, cells |-> <<>>]]
  <2>1. ReadTo(s, f, 0)
    BY DEF ReadTo
  <2> QED BY <2>1
<1>2. ASSUME NEW m \in P PROVE m + 1 \in P
  <2>1. PICK f : ReadTo(s, f, m)
    OBVIOUS
  <2> DEFINE g == [n \in 0..(m + 1) |-> IF n <= m THEN f[n] ELSE ReadRecord(f[m], s[m + 1])]
  <2>2. ASSUME NEW n \in 0..(m + 1)
        PROVE  g[n] = IF n = 0 THEN [base |-> 0, cells |-> <<>>] ELSE ReadRecord(g[n - 1], s[n])
    <3>1. CASE n = 0
      BY <2>1, <3>1 DEF ReadTo
    <3>2. CASE n \in 1..m
      <4>1. n \in 0..m /\ n - 1 \in 0..m /\ n # 0
        BY <3>2
      <4>2. g[n] = f[n] /\ g[n - 1] = f[n - 1]
        BY <4>1
      <4>3. f[n] = ReadRecord(f[n - 1], s[n])
        <5> HIDE DEF g
        <5> QED BY <2>1, <4>1 DEF ReadTo
      <4> QED BY <4>1, <4>2, <4>3, Zenon
    <3>3. CASE n = m + 1
      <4>1. m \in Nat /\ n \notin 0..m /\ n - 1 = m /\ m \in 0..(m + 1) /\ n # 0 /\ m \in 0..m
        BY <3>3
      <4>2. g[n] = ReadRecord(f[m], s[m + 1]) /\ g[m] = f[m]
        BY <4>1, <3>3
      <4> QED BY <4>1, <4>2, <3>3, Zenon
    <3> QED BY <3>1, <3>2, <3>3
  <2>3. ReadTo(s, g, m + 1)
    <3>1. g = [n \in 0..(m + 1) |-> g[n]]
      OBVIOUS
    <3> HIDE DEF g
    <3>2. [n \in 0..(m + 1) |-> g[n]]
            = [n \in 0..(m + 1) |-> IF n = 0 THEN [base |-> 0, cells |-> <<>>] ELSE ReadRecord(g[n - 1], s[n])]
      BY <2>2, Zenon
    <3> QED BY <3>1, <3>2, Zenon DEF ReadTo
  <2> QED BY <2>3
<1> HIDE DEF P
<1>3. Nat \subseteq P
  BY <1>1, <1>2, Induct
<1> QED BY <1>3 DEF P

\* Sequences that agree so far are counted through alike.
LEMMA ReadUnique ==
  ASSUME NEW s, NEW t, NEW f, NEW g, NEW m \in Nat, NEW k \in Nat, m <= k,
         ReadTo(s, f, m), ReadTo(t, g, k), \A i \in 1..m : s[i] = t[i]
  PROVE  \A n \in 0..m : f[n] = g[n]
<1> DEFINE P == {n \in Nat : n <= m => f[n] = g[n]}
<1>1. 0 \in P
  BY DEF ReadTo
<1>2. ASSUME NEW n \in P PROVE n + 1 \in P
  <2>1. SUFFICES ASSUME n + 1 <= m PROVE f[n + 1] = g[n + 1]
    OBVIOUS
  <2>2. /\ n + 1 \in 0..m /\ n + 1 \in 0..k /\ n + 1 # 0 /\ (n + 1) - 1 = n
        /\ f[n] = g[n] /\ s[n + 1] = t[n + 1]
    BY <2>1
  <2>3. f[n + 1] = ReadRecord(f[n], s[n + 1])
    <3>1. f[n + 1] = IF n + 1 = 0 THEN [base |-> 0, cells |-> <<>>] ELSE ReadRecord(f[(n + 1) - 1], s[n + 1])
      BY <2>2, Zenon DEF ReadTo
    <3> QED BY <2>2, <3>1, Zenon
  <2>4. g[n + 1] = ReadRecord(g[n], t[n + 1])
    <3>1. g[n + 1] = IF n + 1 = 0 THEN [base |-> 0, cells |-> <<>>] ELSE ReadRecord(g[(n + 1) - 1], t[n + 1])
      BY <2>2, Zenon DEF ReadTo
    <3> QED BY <2>2, <3>1, Zenon
  <2> QED BY <2>2, <2>3, <2>4, Zenon
<1> HIDE DEF P
<1>3. Nat \subseteq P
  BY <1>1, <1>2, Induct
<1> QED BY <1>3 DEF P

LEMMA ReadIs ==
  ASSUME NEW s, Len(s) \in Nat, NEW f, ReadTo(s, f, Len(s))
  PROVE  ReadAll(s) = f[Len(s)]
<1>1. PICK g : ReadTo(s, g, Len(s)) /\ ReadAll(s) = g[Len(s)]
  BY Zenon DEF ReadAll, Through, ReadTo
<1>2. g[Len(s)] = f[Len(s)]
  BY <1>1, ReadUnique
<1> QED BY <1>1, <1>2

LEMMA ReadNone == ASSUME NEW s, Len(s) = 0 PROVE ReadAll(s) = [base |-> 0, cells |-> <<>>]
<1>1. PICK f : ReadTo(s, f, Len(s))
  BY ReadExists
<1>2. ReadAll(s) = f[Len(s)]
  BY <1>1, ReadIs
<1>3. f[0] = [base |-> 0, cells |-> <<>>]
  BY <1>1 DEF ReadTo
<1> QED BY <1>2, <1>3

LEMMA ReadOne ==
  ASSUME NEW s, NEW t, Len(s) \in Nat, Len(t) = Len(s) + 1, \A i \in 1..Len(s) : s[i] = t[i]
  PROVE  ReadAll(t) = ReadRecord(ReadAll(s), t[Len(s) + 1])
<1>1. PICK f : ReadTo(s, f, Len(s))
  BY ReadExists
<1>2. PICK g : ReadTo(t, g, Len(s) + 1)
  BY ReadExists
<1>3. ReadAll(s) = f[Len(s)] /\ ReadAll(t) = g[Len(s) + 1]
  BY <1>1, <1>2, ReadIs
<1>4. f[Len(s)] = g[Len(s)]
  BY <1>1, <1>2, ReadUnique
<1>5. Len(s) + 1 \in 0..(Len(s) + 1) /\ Len(s) + 1 # 0 /\ (Len(s) + 1) - 1 = Len(s)
  OBVIOUS
<1>6. g[Len(s) + 1] = ReadRecord(g[Len(s)], t[Len(s) + 1])
  <2>1. g[Len(s) + 1] = IF Len(s) + 1 = 0 THEN [base |-> 0, cells |-> <<>>]
                        ELSE ReadRecord(g[(Len(s) + 1) - 1], t[Len(s) + 1])
    BY <1>2, <1>5, Zenon DEF ReadTo
  <2> QED BY <1>5, <2>1, Zenon
<1> QED BY <1>3, <1>4, <1>6, Zenon

-----------------------------------------------------------------------------
(* What there is *)

LEMMA Sizes ==
  /\ Reach \in Nat \ {0} /\ Half \in Nat \ {0} /\ MaxTmp \in Nat \ {0} /\ MaxJumps \in Nat \ {0}
  /\ RelocCap \in Nat \ {0} /\ MaxErrors \in Nat \ {0} /\ TextCap \in Nat \ {0, 1}
  /\ 2 * Half \in Nat \ {0} /\ 2 * Reach \in Nat \ {0}
<1>1. /\ Reach \in Nat \ {0} /\ Half \in Nat \ {0} /\ MaxTmp \in Nat \ {0} /\ MaxJumps \in Nat \ {0}
      /\ RelocCap \in Nat \ {0} /\ MaxErrors \in Nat \ {0} /\ TextCap \in Nat \ {0, 1}
  BY ZasAssumption
<1> QED BY <1>1

LEMMA Names == Abs \in Bases /\ Abs \notin Psects /\ None \notin Bases /\ None \notin Syms
BY ZasAssumption DEF Bases

LEMMA StmtShape ==
  ASSUME NEW st \in Stmt
  PROVE  /\ st.t \in {"label", "global", "equ", "defl"} => st.s \in Syms
         /\ st.t \in {"equ", "defl", "jp", "jr", "defs", "org", "cond", "start"} => st.e \in Expr
         /\ st.t = "tmp" => st.n \in Nat
         /\ st.t = "psect" => st.p \in Psects
         /\ st.t \in {"code", "bad"} => st.items \in Seq(Item)
<1>1. CASE st \in [t : {"label", "global"}, s : Syms]
  BY <1>1
<1>2. CASE st \in [t : {"equ", "defl"}, s : Syms, e : Expr]
  BY <1>2
<1>3. CASE st \in [t : {"tmp"}, n : Nat]
  BY <1>3
<1>4. CASE st \in [t : {"psect"}, p : Psects]
  BY <1>4
<1>5. CASE st \in [t : {"code", "bad"}, items : Seq(Item)]
  BY <1>5
<1>6. CASE st \in [t : {"jp"}, cc : {"none", "short", "long"}, e : Expr]
  BY <1>6
<1>7. CASE st \in [t : {"jr", "defs", "org", "cond", "start"}, e : Expr]
  BY <1>7
<1>8. CASE st \in [t : {"endc", "end"}]
  BY <1>8
<1> QED BY <1>1, <1>2, <1>3, <1>4, <1>5, <1>6, <1>7, <1>8 DEF Stmt

LEMMA ItemShape == ASSUME NEW it \in Item PROVE it.w \in 0..2 /\ (it.w # 0 => it.e \in Expr)
<1>1. CASE it \in [w : {0}]
  BY <1>1
<1>2. CASE it \in [w : {1, 2}, e : Expr]
  BY <1>2
<1> QED BY <1>1, <1>2 DEF Item

LEMMA ExprShape ==
  ASSUME NEW e \in Expr
  PROVE  e.op \in {"one", "+", "-"} /\ e.a \in Atom /\ (e.op # "one" => e.b \in Atom)
<1>1. CASE e \in [op : {"one"}, a : Atom]
  BY <1>1
<1>2. CASE e \in [op : {"+", "-"}, a : Atom, b : Atom]
  BY <1>2
<1> QED BY <1>1, <1>2 DEF Expr

LEMMA AtomShape ==
  ASSUME NEW a \in Atom
  PROVE  /\ a.k \in {"num", "sym", "fwd", "bwd", "here"}
         /\ a.k = "num" => a.n \in Int
         /\ a.k = "sym" => a.s \in Syms
         /\ a.k \in {"fwd", "bwd"} => a.n \in Nat
<1>1. CASE a \in [k : {"num"}, n : Int]
  BY <1>1
<1>2. CASE a \in [k : {"sym"}, s : Syms]
  BY <1>2
<1>3. CASE a \in [k : {"fwd", "bwd"}, n : Nat]
  BY <1>3
<1>4. CASE a \in [k : {"here"}]
  BY <1>4
<1> QED BY <1>1, <1>2, <1>3, <1>4 DEF Atom

\* what statements put: bytes, fields, relocations, and the records they go to
Xs == [k : {"op", "disp", "b", "lo", "hi"}, x : Int]
Fields == [w : {0}, x : Xs] \cup [w : {1, 2}, v : Value]
Targets == Syms \cup Bases \cup {None}
Rels == [off : Nat, w : {1, 2}, kind : {"NAME", "PSECT"}, name : Targets]
Bufs == [psect : Bases, off : Nat, bytes : Seq(Xs), relocs : Seq(Rels)]
Recs == [t : {"TEXT"}, psect : Bases, off : Nat, bytes : Seq(Xs)]
          \cup [t : {"RELOC"}, items : Seq(Rels)]
Visits == [ip : Nat, psect : Bases, at : Nat, fields : Seq(Fields)]
CellSet == [psect : Bases, at : Nat, x : Xs,
            rel : {None} \cup [w : {1, 2}, kind : {"NAME", "PSECT"}, name : Targets]]
Accs == [base : Nat, cells : Seq(CellSet)]

LEMMA FieldShape ==
  ASSUME NEW f \in Fields
  PROVE  f.w \in 0..2 /\ (f.w = 0 => f.x \in Xs) /\ (f.w # 0 => f.v \in Value)
<1>1. CASE f \in [w : {0}, x : Xs]
  BY <1>1
<1>2. CASE f \in [w : {1, 2}, v : Value]
  BY <1>2
<1> QED BY <1>1, <1>2 DEF Fields

LEMMA ModRange ==
  ASSUME NEW x \in Int, NEW n \in Nat \ {0}
  PROVE  x % n \in 0..(n - 1) /\ x % n \in Int
OBVIOUS

LEMMA SignedRange == ASSUME NEW x \in Int PROVE Signed(x) \in -Half..(Half - 1)
<1> DEFINE n == 2 * Half
           y == x + Half
<1>1. n \in Nat \ {0} /\ Half \in Nat \ {0} /\ y \in Int
  BY Sizes
<1>2. y % n \in 0..(n - 1)
  <2> HIDE DEF y, n
  <2> QED BY <1>1
<1>3. Signed(x) = (y % n) - Half
  BY DEF Signed
<1> QED BY <1>1, <1>2, <1>3

LEMMA ValueShape ==
  ASSUME NEW v \in Value
  PROVE  v.val \in Int /\ v.psect \in Bases \cup {None} /\ v.ext \in Syms \cup {None}
BY DEF Value

\* the bytes that a field is
LEMMA CellsShape ==
  ASSUME NEW f \in Fields, NEW p \in Bases, NEW at \in Nat
  PROVE  /\ Cells(f, p, at) \in Seq(CellSet)
         /\ f.w # 2 => Len(Cells(f, p, at)) = 1
         /\ f.w = 2 => Len(Cells(f, p, at)) = 2
<1> DEFINE n == 2 * Half
           m == 2 * Reach
<1>0. n \in Nat \ {0} /\ m \in Nat \ {0}
  BY Sizes
<1>1. f.w \in 0..2 /\ (f.w = 0 => f.x \in Xs) /\ (f.w # 0 => f.v \in Value)
  BY FieldShape
<1>2. CASE f.w = 0
  <2> DEFINE c == [psect |-> p, at |-> at, x |-> f.x, rel |-> None]
  <2>1. c \in CellSet
    BY <1>1, <1>2 DEF CellSet
  <2>2. Cells(f, p, at) = <<c>>
    BY <1>2 DEF Cells
  <2> HIDE DEF c
  <2> QED BY <1>2, <2>1, <2>2
<1>3. ASSUME f.w # 0, NEW w \in {1, 2}
      PROVE  RelocOf(f.v, w) \in {None} \cup [w : {1, 2}, kind : {"NAME", "PSECT"}, name : Targets]
  <2>1. f.v.psect \in Targets /\ f.v.ext \in Targets
    BY <1>1, <1>3, ValueShape DEF Targets
  <2> QED BY <1>3, <2>1 DEF RelocOf
<1>4. CASE f.w = 1
  <2> DEFINE c == [psect |-> p, at |-> at, x |-> [k |-> "b", x |-> f.v.val % m],
                   rel |-> RelocOf(f.v, 1)]
  <2>0. f.v.val % m \in Int
    <3>1. f.v.val \in Int
      BY <1>1, <1>4, ValueShape
    <3> HIDE DEF m
    <3> QED BY <1>0, <3>1, ModRange
  <2>1. c \in CellSet
    <3> HIDE DEF m
    <3> QED BY <1>3, <1>4, <2>0 DEF CellSet, Xs
  <2>2. Cells(f, p, at) = <<c>>
    BY <1>4 DEF Cells
  <2> HIDE DEF c
  <2> QED BY <1>4, <2>1, <2>2
<1>5. CASE f.w = 2
  <2> DEFINE c == [psect |-> p, at |-> at, x |-> [k |-> "lo", x |-> f.v.val % n],
                   rel |-> RelocOf(f.v, 2)]
             d == [psect |-> p, at |-> at + 1, x |-> [k |-> "hi", x |-> f.v.val % n], rel |-> None]
  <2>0. f.v.val % n \in Int
    <3>1. f.v.val \in Int
      BY <1>1, <1>5, ValueShape
    <3> HIDE DEF n
    <3> QED BY <1>0, <3>1, ModRange
  <2>1. c \in CellSet /\ d \in CellSet
    <3> HIDE DEF n
    <3> QED BY <1>3, <1>5, <2>0 DEF CellSet, Xs
  <2>2. Cells(f, p, at) = <<c, d>>
    BY <1>5 DEF Cells
  <2> HIDE DEF c, d
  <2> QED BY <1>5, <2>1, <2>2
<1> QED BY <1>1, <1>2, <1>4, <1>5

-----------------------------------------------------------------------------
(* Relocations, as they are read *)

RelOf(i) == [w |-> i.w, kind |-> i.kind, name |-> i.name]
In(acc, i) == acc.base + i.off + 1 \in 1..Len(acc.cells)

LEMMA PutRelocIs ==
  ASSUME NEW acc \in Accs, NEW i \in Rels, In(acc, i)
  PROVE  /\ PutReloc(acc, i) \in Accs
         /\ PutReloc(acc, i).base = acc.base
         /\ Len(PutReloc(acc, i).cells) = Len(acc.cells)
         /\ \A k \in 1..Len(acc.cells) :
              PutReloc(acc, i).cells[k] = IF k = acc.base + i.off + 1
                                          THEN [acc.cells[k] EXCEPT !.rel = RelOf(i)]
                                          ELSE acc.cells[k]
<1> DEFINE k == acc.base + i.off + 1
           c == [acc.cells[k] EXCEPT !.rel = RelOf(i)]
           s == [acc.cells EXCEPT ![k] = c]
<1>1. acc.base \in Nat /\ acc.cells \in Seq(CellSet) /\ i.off \in Nat /\ k \in 1..Len(acc.cells)
  BY DEF Accs, Rels, In
<1>2. RelOf(i) \in [w : {1, 2}, kind : {"NAME", "PSECT"}, name : Targets]
  BY DEF RelOf, Rels
<1>3. acc.cells[k] \in CellSet
  <2> HIDE DEF k
  <2> QED BY <1>1
<1>4. c \in CellSet
  <2> HIDE DEF k
  <2> QED BY <1>2, <1>3 DEF CellSet
<1>5. PutReloc(acc, i) = [acc EXCEPT !.cells = s]
  BY DEF PutReloc, RelOf
<1>6. acc = [base |-> acc.base, cells |-> acc.cells]
  BY DEF Accs
<1>7. PutReloc(acc, i) = [base |-> acc.base, cells |-> s]
  <2> HIDE DEF s
  <2> QED BY <1>5, <1>6
<1> HIDE DEF c, k
<1>8. s \in Seq(CellSet) /\ Len(s) = Len(acc.cells) /\ DOMAIN acc.cells = 1..Len(acc.cells)
  BY <1>1, <1>4
<1>9. \A j \in 1..Len(acc.cells) : s[j] = IF j = k THEN c ELSE acc.cells[j]
  BY <1>8
<1> HIDE DEF s
<1>10. \A j \in 1..Len(acc.cells) :
         s[j] = IF j = acc.base + i.off + 1 THEN [acc.cells[j] EXCEPT !.rel = RelOf(i)]
                ELSE acc.cells[j]
  BY <1>9, Zenon DEF k, c
<1>11. /\ PutReloc(acc, i).base = acc.base /\ PutReloc(acc, i).cells = s
       /\ PutReloc(acc, i) \in Accs
  BY <1>1, <1>7, <1>8 DEF Accs
<1> QED BY <1>8, <1>10, <1>11, Zenon

LEMMA RelocatedIs ==
  ASSUME NEW acc \in Accs, NEW items \in Seq(Rels), \A n \in 1..Len(items) : In(acc, items[n])
  PROVE  /\ Relocated(acc, items) \in Accs
         /\ Relocated(acc, items).base = acc.base
         /\ Len(Relocated(acc, items).cells) = Len(acc.cells)
<1>0. Len(items) \in Nat
  OBVIOUS
<1>1. PICK f : PutTo(items, f, Len(items), acc)
  BY <1>0, PutExists
<1> DEFINE P == {n \in Nat : n <= Len(items) => /\ f[n] \in Accs /\ f[n].base = acc.base
                                                /\ Len(f[n].cells) = Len(acc.cells)}
<1>2. 0 \in P
  BY <1>1 DEF PutTo
<1>3. ASSUME NEW n \in P PROVE n + 1 \in P
  <2>1. SUFFICES ASSUME n + 1 <= Len(items)
                 PROVE  /\ f[n + 1] \in Accs /\ f[n + 1].base = acc.base
                        /\ Len(f[n + 1].cells) = Len(acc.cells)
    OBVIOUS
  <2>2. /\ n + 1 \in 1..Len(items) /\ n + 1 \in 0..Len(items) /\ n + 1 # 0 /\ (n + 1) - 1 = n
        /\ f[n] \in Accs /\ f[n].base = acc.base /\ Len(f[n].cells) = Len(acc.cells)
    BY <2>1
  <2>3. f[n + 1] = PutReloc(f[n], items[n + 1])
    <3>1. f[n + 1] = IF n + 1 = 0 THEN acc ELSE PutReloc(f[(n + 1) - 1], items[n + 1])
      BY <1>1, <2>2, Zenon DEF PutTo
    <3> QED BY <2>2, <3>1, Zenon
  <2>4. items[n + 1] \in Rels /\ In(f[n], items[n + 1])
    BY <2>2 DEF In
  <2> QED BY <2>2, <2>3, <2>4, PutRelocIs
<1> HIDE DEF P
<1>4. Len(items) \in P
  BY <1>0, <1>2, <1>3, Induct
<1> QED BY <1>0, <1>1, <1>4, PutIs DEF P

LEMMA SeqExt ==
  ASSUME NEW S, NEW s \in Seq(S), NEW t \in Seq(S), Len(s) = Len(t),
         \A j \in 1..Len(s) : s[j] = t[j]
  PROVE  s = t
<1>1. s = [j \in 1..Len(s) |-> s[j]] /\ t = [j \in 1..Len(s) |-> t[j]]
  OBVIOUS
<1>2. [j \in 1..Len(s) |-> s[j]] = [j \in 1..Len(s) |-> t[j]]
  BY Zenon
<1> QED BY <1>1, <1>2, Zenon

LEMMA Concat ==
  ASSUME NEW S, NEW s \in Seq(S), NEW t \in Seq(S)
  PROVE  /\ s \o t \in Seq(S) /\ Len(s \o t) = Len(s) + Len(t)
         /\ Len(s) \in Nat /\ Len(t) \in Nat
         /\ \A j \in 1..(Len(s) + Len(t)) :
              (s \o t)[j] = IF j <= Len(s) THEN s[j] ELSE t[j - Len(s)]
OBVIOUS

LEMMA PutRelocExtend ==
  ASSUME NEW a \in Accs, NEW i \in Rels, In(a, i), NEW tail \in Seq(CellSet),
         NEW b \in Accs, b.base = a.base, b.cells = a.cells \o tail
  PROVE  PutReloc(b, i).base = a.base /\ PutReloc(b, i).cells = PutReloc(a, i).cells \o tail
<1> DEFINE k == a.base + i.off + 1
           L == Len(a.cells)
           u == PutReloc(a, i)
           v == PutReloc(b, i)
           s == u.cells \o tail
<1>1. a.cells \in Seq(CellSet) /\ b.cells \in Seq(CellSet)
  BY DEF Accs
<1>2. /\ Len(b.cells) = L + Len(tail) /\ Len(tail) \in Nat /\ L \in Nat
      /\ \A j \in 1..(L + Len(tail)) :
           b.cells[j] = IF j <= L THEN a.cells[j] ELSE tail[j - L]
  BY <1>1, Concat
<1>3. k \in 1..L
  BY DEF In
<1>4. In(b, i)
  <2>1. b.base + i.off + 1 = k
    OBVIOUS
  <2> HIDE DEF k, L
  <2> QED BY <1>2, <1>3, <2>1 DEF In
<1>5. /\ u \in Accs /\ Len(u.cells) = L
      /\ \A j \in 1..L : u.cells[j] = IF j = k THEN [a.cells[j] EXCEPT !.rel = RelOf(i)]
                                      ELSE a.cells[j]
  BY PutRelocIs
<1>6. /\ v \in Accs /\ v.base = a.base /\ Len(v.cells) = L + Len(tail)
      /\ \A j \in 1..(L + Len(tail)) :
           v.cells[j] = IF j = k THEN [b.cells[j] EXCEPT !.rel = RelOf(i)] ELSE b.cells[j]
  <2>1. /\ v \in Accs /\ v.base = b.base /\ Len(v.cells) = Len(b.cells)
        /\ \A j \in 1..Len(b.cells) :
             v.cells[j] = IF j = b.base + i.off + 1 THEN [b.cells[j] EXCEPT !.rel = RelOf(i)]
                          ELSE b.cells[j]
    BY <1>4, PutRelocIs, Zenon
  <2>2. b.base + i.off + 1 = k
    OBVIOUS
  <2> HIDE DEF v, k, L
  <2> QED BY <1>2, <2>1, <2>2, Zenon
<1> HIDE DEF u, v
<1>7. v.cells \in Seq(CellSet) /\ u.cells \in Seq(CellSet)
  BY <1>5, <1>6 DEF Accs
<1>8. /\ s \in Seq(CellSet) /\ Len(s) = L + Len(tail)
      /\ \A j \in 1..(L + Len(tail)) : s[j] = IF j <= L THEN u.cells[j] ELSE tail[j - L]
  <2>1. /\ s \in Seq(CellSet) /\ Len(s) = Len(u.cells) + Len(tail)
        /\ \A j \in 1..(Len(u.cells) + Len(tail)) :
             s[j] = IF j <= Len(u.cells) THEN u.cells[j] ELSE tail[j - Len(u.cells)]
    BY <1>7, Concat, Zenon
  <2>2. Len(u.cells) = L
    BY <1>5
  <2> HIDE DEF s, L
  <2> QED BY <2>1, <2>2, Zenon
<1> HIDE DEF s, k, L
<1>9. ASSUME NEW j \in 1..(L + Len(tail)) PROVE v.cells[j] = s[j]
  <2>1. CASE j <= L
    <3>1. j \in 1..L
      BY <1>2, <2>1
    <3>2. u.cells[j] = IF j = k THEN [a.cells[j] EXCEPT !.rel = RelOf(i)] ELSE a.cells[j]
      BY <1>5, <3>1
    <3>3. v.cells[j] = IF j = k THEN [b.cells[j] EXCEPT !.rel = RelOf(i)] ELSE b.cells[j]
      BY <1>6
    <3>4. b.cells[j] = a.cells[j] /\ s[j] = u.cells[j]
      BY <1>2, <1>8, <2>1
    <3> QED BY <3>2, <3>3, <3>4, Zenon
  <2>2. CASE ~(j <= L)
    <3>1. j # k
      BY <1>2, <1>3, <2>2
    <3> QED BY <1>2, <1>6, <1>8, <2>2, <3>1
  <2> QED BY <2>1, <2>2
<1>10. v.cells = s
  BY <1>6, <1>7, <1>8, <1>9, SeqExt
<1> QED BY <1>6, <1>10 DEF u, v, s

\* Relocations do not see the bytes that come after those they are in.
LEMMA RelocatedExtend ==
  ASSUME NEW acc \in Accs, NEW items \in Seq(Rels), \A n \in 1..Len(items) : In(acc, items[n]),
         NEW tail \in Seq(CellSet), NEW more \in Accs,
         more.base = acc.base, more.cells = acc.cells \o tail
  PROVE  /\ Relocated(more, items).base = acc.base
         /\ Relocated(more, items).cells = Relocated(acc, items).cells \o tail
         /\ Relocated(more, items) \in Accs
<1>0. Len(items) \in Nat
  OBVIOUS
<1>1. PICK f : PutTo(items, f, Len(items), acc)
  BY <1>0, PutExists
<1>2. PICK g : PutTo(items, g, Len(items), more)
  BY <1>0, PutExists
<1> DEFINE Q(n) == /\ f[n] \in Accs /\ f[n].base = acc.base
                   /\ Len(f[n].cells) = Len(acc.cells)
                   /\ g[n] \in Accs /\ g[n].base = acc.base /\ g[n].cells = f[n].cells \o tail
           P == {n \in Nat : n <= Len(items) => Q(n)}
<1>3. Q(0)
  <2>1. f[0] = acc /\ g[0] = more
    BY <1>0, <1>1, <1>2 DEF PutTo
  <2> QED BY <2>1
<1>4. ASSUME NEW n \in Nat, n + 1 <= Len(items), Q(n) PROVE Q(n + 1)
  <2>2. n + 1 \in 1..Len(items) /\ n + 1 \in 0..Len(items) /\ n + 1 # 0 /\ (n + 1) - 1 = n
    BY <1>0, <1>4
  <2>3. f[n + 1] = PutReloc(f[n], items[n + 1])
    <3>1. f[n + 1] = IF n + 1 = 0 THEN acc ELSE PutReloc(f[(n + 1) - 1], items[n + 1])
      BY <1>1, <2>2, Zenon DEF PutTo
    <3> QED BY <2>2, <3>1, Zenon
  <2>4. g[n + 1] = PutReloc(g[n], items[n + 1])
    <3>1. g[n + 1] = IF n + 1 = 0 THEN more ELSE PutReloc(g[(n + 1) - 1], items[n + 1])
      BY <1>2, <2>2, Zenon DEF PutTo
    <3> QED BY <2>2, <3>1, Zenon
  <2> DEFINE i == items[n + 1]
             a == f[n]
             b == g[n]
  <2>5. i \in Rels /\ In(acc, i)
    BY <2>2
  <2> HIDE DEF i
  <2>6. a \in Accs /\ a.base = acc.base /\ Len(a.cells) = Len(acc.cells)
        /\ b \in Accs /\ b.base = acc.base /\ b.cells = a.cells \o tail
    BY <1>4, Zenon
  <2> HIDE DEF Q, P, a, b
  <2>7. In(a, i) /\ Len(b.cells) = Len(a.cells) + Len(tail)
    <3>1. a.cells \in Seq(CellSet)
      BY <2>6 DEF Accs
    <3>2. Len(a.cells \o tail) = Len(a.cells) + Len(tail)
      BY <3>1, Concat
    <3>3. In(a, i)
      <4>1. a.base = acc.base /\ Len(a.cells) = Len(acc.cells)
        BY <2>6
      <4> QED BY <2>5, <4>1, Zenon DEF In
    <3>4. Len(b.cells) = Len(a.cells \o tail)
      BY <2>6, Zenon
    <3> QED BY <3>2, <3>3, <3>4, Zenon
  <2>8. In(b, i)
    <3>1. a.cells \in Seq(CellSet) /\ Len(tail) \in Nat /\ Len(a.cells) \in Nat
      BY <2>6 DEF Accs
    <3>2. b.base = a.base
      BY <2>6
    <3>3. a.base + i.off + 1 \in 1..Len(a.cells)
      BY <2>7 DEF In
    <3>4. 1..Len(a.cells) \subseteq 1..Len(b.cells)
      <4>1. Len(b.cells) >= Len(a.cells) /\ Len(b.cells) \in Nat
        BY <2>7, <3>1
      <4> HIDE DEF b
      <4> QED BY <3>1, <4>1
    <3> QED BY <3>2, <3>3, <3>4, Zenon DEF In
  <2>9. /\ PutReloc(a, i) \in Accs /\ PutReloc(a, i).base = acc.base
        /\ Len(PutReloc(a, i).cells) = Len(acc.cells)
    BY <2>5, <2>6, <2>7, PutRelocIs
  <2>10. PutReloc(b, i) \in Accs
    BY <2>5, <2>6, <2>8, PutRelocIs
  <2>11. /\ PutReloc(b, i).base = acc.base
         /\ PutReloc(b, i).cells = PutReloc(a, i).cells \o tail
    <3>1. b.base = a.base /\ In(a, i) /\ a \in Accs /\ b \in Accs /\ i \in Rels
          /\ b.cells = a.cells \o tail
      BY <2>5, <2>6, <2>7, Zenon
    <3>2. PutReloc(b, i).base = a.base /\ PutReloc(b, i).cells = PutReloc(a, i).cells \o tail
      BY <3>1, PutRelocExtend, Zenon
    <3> QED BY <2>6, <3>2, Zenon
  <2> QED BY <2>3, <2>4, <2>9, <2>10, <2>11, Zenon DEF Q, i, a, b
<1>5. 0 \in P /\ \A n \in P : n + 1 \in P
  <2> HIDE DEF Q
  <2> QED BY <1>0, <1>3, <1>4
<1> HIDE DEF P
<1>6. Len(items) \in P
  BY <1>0, <1>5, Induct
<1>7. Q(Len(items))
  <2> HIDE DEF Q
  <2> QED BY <1>0, <1>6 DEF P
<1>8. Relocated(acc, items) = f[Len(items)] /\ Relocated(more, items) = g[Len(items)]
  BY <1>0, <1>1, <1>2, PutIs
<1> QED BY <1>7, <1>8, Zenon

-----------------------------------------------------------------------------
(* The object file with what is in the buffers, as it is read *)

TextCells(b) == [i \in 1..Len(b.bytes) |-> [psect |-> b.psect, at |-> b.off + i - 1,
                                            x |-> b.bytes[i], rel |-> None]]
After(a, b) == [base |-> Len(a.cells), cells |-> a.cells \o TextCells(b)]
Shown(a, b) == IF b.bytes = <<>> THEN a ELSE Relocated(After(a, b), b.relocs)

BufOK(b) == /\ b \in Bufs
            /\ Len(b.bytes) <= TextCap /\ Len(b.relocs) <= RelocCap
            /\ \A i \in 1..Len(b.relocs) : b.relocs[i].off \in 0..(Len(b.bytes) - 1)

LEMMA BufShape ==
  ASSUME NEW b \in Bufs
  PROVE  /\ b.psect \in Bases /\ b.off \in Nat /\ b.bytes \in Seq(Xs) /\ b.relocs \in Seq(Rels)
         /\ Len(b.bytes) \in Nat /\ Len(b.relocs) \in Nat
         /\ DOMAIN b.bytes = 1..Len(b.bytes) /\ DOMAIN b.relocs = 1..Len(b.relocs)
         /\ b = [psect |-> b.psect, off |-> b.off, bytes |-> b.bytes, relocs |-> b.relocs]
BY DEF Bufs

LEMMA EmptyBuf == ASSUME NEW b, BufOK(b), b.bytes = <<>> PROVE b.relocs = <<>>
<1>1. b.relocs \in Seq(Rels) /\ Len(b.bytes) = 0
  BY BufShape DEF BufOK
<1>2. ASSUME Len(b.relocs) # 0 PROVE FALSE
  <2>1. 1 \in 1..Len(b.relocs)
    BY <1>1, <1>2
  <2> QED BY <1>1, <2>1 DEF BufOK
<1> QED BY <1>1, <1>2

LEMMA TextCellsShape ==
  ASSUME NEW b \in Bufs
  PROVE  TextCells(b) \in Seq(CellSet) /\ Len(TextCells(b)) = Len(b.bytes)
<1>1. Len(b.bytes) \in Nat /\ b.psect \in Bases /\ b.off \in Nat
      /\ \A i \in 1..Len(b.bytes) : b.bytes[i] \in Xs
  BY BufShape
<1> DEFINE c(i) == [psect |-> b.psect, at |-> b.off + i - 1, x |-> b.bytes[i], rel |-> None]
<1>2. \A i \in 1..Len(b.bytes) : c(i) \in CellSet
  BY <1>1 DEF CellSet
<1> HIDE DEF c
<1>3. [i \in 1..Len(b.bytes) |-> c(i)] \in Seq(CellSet)
      /\ Len([i \in 1..Len(b.bytes) |-> c(i)]) = Len(b.bytes)
  BY <1>1, <1>2
<1> QED BY <1>3 DEF TextCells, c

LEMMA AfterShape ==
  ASSUME NEW a \in Accs, NEW b \in Bufs
  PROVE  /\ After(a, b) \in Accs /\ After(a, b).base = Len(a.cells) /\ Len(a.cells) \in Nat
         /\ After(a, b).cells = a.cells \o TextCells(b)
         /\ Len(After(a, b).cells) = Len(a.cells) + Len(b.bytes)
<1>1. a.cells \in Seq(CellSet) /\ TextCells(b) \in Seq(CellSet) /\ Len(TextCells(b)) = Len(b.bytes)
  BY TextCellsShape DEF Accs
<1> DEFINE s == a.cells \o TextCells(b)
<1>2. s \in Seq(CellSet) /\ Len(s) = Len(a.cells) + Len(TextCells(b)) /\ Len(a.cells) \in Nat
  BY <1>1, Concat
<1> HIDE DEF s
<1>3. After(a, b) = [base |-> Len(a.cells), cells |-> s]
  BY DEF After, s
<1> QED BY <1>1, <1>2, <1>3 DEF Accs, s

LEMMA InFrom ==
  ASSUME NEW acc, NEW i, NEW n \in Nat, NEW m \in Nat, i.off \in 0..(m - 1),
         acc.base = n, Len(acc.cells) = n + m
  PROVE  In(acc, i)
<1>1. \A k \in 0..(m - 1) : n + k + 1 \in 1..(n + m)
  OBVIOUS
<1> QED BY <1>1, Zenon DEF In

LEMMA ShownShape ==
  ASSUME NEW a \in Accs, NEW b, BufOK(b)
  PROVE  /\ Shown(a, b) \in Accs
         /\ Len(Shown(a, b).cells) = Len(a.cells) + Len(b.bytes)
         /\ Shown(a, b).cells \in Seq(CellSet)
         /\ b.bytes # <<>> => Shown(a, b).base = Len(a.cells)
<1>0. b \in Bufs /\ Len(b.bytes) \in Nat /\ a.cells \in Seq(CellSet) /\ Len(a.cells) \in Nat
      /\ b.relocs \in Seq(Rels)
  BY BufShape DEF BufOK, Accs
<1>1. CASE b.bytes = <<>>
  <2>1. Len(b.bytes) = 0 /\ Shown(a, b) = a
    BY <1>1 DEF Shown
  <2> QED BY <1>0, <1>1, <2>1
<1>2. CASE b.bytes # <<>>
  <2>1. /\ After(a, b) \in Accs /\ After(a, b).base = Len(a.cells)
        /\ Len(After(a, b).cells) = Len(a.cells) + Len(b.bytes)
    BY <1>0, AfterShape
  <2>2. ASSUME NEW n \in 1..Len(b.relocs) PROVE In(After(a, b), b.relocs[n])
    <3>1. b.relocs[n].off \in 0..(Len(b.bytes) - 1)
      BY <2>2 DEF BufOK
    <3>2. b.relocs[n].off \in Nat
      BY <1>0, <3>1
    <3> QED BY <1>0, <2>1, <3>1, <3>2, InFrom
  <2>3. /\ Relocated(After(a, b), b.relocs) \in Accs
        /\ Relocated(After(a, b), b.relocs).base = Len(a.cells)
        /\ Len(Relocated(After(a, b), b.relocs).cells) = Len(a.cells) + Len(b.bytes)
    BY <1>0, <2>1, <2>2, RelocatedIs
  <2>4. Shown(a, b) = Relocated(After(a, b), b.relocs)
    BY <1>2 DEF Shown
  <2>5. Shown(a, b).cells \in Seq(CellSet)
    BY <2>3, <2>4 DEF Accs
  <2> QED BY <2>3, <2>4, <2>5
<1> QED BY <1>1, <1>2

LEMMA ReadAppend ==
  ASSUME NEW S, NEW s \in Seq(S), NEW r \in S
  PROVE  ReadAll(s \o <<r>>) = ReadRecord(ReadAll(s), r)
<1> DEFINE t == s \o <<r>>
<1>1. <<r>> \in Seq(S) /\ Len(<<r>>) = 1 /\ <<r>>[1] = r
  OBVIOUS
<1>2. /\ Len(s) \in Nat /\ Len(t) = Len(s) + 1
      /\ \A j \in 1..(Len(s) + 1) : t[j] = IF j <= Len(s) THEN s[j] ELSE <<r>>[j - Len(s)]
  BY <1>1, Concat
<1> HIDE DEF t
<1>3. \A i \in 1..Len(s) : s[i] = t[i]
  BY <1>2
<1>4. t[Len(s) + 1] = r
  BY <1>1, <1>2
<1>5. ReadAll(t) = ReadRecord(ReadAll(s), t[Len(s) + 1])
  BY <1>2, <1>3, ReadOne
<1> QED BY <1>4, <1>5 DEF t

LEMMA Pair ==
  ASSUME NEW S, NEW x \in S, NEW y \in S
  PROVE  <<x>> \o <<y>> = <<x, y>> /\ <<x>> \o <<>> = <<x>>
<1> DEFINE a == <<x>> \o <<y>>
<1>1. <<x>> \in Seq(S) /\ <<y>> \in Seq(S) /\ Len(<<x>>) = 1 /\ Len(<<y>>) = 1
      /\ <<x>>[1] = x /\ <<y>>[1] = y
  OBVIOUS
<1>2. /\ a \in Seq(S) /\ Len(a) = Len(<<x>>) + Len(<<y>>)
      /\ \A j \in 1..(Len(<<x>>) + Len(<<y>>)) :
           a[j] = IF j <= Len(<<x>>) THEN <<x>>[j] ELSE <<y>>[j - Len(<<x>>)]
  BY <1>1, Concat, Zenon
<1> HIDE DEF a
<1>3. Len(a) = 2 /\ a[1] = x /\ a[2] = y
  BY <1>1, <1>2
<1>4. <<x, y>> \in Seq(S) /\ Len(<<x, y>>) = 2 /\ <<x, y>>[1] = x /\ <<x, y>>[2] = y
  OBVIOUS
<1> DEFINE b == <<x, y>>
<1>5. b \in Seq(S) /\ Len(b) = 2 /\ b[1] = x /\ b[2] = y
  BY <1>4
<1> HIDE DEF b
<1>6. \A j \in 1..Len(a) : a[j] = b[j]
  BY <1>3, <1>5
<1>7. a = b
  BY <1>2, <1>3, <1>5, <1>6, SeqExt
<1>8. <<x>> \o <<>> = <<x>>
  OBVIOUS
<1> QED BY <1>7, <1>8 DEF a, b

\* the records that a buffer is written as
LEMMA WrittenIs ==
  ASSUME NEW b, BufOK(b)
  PROVE  LET x == [t |-> "TEXT", psect |-> b.psect, off |-> b.off, bytes |-> b.bytes]
             y == [t |-> "RELOC", items |-> b.relocs]
         IN  /\ x \in Recs /\ y \in Recs
             /\ Written(b) = IF b.bytes = <<>> THEN <<>>
                             ELSE IF b.relocs = <<>> THEN <<x>> ELSE <<x, y>>
             /\ Written(b) \in Seq(Recs)
<1> DEFINE x == [t |-> "TEXT", psect |-> b.psect, off |-> b.off, bytes |-> b.bytes]
           y == [t |-> "RELOC", items |-> b.relocs]
<1>1. x \in Recs /\ y \in Recs
  BY BufShape DEF BufOK, Recs
<1>2. Written(b) = (IF b.bytes = <<>> THEN <<>> ELSE <<x>>) \o (IF b.relocs = <<>> THEN <<>> ELSE <<y>>)
  BY DEF Written
<1> HIDE DEF x, y
<1>3. <<x>> \o <<y>> = <<x, y>> /\ <<>> \o <<>> = <<>> /\ <<x>> \o <<>> = <<x>>
  BY <1>1, Pair
<1>4. Written(b) = IF b.bytes = <<>> THEN <<>> ELSE IF b.relocs = <<>> THEN <<x>> ELSE <<x, y>>
  BY <1>2, <1>3, EmptyBuf, Zenon
<1>5. Written(b) \in Seq(Recs)
  BY <1>1, <1>4
<1> QED BY <1>1, <1>4, <1>5 DEF x, y

LEMMA ReadWritten ==
  ASSUME NEW file \in Seq(Recs), NEW b, BufOK(b), ReadAll(file) \in Accs
  PROVE  ReadAll(file \o Written(b)) = Shown(ReadAll(file), b)
<1> DEFINE x == [t |-> "TEXT", psect |-> b.psect, off |-> b.off, bytes |-> b.bytes]
           y == [t |-> "RELOC", items |-> b.relocs]
           a == ReadAll(file)
<1>0. b \in Bufs /\ DOMAIN b.bytes = 1..Len(b.bytes)
  BY BufShape DEF BufOK
<1>1. x \in Recs /\ y \in Recs
      /\ Written(b) = IF b.bytes = <<>> THEN <<>> ELSE IF b.relocs = <<>> THEN <<x>> ELSE <<x, y>>
  BY WrittenIs
<1>2. ReadRecord(a, x) = After(a, b)
  BY <1>0 DEF ReadRecord, After, TextCells
<1>3. ReadRecord(After(a, b), y) = Relocated(After(a, b), b.relocs)
  BY DEF ReadRecord
<1> HIDE DEF x, y
<1>4. CASE b.bytes = <<>>
  <2>1. file \o <<>> = file
    OBVIOUS
  <2> QED BY <1>1, <1>4, <2>1 DEF Shown
<1>5. CASE b.bytes # <<>> /\ b.relocs = <<>>
  <2>1. ReadAll(file \o <<x>>) = After(a, b)
    BY <1>1, <1>2, ReadAppend
  <2>2. Relocated(After(a, b), b.relocs) = After(a, b)
    <3>1. Len(b.relocs) = 0
      BY <1>5
    <3> QED BY <3>1, PutNone
  <2>3. Written(b) = <<x>> /\ Shown(a, b) = Relocated(After(a, b), b.relocs)
    BY <1>1, <1>5, Zenon DEF Shown
  <2> QED BY <2>1, <2>2, <2>3
<1>6. CASE b.bytes # <<>> /\ b.relocs # <<>>
  <2>1. ReadAll(file \o <<x>>) = After(a, b)
    BY <1>1, <1>2, ReadAppend
  <2>2. file \o <<x, y>> = (file \o <<x>>) \o <<y>> /\ file \o <<x>> \in Seq(Recs)
    <3>1. file \in Seq(Recs) /\ x \in Recs /\ y \in Recs
      BY <1>1
    <3> HIDE <1>1
    <3> HIDE DEF a
    <3>2. <<x>> \in Seq(Recs) /\ <<y>> \in Seq(Recs)
      BY <3>1
    <3>3. (file \o <<x>>) \o <<y>> = file \o (<<x>> \o <<y>>)
      BY <3>1, <3>2, ConcatAssociative
    <3>4. <<x>> \o <<y>> = <<x, y>>
      BY <3>1, Pair
    <3>5. file \o <<x>> \in Seq(Recs)
      BY <3>1, <3>2, Concat
    <3> QED BY <3>3, <3>4, <3>5, Zenon
  <2>3. ReadAll((file \o <<x>>) \o <<y>>) = ReadRecord(ReadAll(file \o <<x>>), y)
    BY <1>1, <2>2, ReadAppend
  <2>4. Written(b) = <<x, y>> /\ Shown(a, b) = Relocated(After(a, b), b.relocs)
    BY <1>1, <1>6, Zenon DEF Shown
  <2> QED BY <1>3, <2>1, <2>2, <2>3, <2>4, Zenon
<1> QED BY <1>4, <1>5, <1>6

-----------------------------------------------------------------------------
(* What is put into the buffers *)

LEMMA AppendOne ==
  ASSUME NEW S, NEW s \in Seq(S), NEW x \in S
  PROVE  /\ Append(s, x) \in Seq(S) /\ Len(Append(s, x)) = Len(s) + 1 /\ Len(s) \in Nat
         /\ Append(s, x) # <<>>
         /\ \A j \in 1..(Len(s) + 1) : Append(s, x)[j] = IF j <= Len(s) THEN s[j] ELSE x
<1>1. /\ Append(s, x) \in Seq(S) /\ Len(Append(s, x)) = Len(s) + 1 /\ Len(s) \in Nat
      /\ \A j \in 1..(Len(s) + 1) : Append(s, x)[j] = IF j <= Len(s) THEN s[j] ELSE x
  OBVIOUS
<1>2. Append(s, x) # <<>>
  <2> DEFINE t == Append(s, x)
  <2>1. Len(t) # 0
    BY <1>1
  <2> HIDE DEF t
  <2>2. t # <<>>
    BY <2>1
  <2> QED BY <2>2 DEF t
<1> QED BY <1>1, <1>2

ByteCell(b, x) == [psect |-> b.psect, at |-> b.off + Len(b.bytes), x |-> x, rel |-> None]
WithByte(b, x) == [psect |-> b.psect, off |-> b.off, bytes |-> Append(b.bytes, x), relocs |-> b.relocs]
WithRel(b, i) == [psect |-> b.psect, off |-> b.off, bytes |-> b.bytes, relocs |-> Append(b.relocs, i)]

LEMMA ByteShown ==
  ASSUME NEW a \in Accs, NEW b, BufOK(b), NEW x \in Xs, Len(b.bytes) < TextCap
  PROVE  /\ BufOK(WithByte(b, x)) /\ ByteCell(b, x) \in CellSet
         /\ Len(WithByte(b, x).bytes) = Len(b.bytes) + 1 /\ WithByte(b, x).bytes # <<>>
         /\ Shown(a, WithByte(b, x)).cells = Shown(a, b).cells \o <<ByteCell(b, x)>>
<1> DEFINE d == WithByte(b, x)
           c == ByteCell(b, x)
<1>0. /\ b \in Bufs /\ b.psect \in Bases /\ b.off \in Nat /\ b.bytes \in Seq(Xs)
      /\ b.relocs \in Seq(Rels) /\ Len(b.bytes) \in Nat /\ TextCap \in Nat
  BY BufShape, Sizes DEF BufOK
<1>1. /\ d.bytes \in Seq(Xs) /\ Len(d.bytes) = Len(b.bytes) + 1 /\ d.bytes # <<>>
      /\ \A j \in 1..(Len(b.bytes) + 1) : d.bytes[j] = IF j <= Len(b.bytes) THEN b.bytes[j] ELSE x
      /\ d.psect = b.psect /\ d.off = b.off /\ d.relocs = b.relocs
  BY <1>0, AppendOne DEF WithByte
<1>2. c \in CellSet
  BY <1>0 DEF CellSet, ByteCell
<1>3. d \in Bufs
  BY <1>0, <1>1 DEF Bufs, WithByte
<1> DEFINE L == Len(b.bytes)
<1>4. BufOK(d)
  <2>1. \A i \in 1..Len(b.relocs) : b.relocs[i].off \in 0..(L - 1)
    BY DEF BufOK
  <2>3. L + 1 <= TextCap /\ Len(b.relocs) <= RelocCap
    BY <1>0 DEF BufOK
  <2>4. Len(d.bytes) = L + 1 /\ d.relocs = b.relocs
    BY <1>1
  <2> HIDE DEF L, d
  <2>5. \A i \in 1..Len(d.relocs) : d.relocs[i].off \in 0..(Len(d.bytes) - 1)
    <3>1. 0..(L - 1) \subseteq 0..(Len(d.bytes) - 1)
      <4>1. L \in Nat
        BY <1>0 DEF L
      <4> QED BY <2>4, <4>1
    <3> SUFFICES ASSUME NEW i \in 1..Len(d.relocs)
                 PROVE  d.relocs[i].off \in 0..(Len(d.bytes) - 1)
      OBVIOUS
    <3>2. b.relocs[i].off \in 0..(L - 1) /\ d.relocs[i] = b.relocs[i]
      BY <2>1, <2>4, Zenon
    <3> QED BY <3>1, <3>2, Zenon
  <2>6. Len(d.bytes) <= TextCap /\ Len(d.relocs) <= RelocCap
    BY <2>3, <2>4, Zenon
  <2> QED BY <1>3, <2>5, <2>6, Zenon DEF BufOK
<1>5. TextCells(d) = TextCells(b) \o <<c>>
  <2> DEFINE s == TextCells(d)
             u == TextCells(b)
             t == u \o <<c>>
  <2>1. /\ s \in Seq(CellSet) /\ Len(s) = L + 1 /\ u \in Seq(CellSet) /\ Len(u) = L
    BY <1>0, <1>1, <1>3, TextCellsShape
  <2>2. <<c>> \in Seq(CellSet) /\ Len(<<c>>) = 1 /\ <<c>>[1] = c
    BY <1>2
  <2>3. /\ t \in Seq(CellSet) /\ Len(t) = L + 1
        /\ \A j \in 1..(L + 1) : t[j] = IF j <= L THEN u[j] ELSE <<c>>[j - L]
    <3> HIDE DEF s, u, c, L
    <3> QED BY <2>1, <2>2, Concat
  <2>4. ASSUME NEW j \in 1..(L + 1) PROVE s[j] = IF j <= L THEN u[j] ELSE c
    <3>1. s[j] = [psect |-> d.psect, at |-> d.off + j - 1, x |-> d.bytes[j], rel |-> None]
      <4> HIDE DEF d, L
      <4> QED BY <1>1, <2>4 DEF TextCells, L
    <3>2. CASE j <= L
      <4>1. j \in 1..L
        BY <1>0, <3>2
      <4>2. u[j] = [psect |-> b.psect, at |-> b.off + j - 1, x |-> b.bytes[j], rel |-> None]
        BY <4>1 DEF TextCells
      <4>3. d.bytes[j] = b.bytes[j]
        BY <1>1, <3>2
      <4> HIDE DEF d, u, s, L
      <4> QED BY <1>1, <3>1, <3>2, <4>2, <4>3
    <3>3. CASE j = L + 1
      <4>1. d.bytes[j] = x /\ d.off + j - 1 = b.off + L /\ ~(j <= L)
        <5> HIDE DEF d
        <5> QED BY <1>0, <1>1, <3>3
      <4> HIDE DEF d, u, s
      <4> QED BY <1>1, <3>1, <4>1 DEF ByteCell
    <3> QED BY <1>0, <3>2, <3>3
  <2> HIDE DEF s, u, t, c, L
  <2>5. L \in Nat
    BY <1>0 DEF L
  <2>6. \A j \in 1..(L + 1) : s[j] = t[j]
    <3>1. \A j \in 1..(L + 1) : ~(j <= L) => j - L = 1
      BY <2>5
    <3> QED BY <2>2, <2>3, <2>4, <3>1
  <2>7. s = t
    BY <2>1, <2>3, <2>6, SeqExt
  <2> QED BY <2>7 DEF s, t, u
<1>6. <<c>> \in Seq(CellSet)
  BY <1>2
<1>7. After(a, b) \in Accs /\ After(a, d) \in Accs /\ After(a, b).base = Len(a.cells)
      /\ After(a, d).base = Len(a.cells) /\ a.cells \in Seq(CellSet)
      /\ After(a, b).cells = a.cells \o TextCells(b) /\ After(a, d).cells = a.cells \o TextCells(d)
  BY <1>0, <1>3, AfterShape DEF Accs
<1> HIDE DEF c, d
<1>8. After(a, d).cells = After(a, b).cells \o <<c>>
  <2>1. TextCells(b) \in Seq(CellSet)
    BY <1>0, TextCellsShape
  <2>2. (a.cells \o TextCells(b)) \o <<c>> = a.cells \o (TextCells(b) \o <<c>>)
    <3> DEFINE e == <<c>>
               u == a.cells
               v == TextCells(b)
    <3>1. e \in Seq(CellSet) /\ u \in Seq(CellSet) /\ v \in Seq(CellSet)
      BY <1>6, <1>7, <2>1
    <3> HIDE DEF e, u, v
    <3>2. (u \o v) \o e = u \o (v \o e)
      BY <3>1, ConcatAssociative
    <3> QED BY <3>2 DEF e, u, v
  <2> QED BY <1>5, <1>7, <2>2, Zenon
<1>9. Shown(a, d) = Relocated(After(a, d), b.relocs)
  BY <1>1 DEF Shown
<1>10. CASE b.bytes = <<>>
  <2>1. b.relocs = <<>> /\ Len(b.relocs) = 0
    BY <1>10, EmptyBuf
  <2>2. Relocated(After(a, d), b.relocs) = After(a, d)
    BY <2>1, PutNone
  <2>3. Shown(a, b) = a
    BY <1>10 DEF Shown
  <2>4. TextCells(b) = <<>>
    <3>1. TextCells(b) \in Seq(CellSet) /\ Len(TextCells(b)) = 0
      BY <1>0, <1>10, TextCellsShape
    <3> QED BY <3>1
  <2>5. a.cells \o <<>> = a.cells
    BY <1>7
  <2>6. After(a, b).cells = a.cells
    BY <1>7, <2>4, <2>5, Zenon
  <2>7. Shown(a, d).cells = After(a, d).cells
    BY <1>9, <2>2, Zenon
  <2>8. Shown(a, d).cells = Shown(a, b).cells \o <<c>>
    BY <1>8, <2>3, <2>6, <2>7, Zenon
  <2> QED BY <1>1, <1>2, <1>4, <2>8 DEF c, d
<1>11. CASE b.bytes # <<>>
  <2>1. Shown(a, b) = Relocated(After(a, b), b.relocs)
    BY <1>11 DEF Shown
  <2>2. ASSUME NEW n \in 1..Len(b.relocs) PROVE In(After(a, b), b.relocs[n])
    <3>1. b.relocs[n].off \in 0..(Len(b.bytes) - 1)
      BY DEF BufOK
    <3>2. Len(After(a, b).cells) = Len(a.cells) + Len(b.bytes) /\ Len(a.cells) \in Nat
      BY <1>0, AfterShape
    <3> QED BY <1>0, <1>7, <3>1, <3>2, InFrom
  <2>3. After(a, d).base = After(a, b).base
    BY <1>7
  <2>4. Relocated(After(a, d), b.relocs).cells = Relocated(After(a, b), b.relocs).cells \o <<c>>
    BY <1>0, <1>6, <1>7, <1>8, <2>2, <2>3, RelocatedExtend
  <2>5. Shown(a, d).cells = Shown(a, b).cells \o <<c>>
    BY <1>9, <2>1, <2>4, Zenon
  <2> QED BY <1>1, <1>2, <1>4, <2>5 DEF c, d
<1> QED BY <1>10, <1>11

LEMMA RelShown ==
  ASSUME NEW a \in Accs, NEW b, BufOK(b), NEW i \in Rels, i.off \in 0..(Len(b.bytes) - 1),
         Len(b.relocs) < RelocCap
  PROVE  /\ BufOK(WithRel(b, i))
         /\ Shown(a, WithRel(b, i)) = PutReloc(Shown(a, b), i)
<1> DEFINE d == WithRel(b, i)
<1>0. /\ b \in Bufs /\ b.psect \in Bases /\ b.off \in Nat /\ b.bytes \in Seq(Xs)
      /\ b.relocs \in Seq(Rels) /\ Len(b.bytes) \in Nat /\ RelocCap \in Nat
  BY BufShape, Sizes DEF BufOK
<1>1. b.bytes # <<>>
  <2>1. Len(b.bytes) # 0
    BY <1>0
  <2> QED BY <2>1
<1>2. /\ d.relocs \in Seq(Rels) /\ Len(d.relocs) = Len(b.relocs) + 1 /\ Len(b.relocs) \in Nat
      /\ \A j \in 1..(Len(b.relocs) + 1) : d.relocs[j] = IF j <= Len(b.relocs) THEN b.relocs[j] ELSE i
      /\ d.psect = b.psect /\ d.off = b.off /\ d.bytes = b.bytes
  BY <1>0, AppendOne DEF WithRel
<1>3. d \in Bufs
  BY <1>0, <1>2 DEF Bufs, WithRel
<1> HIDE DEF d
<1>4. BufOK(d)
  <2>1. \A j \in 1..Len(b.relocs) : b.relocs[j].off \in 0..(Len(b.bytes) - 1)
    BY DEF BufOK
  <2>2. ASSUME NEW j \in 1..Len(d.relocs) PROVE d.relocs[j].off \in 0..(Len(d.bytes) - 1)
    <3>1. CASE j <= Len(b.relocs)
      <4>1. d.relocs[j] = b.relocs[j] /\ j \in 1..Len(b.relocs)
        BY <1>2, <3>1
      <4> QED BY <1>2, <2>1, <4>1, Zenon
    <3>2. CASE ~(j <= Len(b.relocs))
      <4>1. d.relocs[j] = i
        BY <1>2, <3>2
      <4> QED BY <1>2, <4>1, Zenon
    <3> QED BY <3>1, <3>2
  <2>3. Len(d.relocs) <= RelocCap /\ Len(d.bytes) <= TextCap
    BY <1>0, <1>2 DEF BufOK
  <2> QED BY <1>3, <2>2, <2>3 DEF BufOK
<1>5. After(a, d) = After(a, b)
  BY <1>2 DEF After, TextCells
<1>6. Shown(a, d) = Relocated(After(a, b), d.relocs) /\ Shown(a, b) = Relocated(After(a, b), b.relocs)
  BY <1>1, <1>2, <1>5, Zenon DEF Shown
<1>7. Relocated(After(a, b), d.relocs) = PutReloc(Relocated(After(a, b), b.relocs), d.relocs[Len(b.relocs) + 1])
  <2>1. \A j \in 1..Len(b.relocs) : b.relocs[j] = d.relocs[j]
    BY <1>2
  <2> QED BY <1>2, <2>1, PutOne
<1>8. d.relocs[Len(b.relocs) + 1] = i
  BY <1>2
<1> QED BY <1>4, <1>6, <1>7, <1>8, Zenon DEF d

-----------------------------------------------------------------------------
(* A field is put where it is and as it is *)

Base(o) == ReadAll(o.obj)
Put(o) == Shown(Base(o), o.buf).cells
Good(o) ==
  /\ o = [buf |-> o.buf, obj |-> o.obj, at |-> o.at]
  /\ BufOK(o.buf) /\ o.buf.psect = curPsect
  /\ o.at \in Nat /\ o.buf.off + Len(o.buf.bytes) = o.at
  /\ o.obj \in Seq(Recs) /\ Base(o) \in Accs

LEMMA OutIs ==
  ASSUME NEW q, NEW a, NEW b, NEW c, q = [buf |-> a, obj |-> b, at |-> c]
  PROVE  q.buf = a /\ q.obj = b /\ q.at = c /\ q = [buf |-> q.buf, obj |-> q.obj, at |-> q.at]
OBVIOUS

LEMMA GoodShape ==
  ASSUME NEW o, Good(o)
  PROVE  /\ BufOK(o.buf) /\ o.buf \in Bufs /\ o.buf.psect = curPsect /\ curPsect \in Bases
         /\ o.at \in Nat /\ o.buf.off \in Nat /\ Len(o.buf.bytes) \in Nat
         /\ o.buf.off + Len(o.buf.bytes) = o.at
         /\ o.obj \in Seq(Recs) /\ Base(o) \in Accs
         /\ o.buf.bytes \in Seq(Xs) /\ o.buf.relocs \in Seq(Rels)
         /\ Len(o.buf.bytes) <= TextCap /\ Len(o.buf.relocs) <= RelocCap
         /\ Len(o.buf.relocs) \in Nat
         /\ Put(o) \in Seq(CellSet) /\ Len(Put(o)) = Len(Base(o).cells) + Len(o.buf.bytes)
         /\ Len(Base(o).cells) \in Nat
<1>1. BufOK(o.buf) /\ o.buf \in Bufs /\ Base(o) \in Accs /\ o.buf.psect = curPsect
      /\ o.at \in Nat /\ o.buf.off + Len(o.buf.bytes) = o.at /\ o.obj \in Seq(Recs)
      /\ Len(o.buf.bytes) <= TextCap /\ Len(o.buf.relocs) <= RelocCap
  BY DEF Good, BufOK
<1>2. /\ o.buf.psect \in Bases /\ o.buf.off \in Nat /\ o.buf.bytes \in Seq(Xs)
      /\ o.buf.relocs \in Seq(Rels) /\ Len(o.buf.bytes) \in Nat /\ Len(o.buf.relocs) \in Nat
  BY <1>1, BufShape
<1>3. Put(o) \in Seq(CellSet) /\ Len(Put(o)) = Len(Base(o).cells) + Len(o.buf.bytes)
  BY <1>1, ShownShape DEF Put
<1>4. Len(Base(o).cells) \in Nat
  BY <1>1 DEF Accs
<1> QED BY <1>1, <1>2, <1>3, <1>4

LEMMA FreshOK ==
  ASSUME NEW p \in Bases, NEW at \in Nat
  PROVE  /\ BufOK(Fresh(p, at)) /\ Fresh(p, at).psect = p /\ Fresh(p, at).off = at
         /\ Fresh(p, at).bytes = <<>> /\ Fresh(p, at).relocs = <<>>
         /\ Len(Fresh(p, at).bytes) = 0 /\ Len(Fresh(p, at).relocs) = 0
<1>1. /\ Fresh(p, at).psect = p /\ Fresh(p, at).off = at
      /\ Fresh(p, at).bytes = <<>> /\ Fresh(p, at).relocs = <<>>
      /\ Len(Fresh(p, at).bytes) = 0 /\ Len(Fresh(p, at).relocs) = 0
  BY DEF Fresh
<1>2. Fresh(p, at) \in Bufs
  BY DEF Fresh, Bufs
<1> HIDE DEF Fresh
<1>3. \A i \in 1..0 : FALSE
  OBVIOUS
<1> QED BY <1>1, <1>2, <1>3, Sizes DEF BufOK

LEMMA FileWritten ==
  ASSUME NEW file \in Seq(Recs), NEW b, BufOK(b), ReadAll(file) \in Accs
  PROVE  /\ file \o Written(b) \in Seq(Recs)
         /\ ReadAll(file \o Written(b)) = Shown(ReadAll(file), b)
         /\ ReadAll(file \o Written(b)) \in Accs
<1>1. Written(b) \in Seq(Recs)
  BY WrittenIs
<1>2. file \o Written(b) \in Seq(Recs)
  BY <1>1, Concat
<1> QED BY <1>2, ReadWritten, ShownShape

LEMMA FinishGood ==
  ASSUME NEW o, Good(o)
  PROVE  LET q == FinishRecords(o)
         IN  /\ Good(q) /\ q.at = o.at /\ Put(q) = Put(o)
             /\ q.buf.bytes = <<>> /\ q.buf.relocs = <<>>
             /\ Base(q) = Shown(Base(o), o.buf) /\ q.buf = Fresh(curPsect, o.at)
<1>0. PICK q : q = FinishRecords(o)
  OBVIOUS
<1>1. q = [buf |-> Fresh(curPsect, o.at), obj |-> o.obj \o Written(o.buf), at |-> o.at]
  BY <1>0 DEF FinishRecords
<1>2. /\ BufOK(o.buf) /\ o.obj \in Seq(Recs) /\ Base(o) \in Accs /\ curPsect \in Bases /\ o.at \in Nat
  BY GoodShape
<1>3. /\ q.buf = Fresh(curPsect, o.at) /\ q.obj = o.obj \o Written(o.buf) /\ q.at = o.at
      /\ q = [buf |-> q.buf, obj |-> q.obj, at |-> q.at]
  BY <1>1, OutIs
<1>4. /\ BufOK(q.buf) /\ q.buf.psect = curPsect /\ q.buf.off = o.at
      /\ q.buf.bytes = <<>> /\ q.buf.relocs = <<>> /\ Len(q.buf.bytes) = 0
  BY <1>2, <1>3, FreshOK
<1>5. /\ q.obj \in Seq(Recs) /\ Base(q) = Shown(Base(o), o.buf) /\ Base(q) \in Accs
  BY <1>2, <1>3, FileWritten DEF Base
<1>6. Put(q) = Put(o)
  <2>1. Shown(Base(q), q.buf) = Base(q)
    BY <1>4 DEF Shown
  <2> QED BY <1>5, <2>1, Zenon DEF Put
<1>7. q.buf.off + Len(q.buf.bytes) = q.at
  BY <1>2, <1>3, <1>4
<1>8. Good(q)
  BY <1>2, <1>3, <1>4, <1>5, <1>7, Zenon DEF Good
<1> QED BY <1>0, <1>3, <1>4, <1>5, <1>6, <1>8, Zenon

NextByte(o, x) == [Append1(o, x) EXCEPT !.at = @ + 1]

LEMMA NextByteIs ==
  ASSUME NEW o, Good(o), NEW x
  PROVE  NextByte(o, x) = [buf |-> WithByte(o.buf, x), obj |-> o.obj, at |-> o.at + 1]
<1> DEFINE u == Append(o.buf.bytes, x)
           c == WithByte(o.buf, x)
           f == o.obj
           n == o.at
<1>1. [o.buf EXCEPT !.bytes = u] = c
  <2> DEFINE b == o.buf
  <2>1. b = [psect |-> b.psect, off |-> b.off, bytes |-> b.bytes, relocs |-> b.relocs]
    BY GoodShape, BufShape
  <2>2. c = [psect |-> b.psect, off |-> b.off, bytes |-> u, relocs |-> b.relocs]
    BY DEF WithByte
  <2> HIDE DEF b, u, c
  <2>3. [b EXCEPT !.bytes = u] = [psect |-> b.psect, off |-> b.off, bytes |-> u, relocs |-> b.relocs]
    BY <2>1
  <2> QED BY <2>2, <2>3 DEF b
<1>2. o = [buf |-> o.buf, obj |-> f, at |-> n]
  BY DEF Good
<1> HIDE DEF c, f, n
<1>3. [o EXCEPT !.buf = c] = [buf |-> c, obj |-> f, at |-> n]
  BY <1>2
<1>4. Append1(o, x) = [o EXCEPT !.buf = [o.buf EXCEPT !.bytes = u]]
  BY Zenon DEF Append1
<1> HIDE DEF u
<1>6. PICK y : y = Append1(o, x)
  OBVIOUS
<1>7. y = [buf |-> c, obj |-> f, at |-> n]
  BY <1>1, <1>3, <1>4, <1>6, Zenon
<1>8. [y EXCEPT !.at = y.at + 1] = [buf |-> c, obj |-> f, at |-> n + 1]
  <2>1. \A w : [[buf |-> c, obj |-> f, at |-> n] EXCEPT !.at = w] = [buf |-> c, obj |-> f, at |-> w]
    OBVIOUS
  <2>2. y.at = n
    BY <1>7
  <2> QED BY <1>7, <2>1, <2>2, Zenon
<1>9. NextByte(o, x) = [y EXCEPT !.at = y.at + 1]
  BY <1>6, Zenon DEF NextByte
<1> QED BY <1>8, <1>9, Zenon DEF c, f, n

LEMMA NextByteGood ==
  ASSUME NEW o, Good(o), NEW x \in Xs, Len(o.buf.bytes) < TextCap
  PROVE  /\ Good(NextByte(o, x)) /\ NextByte(o, x).at = o.at + 1
         /\ Len(NextByte(o, x).buf.bytes) = Len(o.buf.bytes) + 1
         /\ [psect |-> curPsect, at |-> o.at, x |-> x, rel |-> None] \in CellSet
         /\ Put(NextByte(o, x)) = Put(o) \o <<[psect |-> curPsect, at |-> o.at, x |-> x, rel |-> None]>>
<1>0. PICK q : q = NextByte(o, x)
  OBVIOUS
<1>1. q = [buf |-> WithByte(o.buf, x), obj |-> o.obj, at |-> o.at + 1]
  BY <1>0, NextByteIs
<1>2. q.buf = WithByte(o.buf, x) /\ q.obj = o.obj /\ q.at = o.at + 1
      /\ q = [buf |-> q.buf, obj |-> q.obj, at |-> q.at]
  BY <1>1, OutIs
<1>3. /\ BufOK(o.buf) /\ Base(o) \in Accs /\ o.at \in Nat /\ o.buf.off \in Nat
      /\ Len(o.buf.bytes) \in Nat /\ o.buf.off + Len(o.buf.bytes) = o.at /\ o.buf.psect = curPsect
      /\ o.obj \in Seq(Recs)
  BY GoodShape
<1>4. /\ BufOK(WithByte(o.buf, x)) /\ ByteCell(o.buf, x) \in CellSet
      /\ Len(WithByte(o.buf, x).bytes) = Len(o.buf.bytes) + 1
      /\ Shown(Base(o), WithByte(o.buf, x)).cells
           = Shown(Base(o), o.buf).cells \o <<ByteCell(o.buf, x)>>
  BY <1>3, ByteShown
<1>5. ByteCell(o.buf, x) = [psect |-> curPsect, at |-> o.at, x |-> x, rel |-> None]
  BY <1>3 DEF ByteCell
<1>6. Base(q) = Base(o)
  BY <1>2 DEF Base
<1>7. Put(q) = Put(o) \o <<ByteCell(o.buf, x)>>
  BY <1>2, <1>4, <1>6, Zenon DEF Put
<1>8. WithByte(o.buf, x).psect = curPsect /\ WithByte(o.buf, x).off = o.buf.off
  BY <1>3 DEF WithByte
<1>9. q.buf.off + Len(q.buf.bytes) = q.at /\ q.at \in Nat /\ Len(q.buf.bytes) = Len(o.buf.bytes) + 1
  <2>1. q.buf.off = o.buf.off /\ q.at = o.at + 1 /\ Len(q.buf.bytes) = Len(o.buf.bytes) + 1
    BY <1>2, <1>4, <1>8, Zenon
  <2> DEFINE l == Len(o.buf.bytes)
             m == Len(q.buf.bytes)
             s == o.buf.off
             n == o.at
  <2>2. m = l + 1 /\ l \in Nat /\ s + l = n /\ s \in Nat /\ n \in Nat /\ q.at = n + 1 /\ q.buf.off = s
    BY <1>3, <2>1
  <2> HIDE DEF l, m, s, n
  <2>3. s + m = n + 1 /\ n + 1 \in Nat
    BY <2>2
  <2> QED BY <2>1, <2>2, <2>3, Zenon DEF m
<1>10. Good(q)
  BY <1>2, <1>3, <1>4, <1>6, <1>8, <1>9, Zenon DEF Good
<1> QED BY <1>0, <1>2, <1>4, <1>5, <1>7, <1>9, <1>10, Zenon

LEMMA AddObjByteGood ==
  ASSUME NEW o, Good(o), NEW x \in Xs
  PROVE  LET q == AddObjByte(o, x)
             c == [psect |-> curPsect, at |-> o.at, x |-> x, rel |-> None]
         IN  /\ Good(q) /\ q.at = o.at + 1 /\ Len(q.buf.bytes) >= 1
             /\ c \in CellSet /\ Put(q) = Put(o) \o <<c>>
<1> DEFINE r == IF Len(o.buf.bytes) = TextCap THEN FinishRecords(o) ELSE o
<1>1. AddObjByte(o, x) = NextByte(r, x)
  BY DEF AddObjByte, NextByte
<1>2. TextCap \in Nat \ {0, 1} /\ Len(o.buf.bytes) \in Nat /\ Len(o.buf.bytes) <= TextCap
  BY GoodShape, Sizes
<1>3. Good(r) /\ r.at = o.at /\ Put(r) = Put(o) /\ Len(r.buf.bytes) < TextCap
  <2>1. CASE Len(o.buf.bytes) = TextCap
    <3>1. /\ Good(FinishRecords(o)) /\ FinishRecords(o).at = o.at /\ Put(FinishRecords(o)) = Put(o)
          /\ FinishRecords(o).buf.bytes = <<>>
      BY FinishGood, Zenon
    <3>2. Len(FinishRecords(o).buf.bytes) = 0
      BY <3>1
    <3> QED BY <1>2, <2>1, <3>1, <3>2
  <2>2. CASE Len(o.buf.bytes) # TextCap
    BY <1>2, <2>2
  <2> QED BY <2>1, <2>2
<1> HIDE DEF r
<1>4. /\ Good(NextByte(r, x)) /\ NextByte(r, x).at = r.at + 1
      /\ Len(NextByte(r, x).buf.bytes) = Len(r.buf.bytes) + 1
      /\ [psect |-> curPsect, at |-> r.at, x |-> x, rel |-> None] \in CellSet
      /\ Put(NextByte(r, x)) = Put(r) \o <<[psect |-> curPsect, at |-> r.at, x |-> x, rel |-> None]>>
  BY <1>3, NextByteGood
<1>5. Len(r.buf.bytes) \in Nat
  BY <1>3, GoodShape
<1> QED BY <1>1, <1>3, <1>4, <1>5

WithReloc(o, i) == [o EXCEPT !.buf.relocs = Append(@, i)]

LEMMA WithRelocIs ==
  ASSUME NEW o, Good(o), NEW i
  PROVE  WithReloc(o, i) = [buf |-> WithRel(o.buf, i), obj |-> o.obj, at |-> o.at]
<1> DEFINE u == Append(o.buf.relocs, i)
           c == WithRel(o.buf, i)
           f == o.obj
           n == o.at
<1>1. [o.buf EXCEPT !.relocs = u] = c
  <2> DEFINE b == o.buf
  <2>1. b = [psect |-> b.psect, off |-> b.off, bytes |-> b.bytes, relocs |-> b.relocs]
    BY GoodShape, BufShape
  <2>2. c = [psect |-> b.psect, off |-> b.off, bytes |-> b.bytes, relocs |-> u]
    BY DEF WithRel
  <2> HIDE DEF b, u, c
  <2>3. [b EXCEPT !.relocs = u] = [psect |-> b.psect, off |-> b.off, bytes |-> b.bytes, relocs |-> u]
    BY <2>1
  <2> QED BY <2>2, <2>3 DEF b
<1>2. o = [buf |-> o.buf, obj |-> f, at |-> n]
  BY DEF Good
<1> HIDE DEF c, f, n
<1>3. [o EXCEPT !.buf = c] = [buf |-> c, obj |-> f, at |-> n]
  BY <1>2
<1>4. WithReloc(o, i) = [o EXCEPT !.buf = [o.buf EXCEPT !.relocs = u]]
  BY Zenon DEF WithReloc
<1> HIDE DEF u
<1> QED BY <1>1, <1>3, <1>4, Zenon DEF c, f, n

LEMMA RelocOne ==
  ASSUME NEW a, NEW i
  PROVE  Relocated(a, <<i>>) = PutReloc(a, i)
<1> DEFINE s == <<>>
           t == <<i>>
<1>1. Len(s) = 0 /\ Len(t) = 1 /\ t[1] = i
  OBVIOUS
<1>2. Relocated(a, s) = a
  BY <1>1, PutNone
<1>3. Len(s) \in Nat /\ Len(t) = Len(s) + 1 /\ \A j \in 1..Len(s) : s[j] = t[j]
  BY <1>1
<1> HIDE DEF s, t
<1>4. Relocated(a, t) = PutReloc(Relocated(a, s), t[Len(s) + 1])
  BY <1>3, PutOne
<1>5. t[Len(s) + 1] = i
  BY <1>1
<1> QED BY <1>2, <1>4, <1>5, Zenon DEF t

LEMMA AddRelocGood ==
  ASSUME NEW o, Good(o), NEW v \in Value, NEW w \in {1, 2}, w <= Len(o.buf.bytes)
  PROVE  LET q == AddReloc(o, v, w)
         IN  /\ Good(q) /\ q.at = o.at /\ Len(Put(q)) = Len(Put(o))
             /\ \A j \in 1..Len(Put(o)) :
                  Put(q)[j] = IF Rel(v) /\ j = Len(Put(o)) - w + 1
                              THEN [Put(o)[j] EXCEPT !.rel = RelocOf(v, w)] ELSE Put(o)[j]
<1> DEFINE item == [off |-> Len(o.buf.bytes) - w, w |-> w,
                    kind |-> IF v.ext # None THEN "NAME" ELSE "PSECT",
                    name |-> IF v.ext # None THEN v.ext ELSE v.psect]
           a == Base(o)
           s == Shown(a, o.buf)
           l == Len(o.buf.bytes)
<1>0. /\ BufOK(o.buf) /\ o.obj \in Seq(Recs) /\ a \in Accs /\ curPsect \in Bases /\ o.at \in Nat
      /\ l \in Nat /\ Put(o) = s.cells /\ Len(Put(o)) = Len(a.cells) + l /\ Len(a.cells) \in Nat
      /\ Len(o.buf.relocs) \in Nat /\ Len(o.buf.relocs) <= RelocCap
      /\ o.buf.psect = curPsect /\ o.buf.off + Len(o.buf.bytes) = o.at
  BY GoodShape DEF Put
<1>1. CASE ~Rel(v)
  <2>1. AddReloc(o, v, w) = o
    BY <1>1 DEF AddReloc
  <2> QED BY <1>1, <2>1
<1>2. CASE Rel(v)
  <2>1. item.off = l - w /\ item.off \in 0..(l - 1) /\ item \in Rels /\ RelOf(item) = RelocOf(v, w)
    <3>1. v.ext \in Targets /\ v.psect \in Targets
      BY ValueShape DEF Targets
    <3>2. l - w \in Nat /\ l - w \in 0..(l - 1)
      BY <1>0
    <3>3. item \in Rels /\ item.off = l - w
      BY <3>1, <3>2 DEF Rels
    <3>4. RelOf(item) = RelocOf(v, w)
      BY <1>2 DEF RelOf, RelocOf
    <3> QED BY <3>2, <3>3, <3>4
  <2>2. o.buf.bytes # <<>>
    <3>1. Len(o.buf.bytes) # 0
      BY <1>0
    <3> QED BY <3>1
  <2>3. s \in Accs /\ s.base = Len(a.cells) /\ Len(s.cells) = Len(a.cells) + l
    BY <1>0, <2>2, ShownShape
  <2>4. AddReloc(o, v, w)
          = IF Len(o.buf.relocs) < RelocCap THEN WithReloc(o, item)
            ELSE FinishRecords(WithReloc(FinishRecords(o), item))
    BY <1>2 DEF AddReloc, WithReloc
  <2> HIDE DEF item, s, a
  <2>5. In(s, item)
    <3> HIDE DEF l
    <3> QED BY <1>0, <2>1, <2>3, InFrom
  <2> DEFINE r == PutReloc(s, item)
             k == Len(Put(o)) - w + 1
  <2>6. /\ r \in Accs /\ Len(r.cells) = Len(Put(o))
        /\ \A j \in 1..Len(Put(o)) :
             r.cells[j] = IF j = k THEN [Put(o)[j] EXCEPT !.rel = RelocOf(v, w)] ELSE Put(o)[j]
    <3>1. /\ r \in Accs /\ Len(r.cells) = Len(s.cells)
          /\ \A j \in 1..Len(s.cells) :
               r.cells[j] = IF j = s.base + item.off + 1 THEN [s.cells[j] EXCEPT !.rel = RelOf(item)]
                            ELSE s.cells[j]
      BY <2>1, <2>3, <2>5, PutRelocIs, Zenon
    <3>2. s.base + item.off + 1 = k
      <4> HIDE DEF l
      <4> QED BY <1>0, <2>1, <2>3
    <3>3. Len(s.cells) = Len(Put(o))
      BY <1>0, Zenon
    <3> HIDE DEF r, k
    <3> QED BY <1>0, <2>1, <3>1, <3>2, <3>3, Zenon
  <2> HIDE DEF r
  <2>7. \A q : Good(q) /\ q.at = o.at /\ Put(q) = r.cells =>
                 /\ Good(q) /\ q.at = o.at /\ Len(Put(q)) = Len(Put(o))
                 /\ \A j \in 1..Len(Put(o)) :
                      Put(q)[j] = IF Rel(v) /\ j = k THEN [Put(o)[j] EXCEPT !.rel = RelocOf(v, w)]
                                  ELSE Put(o)[j]
    <3> HIDE DEF k
    <3> QED BY <1>2, <2>6, Zenon
  <2>8. CASE Len(o.buf.relocs) < RelocCap
    <3>1. PICK q : q = WithReloc(o, item)
      OBVIOUS
    <3>2. q = [buf |-> WithRel(o.buf, item), obj |-> o.obj, at |-> o.at]
      BY <3>1, WithRelocIs
    <3>3. /\ q.buf = WithRel(o.buf, item) /\ q.obj = o.obj /\ q.at = o.at
          /\ q = [buf |-> q.buf, obj |-> q.obj, at |-> q.at]
      BY <3>2, OutIs
    <3>4. BufOK(WithRel(o.buf, item)) /\ Shown(a, WithRel(o.buf, item)) = r
      BY <1>0, <2>1, <2>8, RelShown DEF r, s
    <3>5. /\ WithRel(o.buf, item).psect = o.buf.psect /\ WithRel(o.buf, item).off = o.buf.off
          /\ WithRel(o.buf, item).bytes = o.buf.bytes
      BY DEF WithRel
    <3>6. Base(q) = a
      BY <3>3 DEF Base, a
    <3>7. Put(q) = r.cells
      BY <3>3, <3>4, <3>6, Zenon DEF Put
    <3>8. Good(q)
      BY <1>0, <3>3, <3>4, <3>5, <3>6, Zenon DEF Good
    <3>9. q = AddReloc(o, v, w)
      BY <2>4, <2>8, <3>1
    <3> QED BY <2>7, <3>3, <3>7, <3>8, <3>9, Zenon
  <2>9. CASE ~(Len(o.buf.relocs) < RelocCap)
    <3>1. PICK f : f = FinishRecords(o)
      OBVIOUS
    <3>2. /\ Good(f) /\ f.at = o.at /\ f.buf.bytes = <<>> /\ f.buf.relocs = <<>>
          /\ Base(f) = s /\ f.obj \in Seq(Recs)
      BY <3>1, FinishGood, GoodShape DEF s, a
    <3>3. PICK g : g = WithReloc(f, item)
      OBVIOUS
    <3>4. g = [buf |-> WithRel(f.buf, item), obj |-> f.obj, at |-> f.at]
      BY <3>2, <3>3, WithRelocIs
    <3>5. g.buf = WithRel(f.buf, item) /\ g.obj = f.obj /\ g.at = o.at
      BY <3>2, <3>4, OutIs
    <3> DEFINE y == [t |-> "RELOC", items |-> <<item>>]
    <3>6. g.buf.bytes = <<>> /\ g.buf.relocs = <<item>>
      <4>1. WithRel(f.buf, item).bytes = <<>> /\ WithRel(f.buf, item).relocs = Append(<<>>, item)
        BY <3>2 DEF WithRel
      <4>2. Append(<<>>, item) = <<item>>
        OBVIOUS
      <4> QED BY <3>5, <4>1, <4>2, Zenon
    <3>7. Written(g.buf) = <<y>>
      <4>1. <<item>> # <<>>
        OBVIOUS
      <4>2. Written(g.buf) = <<>> \o <<y>>
        BY <3>6, <4>1, Zenon DEF Written
      <4>3. <<>> \o <<y>> = <<y>>
        OBVIOUS
      <4> QED BY <4>2, <4>3
    <3>8. y \in Recs
      BY <2>1 DEF Recs
    <3>9. ReadAll(f.obj \o <<y>>) = r
      <4>1. ReadAll(f.obj \o <<y>>) = ReadRecord(ReadAll(f.obj), y)
        BY <3>2, <3>8, ReadAppend
      <4>2. ReadAll(f.obj) = s
        BY <3>2 DEF Base
      <4>3. ReadRecord(s, y) = Relocated(s, <<item>>)
        BY DEF ReadRecord
      <4>4. Relocated(s, <<item>>) = r
        BY RelocOne DEF r
      <4> QED BY <4>1, <4>2, <4>3, <4>4, Zenon
    <3>10. f.obj \o <<y>> \in Seq(Recs)
      <4>1. <<y>> \in Seq(Recs)
        BY <3>8
      <4> HIDE DEF y
      <4> QED BY <3>2, <4>1, Concat
    <3> HIDE DEF y
    <3>11. PICK q : q = FinishRecords(g)
      OBVIOUS
    <3>12. q = [buf |-> Fresh(curPsect, o.at), obj |-> f.obj \o <<y>>, at |-> o.at]
      BY <3>5, <3>7, <3>11, Zenon DEF FinishRecords
    <3>13. /\ q.buf = Fresh(curPsect, o.at) /\ q.obj = f.obj \o <<y>> /\ q.at = o.at
           /\ q = [buf |-> q.buf, obj |-> q.obj, at |-> q.at]
      BY <3>12, OutIs
    <3>14. /\ BufOK(q.buf) /\ q.buf.psect = curPsect /\ q.buf.off = o.at
           /\ q.buf.bytes = <<>> /\ Len(q.buf.bytes) = 0
      BY <1>0, <3>13, FreshOK
    <3>15. Base(q) = r
      BY <3>9, <3>13, Zenon DEF Base
    <3>16. Put(q) = r.cells
      <4>1. Shown(r, q.buf) = r
        BY <3>14 DEF Shown
      <4> QED BY <3>15, <4>1, Zenon DEF Put
    <3>17. q.buf.off + Len(q.buf.bytes) = q.at
      BY <1>0, <3>13, <3>14
    <3>18. Good(q)
      BY <1>0, <2>6, <3>10, <3>13, <3>14, <3>15, <3>17, Zenon DEF Good
    <3>19. q = AddReloc(o, v, w)
      BY <2>4, <2>9, <3>1, <3>3, <3>11, Zenon
    <3> QED BY <2>7, <3>13, <3>16, <3>18, <3>19, Zenon
  <2> QED BY <2>8, <2>9
<1> QED BY <1>1, <1>2

-----------------------------------------------------------------------------
(* Fields, one after another *)

LEMMA Append1Is ==
  ASSUME NEW o, NEW b, NEW f, NEW n, o = [buf |-> b, obj |-> f, at |-> n],
         b = [psect |-> b.psect, off |-> b.off, bytes |-> b.bytes, relocs |-> b.relocs], NEW x
  PROVE  Append1(o, x) = [buf |-> WithByte(b, x), obj |-> f, at |-> n]
<1> DEFINE u == Append(b.bytes, x)
           c == WithByte(b, x)
<1>1. [b EXCEPT !.bytes = u] = c
  <2>1. c = [psect |-> b.psect, off |-> b.off, bytes |-> u, relocs |-> b.relocs]
    BY DEF WithByte
  <2> HIDE DEF u, c
  <2>2. [b EXCEPT !.bytes = u] = [psect |-> b.psect, off |-> b.off, bytes |-> u, relocs |-> b.relocs]
    OBVIOUS
  <2> QED BY <2>1, <2>2
<1>2. o.buf = b
  OBVIOUS
<1>3. Append1(o, x) = [o EXCEPT !.buf = [b EXCEPT !.bytes = u]]
  BY <1>2, Zenon DEF Append1
<1> HIDE DEF c, u
<1>4. [o EXCEPT !.buf = c] = [buf |-> c, obj |-> f, at |-> n]
  OBVIOUS
<1> QED BY <1>1, <1>3, <1>4, Zenon DEF c

LEMMA TwoBytes ==
  ASSUME NEW o, Good(o), NEW x \in Xs, NEW y \in Xs, Len(o.buf.bytes) < TextCap
  PROVE  [Append1(Append1(o, x), y) EXCEPT !.at = @ + 2] = NextByte(NextByte(o, x), y)
<1> DEFINE b == o.buf
           c == WithByte(b, x)
           d == WithByte(c, y)
           f == o.obj
           n == o.at
<1>1. o = [buf |-> b, obj |-> f, at |-> n] /\ n \in Nat
      /\ b = [psect |-> b.psect, off |-> b.off, bytes |-> b.bytes, relocs |-> b.relocs]
  BY GoodShape, BufShape DEF Good
<1>2. c = [psect |-> c.psect, off |-> c.off, bytes |-> c.bytes, relocs |-> c.relocs]
  BY DEF WithByte
<1>3. Good(NextByte(o, x)) /\ NextByte(o, x) = [buf |-> c, obj |-> f, at |-> n + 1]
  BY NextByteGood, NextByteIs
<1> HIDE DEF c, b, f, n
<1>4. Append1(o, x) = [buf |-> c, obj |-> f, at |-> n]
  BY <1>1, Append1Is DEF c
<1>5. PICK p : p = Append1(o, x)
  OBVIOUS
<1>6. Append1(p, y) = [buf |-> d, obj |-> f, at |-> n]
  BY <1>2, <1>4, <1>5, Append1Is DEF d
<1>7. PICK q : q = NextByte(o, x)
  OBVIOUS
<1>8. q.buf = c /\ q.obj = f /\ q.at = n + 1
  BY <1>3, <1>7, OutIs
<1>9. NextByte(q, y) = [buf |-> WithByte(q.buf, y), obj |-> q.obj, at |-> q.at + 1]
  BY <1>3, <1>7, NextByteIs
<1>10. n + 1 + 1 = n + 2
  BY <1>1
<1> HIDE DEF d
<1>11. NextByte(q, y) = [buf |-> d, obj |-> f, at |-> n + 2]
  BY <1>8, <1>9, <1>10, Zenon DEF d
<1>12. [[buf |-> d, obj |-> f, at |-> n] EXCEPT !.at = @ + 2] = [buf |-> d, obj |-> f, at |-> n + 2]
  OBVIOUS
<1> QED BY <1>5, <1>6, <1>7, <1>11, <1>12, Zenon

\* The first of the cells just put is replaced.
Replaced(t, w, n, c) == \A j \in 1..Len(t) : t[j] = IF j = n THEN c ELSE w[j]

LEMMA LastCells ==
  ASSUME NEW s \in Seq(CellSet), NEW a \in CellSet, NEW c \in CellSet,
         NEW t \in Seq(CellSet), NEW tail \in Seq(CellSet), Len(t) = Len(s) + 1 + Len(tail),
         NEW w, w = s \o (<<a>> \o tail), Replaced(t, w, Len(s) + 1, c)
  PROVE  t = s \o (<<c>> \o tail)
<1> DEFINE u == <<a>> \o tail
           v == <<c>> \o tail
           l == Len(s)
           m == Len(tail)
<1>0. <<a>> \in Seq(CellSet) /\ <<c>> \in Seq(CellSet) /\ Len(<<a>>) = 1 /\ Len(<<c>>) = 1
      /\ <<a>>[1] = a /\ <<c>>[1] = c
  OBVIOUS
<1>1. /\ u \in Seq(CellSet) /\ Len(u) = 1 + m
      /\ \A j \in 1..(1 + m) : u[j] = IF j <= 1 THEN <<a>>[j] ELSE tail[j - 1]
  BY <1>0, Concat
<1>2. /\ v \in Seq(CellSet) /\ Len(v) = 1 + m
      /\ \A j \in 1..(1 + m) : v[j] = IF j <= 1 THEN <<c>>[j] ELSE tail[j - 1]
  BY <1>0, Concat
<1>3. l \in Nat /\ m \in Nat
  OBVIOUS
<1> HIDE DEF u, v, l, m
<1>4. ASSUME NEW j \in 1..(1 + m) PROVE v[j] = IF j = 1 THEN c ELSE u[j]
  <2>1. CASE j = 1
    <3>1. 1 \in 1..(1 + m) /\ 1 <= 1
      BY <1>3
    <3>2. v[1] = <<c>>[1]
      BY <1>2, <3>1
    <3> QED BY <1>0, <2>1, <3>2
  <2>2. CASE j # 1
    <3>1. ~(j <= 1)
      BY <1>3, <2>2
    <3>2. u[j] = tail[j - 1] /\ v[j] = tail[j - 1]
      BY <1>1, <1>2, <3>1
    <3> QED BY <2>2, <3>2
  <2> QED BY <2>1, <2>2
<1>5. /\ Len(s \o u) = l + (1 + m) /\ \A j \in 1..(l + (1 + m)) : (s \o u)[j] = IF j <= l THEN s[j] ELSE u[j - l]
  <2>1. /\ Len(s \o u) = Len(s) + Len(u)
        /\ \A j \in 1..(Len(s) + Len(u)) : (s \o u)[j] = IF j <= Len(s) THEN s[j] ELSE u[j - Len(s)]
    <3>1. u \in Seq(CellSet)
      BY <1>1
    <3> QED BY <3>1, Concat
  <2> QED BY <1>1, <2>1, Zenon DEF l
<1>6. /\ Len(s \o v) = l + (1 + m) /\ \A j \in 1..(l + (1 + m)) : (s \o v)[j] = IF j <= l THEN s[j] ELSE v[j - l]
      /\ s \o v \in Seq(CellSet)
  <2>1. /\ Len(s \o v) = Len(s) + Len(v) /\ s \o v \in Seq(CellSet)
        /\ \A j \in 1..(Len(s) + Len(v)) : (s \o v)[j] = IF j <= Len(s) THEN s[j] ELSE v[j - Len(s)]
    <3>1. v \in Seq(CellSet)
      BY <1>2
    <3> QED BY <3>1, Concat
  <2> QED BY <1>2, <2>1, Zenon DEF l
<1>7. Len(t) = l + 1 + m /\ \A j \in 1..Len(t) : t[j] = IF j = l + 1 THEN c ELSE (s \o u)[j]
  BY DEF u, l, m, Replaced
<1> DEFINE p == s \o u
           q == s \o v
<1> HIDE DEF p, q
<1>8. /\ Len(t) = l + (1 + m) /\ \A j \in 1..(l + (1 + m)) : t[j] = IF j = l + 1 THEN c ELSE p[j]
      /\ \A j \in 1..(l + (1 + m)) : p[j] = IF j <= l THEN s[j] ELSE u[j - l]
      /\ \A j \in 1..(l + (1 + m)) : q[j] = IF j <= l THEN s[j] ELSE v[j - l]
      /\ Len(q) = l + (1 + m) /\ q \in Seq(CellSet)
  <2>1. l + 1 + m = l + (1 + m)
    BY <1>3
  <2> QED BY <1>5, <1>6, <1>7, <2>1, Zenon DEF p, q
<1>9. ASSUME NEW j \in 1..Len(t) PROVE t[j] = q[j]
  <2>1. j \in 1..(l + (1 + m)) /\ j \in Nat
    BY <1>3, <1>8
  <2>2. t[j] = (IF j = l + 1 THEN c ELSE p[j]) /\ p[j] = (IF j <= l THEN s[j] ELSE u[j - l])
        /\ q[j] = (IF j <= l THEN s[j] ELSE v[j - l])
    BY <1>8, <2>1
  <2>3. CASE j <= l
    BY <1>3, <2>1, <2>2, <2>3
  <2>4. CASE ~(j <= l)
    <3>1. j - l \in 1..(1 + m)
      BY <1>3, <2>1, <2>4
    <3>2. v[j - l] = IF j - l = 1 THEN c ELSE u[j - l]
      BY <1>4, <3>1
    <3>3. (j - l = 1) <=> (j = l + 1)
      BY <1>3, <2>1
    <3> QED BY <2>2, <2>4, <3>2, <3>3
  <2> QED BY <2>3, <2>4
<1>10. t = q
  BY <1>8, <1>9, SeqExt
<1> QED BY <1>10 DEF q, v

\* A field comes to stand at the current location, with its relocation.
LEMMA AddObjGood ==
  ASSUME NEW o, Good(o), NEW f \in Fields
  PROVE  LET q == AddObj(o, f)
             c == Cells(f, curPsect, o.at)
         IN  /\ Good(q) /\ q.at = o.at + Len(c) /\ c \in Seq(CellSet) /\ Len(c) \in {1, 2}
             /\ Put(q) = Put(o) \o c
<1> DEFINE c == Cells(f, curPsect, o.at)
           s == Put(o)
<1>0. curPsect \in Bases /\ o.at \in Nat /\ s \in Seq(CellSet) /\ Len(s) \in Nat
  <2>1. curPsect \in Bases /\ o.at \in Nat /\ s \in Seq(CellSet)
    BY GoodShape
  <2> HIDE DEF s
  <2> QED BY <2>1
<1>1. c \in Seq(CellSet) /\ (f.w # 2 => Len(c) = 1) /\ (f.w = 2 => Len(c) = 2) /\ f.w \in 0..2
  BY <1>0, CellsShape, FieldShape
<1>2. CASE f.w = 0
  <2>1. f.x \in Xs /\ AddObj(o, f) = AddObjByte(o, f.x)
        /\ c = <<[psect |-> curPsect, at |-> o.at, x |-> f.x, rel |-> None]>>
    BY <1>2, FieldShape DEF AddObj, Cells
  <2>2. PICK q : q = AddObjByte(o, f.x)
    OBVIOUS
  <2>3. Good(q) /\ q.at = o.at + 1
        /\ Put(q) = Put(o) \o <<[psect |-> curPsect, at |-> o.at, x |-> f.x, rel |-> None]>>
    BY <2>1, <2>2, AddObjByteGood
  <2> QED BY <1>1, <1>2, <2>1, <2>2, <2>3
<1>3. CASE f.w = 1
  <2> DEFINE x == [k |-> "b", x |-> f.v.val % (2 * Reach)]
             a == [psect |-> curPsect, at |-> o.at, x |-> x, rel |-> None]
  <2>1. f.v \in Value /\ x \in Xs
    <3>1. f.v \in Value
      BY <1>3, FieldShape
    <3>2. f.v.val % (2 * Reach) \in Int
      BY <3>1, ValueShape, ModRange, Sizes
    <3> QED BY <3>1, <3>2 DEF Xs
  <2>2. /\ AddObj(o, f) = AddReloc(AddObjByte(o, x), f.v, 1)
        /\ c = <<[psect |-> curPsect, at |-> o.at, x |-> x, rel |-> RelocOf(f.v, 1)]>>
    BY <1>3 DEF AddObj, Cells
  <2>3. [a EXCEPT !.rel = RelocOf(f.v, 1)] = [psect |-> curPsect, at |-> o.at, x |-> x, rel |-> RelocOf(f.v, 1)]
    OBVIOUS
  <2> HIDE DEF x
  <2>4. PICK p : p = AddObjByte(o, x)
    OBVIOUS
  <2>5. Good(p) /\ p.at = o.at + 1 /\ Len(p.buf.bytes) >= 1 /\ a \in CellSet /\ Put(p) = s \o <<a>>
    BY <2>1, <2>4, AddObjByteGood
  <2>6. PICK q : q = AddReloc(p, f.v, 1)
    OBVIOUS
  <2>7. /\ Good(q) /\ q.at = p.at /\ Len(Put(q)) = Len(Put(p))
        /\ \A j \in 1..Len(Put(p)) :
             Put(q)[j] = IF Rel(f.v) /\ j = Len(Put(p)) - 1 + 1
                         THEN [Put(p)[j] EXCEPT !.rel = RelocOf(f.v, 1)] ELSE Put(p)[j]
    <3>1. 1 <= Len(p.buf.bytes) /\ 1 \in {1, 2}
      BY <2>5, GoodShape
    <3> QED BY <2>1, <2>5, <2>6, <3>1, AddRelocGood, Zenon
  <2>8. Put(q) \in Seq(CellSet) /\ Put(p) \in Seq(CellSet)
    BY <2>5, <2>7, GoodShape
  <2> DEFINE e == RelocOf(f.v, 1)
             b == [a EXCEPT !.rel = e]
             t == Put(q)
             n == Len(s)
  <2>9. c = <<b>> /\ b \in CellSet
    <3>1. c = <<b>>
      BY <2>2, <2>3
    <3>2. <<b>>[1] = b /\ Len(<<b>>) = 1
      OBVIOUS
    <3> HIDE DEF b, c
    <3>3. c[1] \in CellSet
      BY <1>1, <3>1, <3>2
    <3> QED BY <3>1, <3>2, <3>3
  <2>10. Len(Put(p)) = n + 1 /\ \A j \in 1..(n + 1) : Put(p)[j] = IF j <= n THEN s[j] ELSE a
    <3>1. <<a>> \in Seq(CellSet) /\ Len(<<a>>) = 1 /\ <<a>>[1] = a
      BY <2>5
    <3> HIDE DEF a
    <3>2. /\ Len(s \o <<a>>) = n + Len(<<a>>)
          /\ \A j \in 1..(n + Len(<<a>>)) : (s \o <<a>>)[j] = IF j <= n THEN s[j] ELSE <<a>>[j - n]
      BY <1>0, <3>1, Concat
    <3>3. \A j \in 1..(n + 1) : ~(j <= n) => j - n = 1
      BY <1>0
    <3> QED BY <2>5, <3>1, <3>2, <3>3
  <2>11. n \in Nat
    BY <1>0
  <2>12. ~Rel(f.v) => a = b
    BY DEF RelocOf
  <2> HIDE DEF a, b, c, s, e, n, t
  <2>13. \A j \in 1..(n + 1) : t[j] = IF j <= n THEN s[j] ELSE b
    <3> SUFFICES ASSUME NEW j \in 1..(n + 1) PROVE t[j] = IF j <= n THEN s[j] ELSE b
      OBVIOUS
    <3>1. j \in 1..Len(Put(p)) /\ Len(Put(p)) - 1 + 1 = n + 1 /\ j \in Nat
      BY <2>10, <2>11
    <3>2. t[j] = IF Rel(f.v) /\ j = n + 1 THEN [Put(p)[j] EXCEPT !.rel = e] ELSE Put(p)[j]
      BY <2>7, <3>1 DEF t, e
    <3>3. Put(p)[j] = IF j <= n THEN s[j] ELSE a
      BY <2>10
    <3>4. (j = n + 1) <=> ~(j <= n)
      BY <2>11, <3>1
    <3> QED BY <2>12, <3>2, <3>3, <3>4 DEF b
  <2>14. t = s \o c
    <3>1. <<b>> \in Seq(CellSet) /\ Len(<<b>>) = 1 /\ <<b>>[1] = b
      BY <2>9
    <3>2. /\ Len(s \o <<b>>) = n + Len(<<b>>) /\ s \o <<b>> \in Seq(CellSet)
          /\ \A j \in 1..(n + Len(<<b>>)) : (s \o <<b>>)[j] = IF j <= n THEN s[j] ELSE <<b>>[j - n]
      BY <1>0, <3>1, Concat DEF n
    <3> DEFINE y == s \o <<b>>
    <3> HIDE DEF y
    <3>3. Len(y) = n + 1 /\ y \in Seq(CellSet) /\ \A j \in 1..(n + 1) : y[j] = IF j <= n THEN s[j] ELSE b
      <4>1. \A j \in 1..(n + 1) : ~(j <= n) => j - n = 1
        BY <2>11
      <4> QED BY <3>1, <3>2, <4>1 DEF y
    <3>4. t \in Seq(CellSet) /\ Len(t) = n + 1
      BY <2>7, <2>8, <2>10 DEF t
    <3>5. t = y
      BY <2>13, <3>3, <3>4, SeqExt
    <3> QED BY <2>9, <3>5 DEF y
  <2>15. q.at = o.at + 1
    BY <2>5, <2>7
  <2>16. q = AddObj(o, f)
    BY <2>2, <2>4, <2>6
  <2> QED BY <1>1, <1>3, <2>7, <2>14, <2>15, <2>16 DEF t, s, c
<1>4. CASE f.w = 2
  <2> DEFINE m == f.v.val % (2 * Half)
             x == [k |-> "lo", x |-> m]
             y == [k |-> "hi", x |-> m]
             a == [psect |-> curPsect, at |-> o.at, x |-> x, rel |-> None]
             d == [psect |-> curPsect, at |-> o.at + 1, x |-> y, rel |-> None]
             e == RelocOf(f.v, 2)
             b == [a EXCEPT !.rel = e]
             r == IF Len(o.buf.bytes) >= TextCap - 1 THEN FinishRecords(o) ELSE o
  <2>1. f.v \in Value /\ x \in Xs /\ y \in Xs
    <3>1. f.v \in Value
      BY <1>4, FieldShape
    <3>2. m \in Int
      BY <3>1, ValueShape, ModRange, Sizes
    <3> HIDE DEF m
    <3> QED BY <3>1, <3>2 DEF Xs
  <2>2. AddObj(o, f) = AddReloc([Append1(Append1(r, x), y) EXCEPT !.at = @ + 2], f.v, 2)
    <3>1. AddObj(o, f) = AddObjRelocWord(o, f.v)
      BY <1>4 DEF AddObj
    <3> QED BY <3>1, Zenon DEF AddObjRelocWord
  <2>3. c = <<b, d>>
    BY <1>4 DEF Cells
  <2> HIDE DEF m, x, y
  <2>4. Good(r) /\ r.at = o.at /\ Put(r) = s /\ Len(r.buf.bytes) + 1 < TextCap /\ Len(r.buf.bytes) \in Nat
    <3>1. TextCap \in Nat \ {0, 1} /\ Len(o.buf.bytes) \in Nat /\ Len(o.buf.bytes) <= TextCap
      BY GoodShape, Sizes
    <3>2. CASE Len(o.buf.bytes) >= TextCap - 1
      <4>1. /\ Good(FinishRecords(o)) /\ FinishRecords(o).at = o.at /\ Put(FinishRecords(o)) = Put(o)
            /\ FinishRecords(o).buf.bytes = <<>>
        BY FinishGood, Zenon
      <4>2. Len(FinishRecords(o).buf.bytes) = 0
        BY <4>1
      <4> QED BY <3>1, <3>2, <4>1, <4>2
    <3>3. CASE ~(Len(o.buf.bytes) >= TextCap - 1)
      BY <3>1, <3>3
    <3> QED BY <3>2, <3>3
  <2> HIDE DEF r
  <2>5. PICK p1 : p1 = NextByte(r, x)
    OBVIOUS
  <2>6. /\ Good(p1) /\ p1.at = o.at + 1 /\ a \in CellSet /\ Put(p1) = s \o <<a>>
        /\ Len(p1.buf.bytes) = Len(r.buf.bytes) + 1
    <3>1. Len(r.buf.bytes) < TextCap
      BY <2>4, Sizes
    <3>2. /\ Good(p1) /\ p1.at = r.at + 1 /\ Len(p1.buf.bytes) = Len(r.buf.bytes) + 1
          /\ [psect |-> curPsect, at |-> r.at, x |-> x, rel |-> None] \in CellSet
          /\ Put(p1) = Put(r) \o <<[psect |-> curPsect, at |-> r.at, x |-> x, rel |-> None]>>
      BY <2>1, <2>4, <2>5, <3>1, NextByteGood
    <3> QED BY <2>4, <3>2
  <2>7. PICK p : p = NextByte(p1, y)
    OBVIOUS
  <2>8. /\ Good(p) /\ p.at = o.at + 2 /\ d \in CellSet /\ Put(p) = (s \o <<a>>) \o <<d>>
        /\ 2 <= Len(p.buf.bytes)
    <3>1. Len(p1.buf.bytes) < TextCap
      BY <2>4, <2>6, Sizes
    <3>2. /\ Good(p) /\ p.at = p1.at + 1 /\ Len(p.buf.bytes) = Len(p1.buf.bytes) + 1
          /\ [psect |-> curPsect, at |-> p1.at, x |-> y, rel |-> None] \in CellSet
          /\ Put(p) = Put(p1) \o <<[psect |-> curPsect, at |-> p1.at, x |-> y, rel |-> None]>>
      BY <2>1, <2>6, <2>7, <3>1, NextByteGood
    <3>3. p.at = o.at + 2 /\ 2 <= Len(p.buf.bytes)
      BY <1>0, <2>4, <2>6, <3>2
    <3> QED BY <2>6, <3>2, <3>3
  <2>9. AddObj(o, f) = AddReloc(p, f.v, 2)
    <3>1. Len(r.buf.bytes) < TextCap
      BY <2>4, Sizes
    <3>2. [Append1(Append1(r, x), y) EXCEPT !.at = @ + 2] = NextByte(NextByte(r, x), y)
      BY <2>1, <2>4, <3>1, TwoBytes
    <3> QED BY <2>2, <2>5, <2>7, <3>2, Zenon
  <2>10. PICK q : q = AddReloc(p, f.v, 2)
    OBVIOUS
  <2>11. /\ Good(q) /\ q.at = p.at /\ Len(Put(q)) = Len(Put(p))
         /\ \A j \in 1..Len(Put(p)) :
              Put(q)[j] = IF Rel(f.v) /\ j = Len(Put(p)) - 2 + 1
                          THEN [Put(p)[j] EXCEPT !.rel = e] ELSE Put(p)[j]
    <3>1. 2 \in {1, 2}
      OBVIOUS
    <3> QED BY <2>1, <2>8, <2>10, <3>1, AddRelocGood, Zenon
  <2>12. Put(q) \in Seq(CellSet) /\ Put(p) \in Seq(CellSet)
    BY <2>8, <2>11, GoodShape
  <2>13. b \in CellSet
    <3>1. <<b, d>>[1] = b /\ Len(<<b, d>>) = 2
      OBVIOUS
    <3> HIDE DEF b, c, d
    <3>2. c[1] \in CellSet
      BY <1>1, <1>4
    <3> QED BY <2>3, <3>1, <3>2
  <2>14. <<a>> \o <<d>> = <<a, d>> /\ <<b>> \o <<d>> = <<b, d>>
         /\ <<a>> \in Seq(CellSet) /\ <<d>> \in Seq(CellSet) /\ Len(<<d>>) = 1
    <3> HIDE DEF a, b, d
    <3>1. a \in CellSet /\ d \in CellSet /\ b \in CellSet
      BY <2>6, <2>8, <2>13
    <3>2. <<a>> \o <<d>> = <<a, d>> /\ <<b>> \o <<d>> = <<b, d>>
      BY <3>1, Pair
    <3>3. <<a>> \in Seq(CellSet) /\ <<d>> \in Seq(CellSet) /\ Len(<<d>>) = 1
      BY <3>1
    <3> QED BY <3>2, <3>3
  <2>15. ~Rel(f.v) => a = b
    BY DEF RelocOf
  <2> DEFINE t == Put(q)
             n == Len(s)
             ta == <<a>>
             td == <<d>>
  <2> HIDE DEF a, b, d, c, s, e
  <2>16. Put(p) = s \o (<<a>> \o <<d>>)
    <3>1. <<a>> \in Seq(CellSet) /\ <<d>> \in Seq(CellSet) /\ s \in Seq(CellSet)
      BY <1>0, <2>14
    <3> HIDE DEF ta, td
    <3>2. (s \o ta) \o td = s \o (ta \o td)
      BY <3>1, ConcatAssociative DEF ta, td
    <3> QED BY <2>8, <3>2 DEF ta, td
  <2>17. Len(Put(p)) = n + 1 + 1
    <3>1. <<a>> \o <<d>> \in Seq(CellSet) /\ Len(<<a>> \o <<d>>) = 2
      BY <2>6, <2>8
    <3> DEFINE u == <<a>> \o <<d>>
    <3> HIDE DEF u
    <3>2. Len(s \o u) = Len(s) + Len(u)
      BY <1>0, <3>1, Concat DEF u
    <3>3. Len(s \o u) = n + 2
      BY <3>1, <3>2 DEF u
    <3> QED BY <1>0, <2>16, <3>3 DEF u
  <2>18. \A j \in 1..Len(t) : t[j] = IF j = n + 1 THEN [a EXCEPT !.rel = e] ELSE (s \o (<<a>> \o <<d>>))[j]
    <3> SUFFICES ASSUME NEW j \in 1..Len(t)
                 PROVE  t[j] = IF j = n + 1 THEN b ELSE Put(p)[j]
      BY <2>16 DEF b
    <3>1. j \in 1..Len(Put(p)) /\ Len(Put(p)) - 2 + 1 = n + 1
      BY <1>0, <2>11, <2>17
    <3>2. t[j] = IF Rel(f.v) /\ j = n + 1 THEN [Put(p)[j] EXCEPT !.rel = e] ELSE Put(p)[j]
      <4> HIDE DEF n
      <4> QED BY <2>11, <3>1
    <3>3. CASE j = n + 1
      <4>1. Put(p)[j] = a
        <5>1. <<a>> \o <<d>> \in Seq(CellSet) /\ Len(<<a>> \o <<d>>) = 2 /\ (<<a>> \o <<d>>)[1] = a
          BY <2>6, <2>8
        <5> DEFINE u == <<a>> \o <<d>>
        <5> HIDE DEF u
        <5>2. /\ \A i \in 1..(Len(s) + Len(u)) : (s \o u)[i] = IF i <= Len(s) THEN s[i] ELSE u[i - Len(s)]
          BY <1>0, <5>1, Concat DEF u
        <5>3. j \in 1..(Len(s) + Len(u)) /\ ~(j <= Len(s)) /\ j - Len(s) = 1
          BY <1>0, <3>3, <5>1 DEF u
        <5>4. (s \o u)[j] = u[1]
          BY <5>2, <5>3
        <5> QED BY <2>16, <5>1, <5>4 DEF u
      <4> QED BY <2>15, <3>2, <3>3, <4>1 DEF b
    <3>4. CASE j # n + 1
      BY <3>2, <3>4
    <3> QED BY <3>3, <3>4
  <2>19. t = s \o (<<[a EXCEPT !.rel = e]>> \o <<d>>)
    <3>1. Len(t) = Len(s) + 1 + Len(<<d>>)
      BY <2>11, <2>14, <2>17
    <3>2. [a EXCEPT !.rel = e] \in CellSet
      BY <2>13 DEF b
    <3>3. t \in Seq(CellSet) /\ td \in Seq(CellSet) /\ s \in Seq(CellSet)
      BY <1>0, <2>12, <2>14
    <3>4. \A j \in 1..Len(t) : t[j] = IF j = n + 1 THEN [a EXCEPT !.rel = e] ELSE (s \o (<<a>> \o td))[j]
      BY <2>18
    <3>5. Len(t) = Len(s) + 1 + Len(td)
      BY <3>1
    <3> HIDE DEF t, td
    <3>6. t = s \o (<<b>> \o td)
      <4>1. b \in CellSet /\ a \in CellSet
        BY <2>6, <2>13
      <4>2. PICK w : w = s \o (<<a>> \o td)
        OBVIOUS
      <4>3. \A j \in 1..Len(t) : t[j] = IF j = n + 1 THEN b ELSE w[j]
        BY <3>4, <4>2 DEF b
      <4> HIDE DEF n
      <4>4. Replaced(t, w, Len(s) + 1, b)
        BY <4>3 DEF n, Replaced
      <4> QED BY <3>3, <3>5, <4>1, <4>2, <4>4, LastCells
    <3> QED BY <3>6 DEF td, b
  <2>20. t = s \o c
    BY <2>3, <2>14, <2>19 DEF b
  <2>21. q.at = o.at + 2
    BY <2>8, <2>11
  <2>22. q = AddObj(o, f)
    BY <2>9, <2>10
  <2> QED BY <1>1, <1>4, <2>11, <2>20, <2>21, <2>22 DEF t, s, c
<1> QED BY <1>1, <1>2, <1>3, <1>4

\* All but the last item of a sequence.
LEMMA Shorter ==
  ASSUME NEW S, NEW n \in Nat, NEW t \in Seq(S), Len(t) = n + 1
  PROVE  \E s \in Seq(S) : Len(s) = n /\ (\A i \in 1..n : s[i] = t[i]) /\ t[n + 1] \in S
<1> DEFINE s == [i \in 1..n |-> t[i]]
<1>1. \A i \in 1..(n + 1) : t[i] \in S
  OBVIOUS
<1>2. s \in Seq(S) /\ Len(s) = n
  BY <1>1
<1>3. \A i \in 1..n : s[i] = t[i]
  OBVIOUS
<1>4. t[n + 1] \in S
  BY <1>1
<1> HIDE DEF s
<1> QED BY <1>2, <1>3, <1>4

\* Cells of a line of fields: as many as the location moves.
LEMMA CellsOfShape ==
  ASSUME NEW p \in Bases, NEW at \in Nat, NEW fields \in Seq(Fields)
  PROVE  /\ CellsOf(p, at, fields) \in Seq(CellSet)
         /\ Len(CellsOf(p, at, fields)) \in Nat /\ Len(fields) \in Nat
         /\ Len(CellsOf(p, at, fields)) >= Len(fields)
<1> DEFINE Q(s) == CellsOf(p, at, s) \in Seq(CellSet) /\ Len(CellsOf(p, at, s)) >= Len(s)
           P == {n \in Nat : \A s \in Seq(Fields) : Len(s) = n => Q(s)}
<1>1. 0 \in P
  <2>1. ASSUME NEW s \in Seq(Fields), Len(s) = 0 PROVE Q(s)
    <3>1. CellsOf(p, at, s) = <<>>
      BY <2>1, CellNone
    <3> QED BY <2>1, <3>1
  <2> QED BY <2>1
<1>2. ASSUME NEW n \in P PROVE n + 1 \in P
  <2>1. ASSUME NEW t \in Seq(Fields), Len(t) = n + 1 PROVE Q(t)
    <3>1. PICK s \in Seq(Fields) : Len(s) = n /\ (\A i \in 1..n : s[i] = t[i]) /\ t[n + 1] \in Fields
      BY <2>1, Shorter
    <3>2. Q(s)
      BY <3>1
    <3> DEFINE c == CellsOf(p, at, s)
               l == Len(c)
               f == t[n + 1]
               d == Cells(f, p, at + l)
    <3>3. l \in Nat /\ at + l \in Nat
      BY <3>2
    <3>4. d \in Seq(CellSet) /\ Len(d) \in {1, 2}
      <4> HIDE DEF l
      <4> QED BY <3>1, <3>3, CellsShape, FieldShape
    <3>5. CellsOf(p, at, t) = c \o d
      <4>1. CellsOf(p, at, t) = WithCells(c, f, p, at)
        <5>1. Len(s) \in Nat /\ Len(t) = Len(s) + 1 /\ \A i \in 1..Len(s) : s[i] = t[i]
          BY <2>1, <3>1
        <5>2. CellsOf(p, at, t) = WithCells(CellsOf(p, at, s), t[Len(s) + 1], p, at)
          BY <5>1, CellOne
        <5> QED BY <3>1, <5>2
      <4> QED BY <4>1 DEF WithCells
    <3>6. c \o d \in Seq(CellSet) /\ Len(c \o d) = l + Len(d)
      <4> HIDE DEF c, d
      <4> QED BY <3>2, <3>4, Concat DEF c, l
    <3> HIDE DEF c, d, l
    <3>7. Len(c \o d) >= n + 1
      <4>1. l >= n /\ n \in Nat
        BY <3>1, <3>2 DEF l, c
      <4>2. PICK m : m = Len(c \o d)
        OBVIOUS
      <4>3. PICK k : k = Len(d)
        OBVIOUS
      <4>4. m = l + k /\ k \in {1, 2}
        BY <3>4, <3>6, <4>2, <4>3, Zenon
      <4>5. m >= n + 1
        BY <3>3, <4>1, <4>4
      <4> QED BY <4>2, <4>5
    <3> QED BY <2>1, <3>5, <3>6, <3>7
  <2> HIDE DEF Q
  <2> QED BY <2>1
<1> HIDE DEF P, Q
<1>3. Nat \subseteq P
  BY <1>1, <1>2, Induct
<1>4. Len(fields) \in Nat
  OBVIOUS
<1>5. Q(fields)
  BY <1>3, <1>4 DEF P
<1>6. Len(CellsOf(p, at, fields)) \in Nat
  BY <1>5 DEF Q
<1> QED BY <1>4, <1>5, <1>6 DEF Q

\* A line of fields comes to stand at the current location.
LEMMA AddAllGood ==
  ASSUME NEW o, Good(o), NEW fields \in Seq(Fields)
  PROVE  LET q == AddAll(o, fields)
             c == CellsOf(curPsect, o.at, fields)
         IN  Good(q) /\ q.at = o.at + Len(c) /\ Put(q) = Put(o) \o c
<1> DEFINE K(s) == CellsOf(curPsect, o.at, s)
           Q(s) == /\ Good(AddAll(o, s)) /\ AddAll(o, s).at = o.at + Len(K(s))
                   /\ Put(AddAll(o, s)) = Put(o) \o K(s)
           P == {n \in Nat : \A s \in Seq(Fields) : Len(s) = n => Q(s)}
<1>0. curPsect \in Bases /\ o.at \in Nat /\ Put(o) \in Seq(CellSet)
  BY GoodShape
<1>1. 0 \in P
  <2>1. ASSUME NEW s \in Seq(Fields), Len(s) = 0 PROVE Q(s)
    <3>1. K(s) = <<>> /\ AddAll(o, s) = o
      BY <2>1, CellNone, AddNone
    <3>2. Len(K(s)) = 0
      BY <3>1
    <3>3. Put(o) \o <<>> = Put(o)
      <4> DEFINE u == Put(o)
      <4> HIDE DEF u
      <4>1. u \o <<>> = u
        BY <1>0 DEF u
      <4> QED BY <4>1 DEF u
    <3> QED BY <1>0, <3>1, <3>2, <3>3
  <2> QED BY <2>1
<1>2. ASSUME NEW n \in P PROVE n + 1 \in P
  <2>1. ASSUME NEW t \in Seq(Fields), Len(t) = n + 1 PROVE Q(t)
    <3>1. PICK s \in Seq(Fields) : Len(s) = n /\ (\A i \in 1..n : s[i] = t[i]) /\ t[n + 1] \in Fields
      BY <2>1, Shorter
    <3>2. Q(s)
      BY <3>1
    <3> DEFINE c == K(s)
               l == Len(c)
               f == t[n + 1]
    <3>3. PICK a : a = AddAll(o, s)
      OBVIOUS
    <3>4. Good(a) /\ a.at = o.at + l /\ Put(a) = Put(o) \o c /\ c \in Seq(CellSet) /\ l \in Nat
      BY <1>0, <3>2, <3>3, CellsOfShape
    <3>5. AddAll(o, t) = AddObj(a, f) /\ K(t) = WithCells(c, f, curPsect, o.at)
      <4>1. Len(s) \in Nat /\ Len(t) = Len(s) + 1 /\ \A i \in 1..Len(s) : s[i] = t[i]
        BY <2>1, <3>1
      <4>2. AddAll(o, t) = AddObj(AddAll(o, s), t[Len(s) + 1])
        BY <4>1, AddOne
      <4>3. CellsOf(curPsect, o.at, t) = WithCells(CellsOf(curPsect, o.at, s), t[Len(s) + 1], curPsect, o.at)
        BY <4>1, CellOne
      <4> QED BY <3>1, <3>3, <4>2, <4>3
    <3>6. PICK q : q = AddObj(a, f)
      OBVIOUS
    <3>7. PICK d : d = Cells(f, curPsect, a.at)
      OBVIOUS
    <3>8. Good(q) /\ q.at = a.at + Len(d) /\ d \in Seq(CellSet) /\ Len(d) \in {1, 2} /\ Put(q) = Put(a) \o d
      BY <3>1, <3>4, <3>6, <3>7, AddObjGood
    <3>9. K(t) = c \o d
      BY <3>4, <3>5, <3>7 DEF WithCells
    <3>10. Len(c \o d) = l + Len(d) /\ Put(q) = Put(o) \o (c \o d)
      <4> DEFINE u == Put(o)
      <4> HIDE DEF u, c, l
      <4>1. u \in Seq(CellSet)
        BY <1>0 DEF u
      <4>2. Len(c \o d) = Len(c) + Len(d)
        BY <3>4, <3>8, Concat
      <4>3. (u \o c) \o d = u \o (c \o d)
        BY <3>4, <3>8, <4>1, ConcatAssociative
      <4>4. Put(q) = (u \o c) \o d
        BY <3>4, <3>8 DEF u
      <4> QED BY <4>2, <4>3, <4>4 DEF u, l
    <3> HIDE DEF c, l
    <3>11. q.at = o.at + (l + Len(d))
      BY <1>0, <3>4, <3>8
    <3>12. q = AddAll(o, t)
      BY <3>5, <3>6
    <3> QED BY <3>8, <3>9, <3>10, <3>11, <3>12
  <2> HIDE DEF Q
  <2> QED BY <2>1
<1> HIDE DEF P, Q
<1>3. Nat \subseteq P
  BY <1>1, <1>2, Induct
<1>4. Len(fields) \in Nat
  OBVIOUS
<1>5. Q(fields)
  BY <1>3, <1>4 DEF P
<1> QED BY <1>5 DEF Q

\* What is put has the shape of what it is put after, whatever the buffer holds, and the
\* location moves by as many bytes as there are cells.
Shaped(o) ==
  /\ o = [buf |-> o.buf, obj |-> o.obj, at |-> o.at] /\ o.at \in Nat
  /\ o.buf = [psect |-> o.buf.psect, off |-> o.buf.off, bytes |-> o.buf.bytes, relocs |-> o.buf.relocs]

LEMMA AppendShaped ==
  ASSUME NEW o, Shaped(o), NEW x, NEW n \in Nat
  PROVE  /\ Append1(o, x) = [buf |-> WithByte(o.buf, x), obj |-> o.obj, at |-> o.at]
         /\ Shaped(Append1(o, x)) /\ Append1(o, x).at = o.at
         /\ Shaped([Append1(o, x) EXCEPT !.at = @ + n])
         /\ [Append1(o, x) EXCEPT !.at = @ + n].at = o.at + n
<1>1. PICK q : q = Append1(o, x)
  OBVIOUS
<1>2. q = [buf |-> WithByte(o.buf, x), obj |-> o.obj, at |-> o.at] /\ o.at \in Nat
  BY <1>1, Append1Is DEF Shaped
<1>3. q.buf = WithByte(o.buf, x) /\ q.at = o.at /\ q = [buf |-> q.buf, obj |-> q.obj, at |-> q.at]
  BY <1>2
<1>4. q.buf = [psect |-> q.buf.psect, off |-> q.buf.off, bytes |-> q.buf.bytes, relocs |-> q.buf.relocs]
  BY <1>3 DEF WithByte
<1>5. Shaped(q)
  BY <1>2, <1>3, <1>4, Zenon DEF Shaped
<1>6. PICK b : b = q.buf
  OBVIOUS
<1>7. PICK f : f = q.obj
  OBVIOUS
<1>8. PICK m : m = q.at
  OBVIOUS
<1>9. [q EXCEPT !.at = @ + n] = [buf |-> b, obj |-> f, at |-> m + n]
  <2>1. q = [buf |-> b, obj |-> f, at |-> m]
    BY <1>3, <1>6, <1>7, <1>8
  <2> QED BY <2>1
<1>10. PICK r : r = [buf |-> b, obj |-> f, at |-> m + n]
  OBVIOUS
<1>11. r.buf = b /\ r.obj = f /\ r.at = m + n /\ r = [buf |-> r.buf, obj |-> r.obj, at |-> r.at]
  BY <1>10, OutIs
<1>12. m + n \in Nat
  BY <1>2, <1>3, <1>8
<1>13. Shaped(r)
  BY <1>4, <1>6, <1>11, <1>12, Zenon DEF Shaped
<1> QED BY <1>1, <1>2, <1>3, <1>5, <1>8, <1>9, <1>10, <1>11, <1>13, Zenon

LEMMA FinishShaped ==
  ASSUME NEW o, o.at \in Nat PROVE Shaped(FinishRecords(o)) /\ FinishRecords(o).at = o.at
<1>1. PICK q : q = FinishRecords(o)
  OBVIOUS
<1>2. q.buf = Fresh(curPsect, o.at) /\ q.at = o.at /\ q = [buf |-> q.buf, obj |-> q.obj, at |-> q.at]
  BY <1>1, OutIs DEF FinishRecords
<1>3. q.buf = [psect |-> q.buf.psect, off |-> q.buf.off, bytes |-> q.buf.bytes, relocs |-> q.buf.relocs]
  BY <1>2 DEF Fresh
<1> QED BY <1>1, <1>2, <1>3, Zenon DEF Shaped

LEMMA RelocShaped ==
  ASSUME NEW o, Shaped(o), NEW v, NEW w
  PROVE  Shaped(AddReloc(o, v, w)) /\ AddReloc(o, v, w).at = o.at
<1> DEFINE item == [off |-> Len(o.buf.bytes) - w, w |-> w,
                    kind |-> IF v.ext # None THEN "NAME" ELSE "PSECT",
                    name |-> IF v.ext # None THEN v.ext ELSE v.psect]
<1>1. AddReloc(o, v, w) = IF ~Rel(v) THEN o
                          ELSE IF Len(o.buf.relocs) < RelocCap THEN WithReloc(o, item)
                          ELSE FinishRecords(WithReloc(FinishRecords(o), item))
  BY DEF AddReloc, WithReloc
<1> HIDE DEF item
<1>2. ASSUME NEW p, Shaped(p) PROVE Shaped(WithReloc(p, item)) /\ WithReloc(p, item).at = p.at
  <2> DEFINE u == Append(p.buf.relocs, item)
  <2>1. PICK b : b = p.buf
    OBVIOUS
  <2>2. PICK c : c = [b EXCEPT !.relocs = u]
    OBVIOUS
  <2>3. c = [psect |-> c.psect, off |-> c.off, bytes |-> c.bytes, relocs |-> c.relocs]
    <3>1. b = [psect |-> b.psect, off |-> b.off, bytes |-> b.bytes, relocs |-> b.relocs]
      BY <1>2, <2>1 DEF Shaped
    <3> HIDE DEF u
    <3>2. c = [psect |-> b.psect, off |-> b.off, bytes |-> b.bytes, relocs |-> u]
      BY <2>2, <3>1
    <3> QED BY <3>2
  <2>4. PICK q : q = WithReloc(p, item)
    OBVIOUS
  <2>5. q = [p EXCEPT !.buf = c]
    BY <2>1, <2>2, <2>4, Zenon DEF WithReloc
  <2>6. q = [buf |-> c, obj |-> p.obj, at |-> p.at]
    <3>1. p = [buf |-> p.buf, obj |-> p.obj, at |-> p.at]
      BY <1>2 DEF Shaped
    <3> QED BY <2>5, <3>1
  <2>7. q.buf = c /\ q.at = p.at /\ q = [buf |-> q.buf, obj |-> q.obj, at |-> q.at] /\ p.at \in Nat
    BY <1>2, <2>6, OutIs DEF Shaped
  <2> QED BY <2>3, <2>4, <2>7, Zenon DEF Shaped
<1>3. o.at \in Nat
  BY DEF Shaped
<1>4. PICK f : f = FinishRecords(o)
  OBVIOUS
<1>5. Shaped(f) /\ f.at = o.at
  BY <1>3, <1>4, FinishShaped
<1>6. Shaped(WithReloc(f, item)) /\ WithReloc(f, item).at = o.at
  BY <1>2, <1>5
<1>7. Shaped(FinishRecords(WithReloc(f, item))) /\ FinishRecords(WithReloc(f, item)).at = o.at
  BY <1>3, <1>6, FinishShaped
<1>8. Shaped(WithReloc(o, item)) /\ WithReloc(o, item).at = o.at
  BY <1>2
<1> QED BY <1>1, <1>4, <1>7, <1>8

LEMMA AddObjAt ==
  ASSUME NEW o, Shaped(o), NEW f \in Fields, NEW p \in Bases
  PROVE  Shaped(AddObj(o, f)) /\ AddObj(o, f).at = o.at + Len(Cells(f, p, o.at))
<1>0. o.at \in Nat
  BY DEF Shaped
<1>1. f.w \in 0..2 /\ (f.w # 2 => Len(Cells(f, p, o.at)) = 1) /\ (f.w = 2 => Len(Cells(f, p, o.at)) = 2)
  BY <1>0, CellsShape, FieldShape
<1>2. ASSUME NEW x PROVE Shaped(AddObjByte(o, x)) /\ AddObjByte(o, x).at = o.at + 1
  <2>1. PICK q : q = IF Len(o.buf.bytes) = TextCap THEN FinishRecords(o) ELSE o
    OBVIOUS
  <2>2. Shaped(q) /\ q.at = o.at
    BY <1>0, <2>1, FinishShaped
  <2>3. AddObjByte(o, x) = [Append1(q, x) EXCEPT !.at = @ + 1]
    BY <2>1 DEF AddObjByte
  <2>4. PICK r : r = [Append1(q, x) EXCEPT !.at = @ + 1]
    OBVIOUS
  <2>5. Shaped(r) /\ r.at = o.at + 1
    BY <2>2, <2>4, AppendShaped
  <2> QED BY <2>3, <2>4, <2>5
<1>3. CASE f.w = 0
  <2>1. PICK x : x = f.x
    OBVIOUS
  <2>2. AddObj(o, f) = AddObjByte(o, x)
    BY <1>3, <2>1 DEF AddObj
  <2>3. Len(Cells(f, p, o.at)) = 1
    BY <1>1, <1>3
  <2>4. Shaped(AddObjByte(o, x)) /\ AddObjByte(o, x).at = o.at + 1
    BY <1>2
  <2> QED BY <2>2, <2>3, <2>4
<1>4. CASE f.w = 1
  <2>1. PICK q : q = AddObjByte(o, [k |-> "b", x |-> f.v.val % (2 * Reach)])
    OBVIOUS
  <2>2. AddObj(o, f) = AddReloc(q, f.v, 1)
    BY <1>4, <2>1 DEF AddObj
  <2>3. Shaped(q) /\ q.at = o.at + 1
    BY <1>2, <2>1
  <2> QED BY <1>1, <1>4, <2>2, <2>3, RelocShaped
<1>5. CASE f.w = 2
  <2>1. PICK q : q = IF Len(o.buf.bytes) >= TextCap - 1 THEN FinishRecords(o) ELSE o
    OBVIOUS
  <2>2. PICK x : x = [k |-> "lo", x |-> f.v.val % (2 * Half)]
    OBVIOUS
  <2>3. PICK y : y = [k |-> "hi", x |-> f.v.val % (2 * Half)]
    OBVIOUS
  <2>4. AddObj(o, f) = AddReloc([Append1(Append1(q, x), y) EXCEPT !.at = @ + 2], f.v, 2)
    <3>1. AddObj(o, f) = AddObjRelocWord(o, f.v)
      BY <1>5 DEF AddObj
    <3> QED BY <2>1, <2>2, <2>3, <3>1, Zenon DEF AddObjRelocWord
  <2>5. Shaped(q) /\ q.at = o.at /\ 2 \in Nat
    BY <1>0, <2>1, FinishShaped
  <2>6. PICK r : r = Append1(q, x)
    OBVIOUS
  <2>7. Shaped(r) /\ r.at = o.at
    BY <2>5, <2>6, AppendShaped
  <2>8. PICK s : s = [Append1(r, y) EXCEPT !.at = @ + 2]
    OBVIOUS
  <2>9. Shaped(s) /\ s.at = o.at + 2
    BY <2>5, <2>7, <2>8, AppendShaped
  <2>10. AddObj(o, f) = AddReloc(s, f.v, 2)
    BY <2>4, <2>6, <2>8
  <2> QED BY <1>1, <1>5, <2>9, <2>10, RelocShaped
<1> QED BY <1>1, <1>3, <1>4, <1>5

LEMMA AddAllAt ==
  ASSUME NEW o, Shaped(o), NEW fields \in Seq(Fields), NEW p \in Bases
  PROVE  Shaped(AddAll(o, fields)) /\ AddAll(o, fields).at = o.at + Len(CellsOf(p, o.at, fields))
<1> DEFINE K(s) == CellsOf(p, o.at, s)
           Q(s) == Shaped(AddAll(o, s)) /\ AddAll(o, s).at = o.at + Len(K(s))
           P == {n \in Nat : \A s \in Seq(Fields) : Len(s) = n => Q(s)}
<1>0. o.at \in Nat
  BY DEF Shaped
<1>1. 0 \in P
  <2>1. ASSUME NEW s \in Seq(Fields), Len(s) = 0 PROVE Q(s)
    <3>1. K(s) = <<>> /\ AddAll(o, s) = o
      BY <2>1, CellNone, AddNone
    <3>2. Len(K(s)) = 0
      BY <3>1
    <3> QED BY <1>0, <3>1, <3>2
  <2> QED BY <2>1
<1>2. ASSUME NEW n \in P PROVE n + 1 \in P
  <2>1. ASSUME NEW t \in Seq(Fields), Len(t) = n + 1 PROVE Q(t)
    <3>1. PICK s \in Seq(Fields) : Len(s) = n /\ (\A i \in 1..n : s[i] = t[i]) /\ t[n + 1] \in Fields
      BY <2>1, Shorter
    <3>2. Q(s)
      BY <3>1
    <3>3. PICK a : a = AddAll(o, s)
      OBVIOUS
    <3>4. PICK c : c = K(s)
      OBVIOUS
    <3>5. Shaped(a) /\ a.at = o.at + Len(c) /\ c \in Seq(CellSet) /\ Len(c) \in Nat
      BY <1>0, <3>2, <3>3, <3>4, CellsOfShape
    <3>6. AddAll(o, t) = AddObj(a, t[n + 1]) /\ K(t) = WithCells(c, t[n + 1], p, o.at)
      <4>1. Len(s) \in Nat /\ Len(t) = Len(s) + 1 /\ \A i \in 1..Len(s) : s[i] = t[i]
        BY <2>1, <3>1
      <4>2. AddAll(o, t) = AddObj(AddAll(o, s), t[Len(s) + 1])
        BY <4>1, AddOne
      <4>3. CellsOf(p, o.at, t) = WithCells(CellsOf(p, o.at, s), t[Len(s) + 1], p, o.at)
        BY <4>1, CellOne
      <4> QED BY <3>1, <3>3, <3>4, <4>2, <4>3
    <3>7. PICK d : d = Cells(t[n + 1], p, a.at)
      OBVIOUS
    <3>8. Shaped(AddObj(a, t[n + 1])) /\ AddObj(a, t[n + 1]).at = a.at + Len(d)
      BY <3>1, <3>5, <3>7, AddObjAt
    <3>9. d \in Seq(CellSet) /\ Len(d) \in {1, 2}
      <4>1. a.at \in Nat
        BY <3>5 DEF Shaped
      <4> QED BY <3>1, <3>7, <4>1, CellsShape
    <3>10. K(t) = c \o d
      BY <3>5, <3>6, <3>7 DEF WithCells
    <3>11. Len(c \o d) = Len(c) + Len(d)
      BY <3>5, <3>9, Concat
    <3>12. a.at + Len(d) = o.at + (Len(c) + Len(d))
      BY <1>0, <3>5, <3>9
    <3> QED BY <3>6, <3>8, <3>10, <3>11, <3>12
  <2> HIDE DEF Q
  <2> QED BY <2>1
<1> HIDE DEF P, Q
<1>3. Nat \subseteq P
  BY <1>1, <1>2, Induct
<1>4. Len(fields) \in Nat
  OBVIOUS
<1>5. Q(fields)
  BY <1>3, <1>4 DEF P
<1> QED BY <1>5 DEF Q

-----------------------------------------------------------------------------
(* The types of what statements compute *)

SymRec == [known : BOOLEAN, undef : BOOLEAN, multi : BOOLEAN, glob : BOOLEAN,
           val : Int, psect : Bases \cup {None}, ext : Syms \cup {None}]
TmpRec == [label : Nat, loc : -Half..(Half - 1), psect : Bases \cup {None}]

PassOK ==
  /\ prog \in Programs /\ pc \in {"pass", "over", "done", "failed"}
  /\ phase \in 0..2 /\ (phase = 1 => prog.j) /\ nInput \in 0..1 /\ ip \in 1..(Len(prog.text) + 1)
  /\ numerror \in Nat /\ (phase < 2 => numerror = 0)
  /\ path \in [0..2 -> Seq(Nat)]
PlaceOK == /\ curPsect \in entered /\ entered \subseteq Bases
           /\ loc \in [Bases -> Nat] /\ size \in [Bases -> -Half..(Half - 1)]
SymOK == sym \in [Syms -> SymRec]
TmpOK == /\ tmp \in [1..MaxTmp -> TmpRec]
         /\ highLabel \in 0..MaxTmp /\ lowLabel \in Nat
         /\ tmpPtr \in Nat /\ (pc # "failed" => tmpPtr \in 0..MaxTmp)
JumpOK == /\ jOptIdx \in -1..(MaxJumps - 1) /\ jOptTab \in [0..(MaxJumps - 1) -> BOOLEAN]
          /\ prog.j \/ ~\E i \in DOMAIN jOptTab : jOptTab[i]

LEMMA ProgramShape ==
  ASSUME PassOK
  PROVE  /\ prog.text \in Seq(Stmt) /\ prog.j \in BOOLEAN /\ Len(prog.text) \in Nat
         /\ Lines = 1..Len(prog.text) /\ \A i \in Lines : prog.text[i] \in Stmt
         /\ ip \in Nat
<1>1. prog \in Program
  BY ZasAssumption DEF PassOK
<1>2. prog.text \in Seq(Stmt) /\ prog.j \in BOOLEAN
  BY <1>1 DEF Program
<1>3. ip \in 1..(Len(prog.text) + 1)
  BY DEF PassOK
<1> DEFINE t == prog.text
<1> HIDE DEF t
<1>4. t \in Seq(Stmt)
  BY <1>2 DEF t
<1>5. Len(t) \in Nat /\ DOMAIN t = 1..Len(t) /\ \A i \in DOMAIN t : t[i] \in Stmt
  BY <1>4
<1>6. ip \in Nat
  BY <1>3, <1>5 DEF t
<1> QED BY <1>2, <1>5, <1>6 DEF t, Lines

LEMMA SymShape ==
  ASSUME SymOK, NEW s \in Syms
  PROVE  /\ sym[s] \in SymRec /\ sym[s].val \in Int /\ sym[s].psect \in Bases \cup {None}
         /\ sym[s].ext \in Syms \cup {None}
<1>1. sym[s] \in SymRec
  BY DEF SymOK
<1> QED BY <1>1 DEF SymRec

LEMMA ValueIs ==
  ASSUME NEW x \in Int, NEW p \in Bases \cup {None}, NEW e \in Syms \cup {None}
  PROVE  [val |-> x, psect |-> p, ext |-> e] \in Value
BY DEF Value

LEMMA HereNat == ASSUME PlaceOK PROVE Here \in Nat /\ curPsect \in Bases
BY DEF PlaceOK, Here

LEMMA AtomValue ==
  ASSUME PlaceOK, SymOK, TmpOK, NEW a \in Atom, NEW stray \in Strays
  PROVE  AtomVal(a, stray) \in Value
<1>1. CASE a.k = "num"
  <2>1. AtomVal(a, stray) = [val |-> a.n, psect |-> None, ext |-> None]
    BY <1>1 DEF AtomVal
  <2> QED BY <1>1, <2>1, AtomShape, ValueIs
<1>2. CASE a.k = "sym"
  <2>1. AtomVal(a, stray) = [val |-> sym[a.s].val, psect |-> sym[a.s].psect, ext |-> sym[a.s].ext]
    BY <1>2 DEF AtomVal
  <2>2. a.s \in Syms
    BY <1>2, AtomShape
  <2> QED BY <2>1, <2>2, SymShape, ValueIs
<1>3. CASE a.k = "here"
  <2>1. AtomVal(a, stray) = [val |-> Here, psect |-> IF curPsect = Abs THEN None ELSE curPsect,
                             ext |-> None]
    BY <1>3 DEF AtomVal
  <2>2. Here \in Int /\ curPsect \in Bases
    BY HereNat
  <2> HIDE DEF Here
  <2> QED BY <2>1, <2>2, ValueIs
<1>4. CASE a.k \in {"fwd", "bwd"}
  <2>1. AtomVal(a, stray) = FindLocalLabel(a, stray)
    BY <1>4 DEF AtomVal
  <2>2. \A i : Entry(i, stray).loc \in Int /\ Entry(i, stray).psect \in Bases \cup {None}
    <3> SUFFICES ASSUME NEW i
                 PROVE  Entry(i, stray).loc \in Int /\ Entry(i, stray).psect \in Bases \cup {None}
      OBVIOUS
    <3>1. CASE i \in 1..MaxTmp
      <4>1. tmp[i] \in TmpRec /\ Entry(i, stray) = tmp[i]
        BY <3>1 DEF TmpOK, Entry
      <4>2. tmp[i].loc \in -Half..(Half - 1) /\ tmp[i].psect \in Bases \cup {None}
        BY <4>1 DEF TmpRec
      <4> QED BY <4>1, <4>2, Sizes
    <3>2. CASE i \notin 1..MaxTmp
      <4>1. Entry(i, stray) = stray
        BY <3>2 DEF Entry
      <4>2. stray.loc = 0 /\ stray.psect = None
        BY DEF Strays
      <4> QED BY <4>1, <4>2
    <3> QED BY <3>1, <3>2
  <2> DEFINE hits == LocalLabels(a, stray)
             i    == CHOOSE h \in hits : \A g \in hits : IF a.k = "fwd" THEN h <= g ELSE g <= h
  <2>3. FindLocalLabel(a, stray)
          = IF hits = {} THEN [val |-> 0, psect |-> Abs, ext |-> None]
            ELSE [val |-> Entry(i, stray).loc, psect |-> Entry(i, stray).psect, ext |-> None]
    BY DEF FindLocalLabel
  <2> HIDE DEF hits, i
  <2>4. [val |-> 0, psect |-> Abs, ext |-> None] \in Value
    BY Names, ValueIs
  <2>5. [val |-> Entry(i, stray).loc, psect |-> Entry(i, stray).psect, ext |-> None] \in Value
    BY <2>2, ValueIs
  <2> QED BY <2>1, <2>3, <2>4, <2>5
<1> QED BY <1>1, <1>2, <1>3, <1>4, AtomShape

LEMMA ExprValue ==
  ASSUME PlaceOK, SymOK, TmpOK, NEW e \in Expr, NEW stray \in Strays
  PROVE  EvalExpr(e, stray) \in Value
<1>1. e.op \in {"one", "+", "-"} /\ AtomVal(e.a, stray) \in Value
      /\ (e.op # "one" => AtomVal(e.b, stray) \in Value)
  BY ExprShape, AtomValue
<1>2. PICK l : l = AtomVal(e.a, stray)
  OBVIOUS
<1>3. PICK r : r = AtomVal(e.b, stray)
  OBVIOUS
<1>4. EvalExpr(e, stray) = CASE e.op = "one" -> l [] e.op = "+" -> Plus(l, r) [] e.op = "-" -> Minus(l, r)
  BY <1>2, <1>3 DEF EvalExpr
<1>5. l \in Value /\ l.val \in Int /\ l.psect \in Bases \cup {None} /\ l.ext \in Syms \cup {None}
  BY <1>1, <1>2, ValueShape
<1>6. CASE e.op # "one"
  <2>1. r.val \in Int /\ r.psect \in Bases \cup {None} /\ r.ext \in Syms \cup {None}
    BY <1>1, <1>3, <1>6, ValueShape
  <2>2. l.val + r.val \in Int /\ l.val - r.val \in Int
    BY <1>5, <2>1
  <2>3. (IF Rel(l) THEN l.psect ELSE r.psect) \in Bases \cup {None}
        /\ (IF Rel(l) THEN l.ext ELSE r.ext) \in Syms \cup {None}
        /\ (IF ~BadMinus(l, r) /\ r.psect = l.psect THEN None ELSE l.psect) \in Bases \cup {None}
    BY <1>5, <2>1
  <2>4. Plus(l, r) \in Value /\ Minus(l, r) \in Value
    BY <1>5, <2>2, <2>3, ValueIs DEF Plus, Minus
  <2> QED BY <1>1, <1>4, <1>6, <2>4
<1>7. CASE e.op = "one"
  BY <1>4, <1>5, <1>7
<1> QED BY <1>6, <1>7

LEMMA CountIfNat == ASSUME NEW b \in BOOLEAN PROVE CountIf(b) \in {0, 1} /\ (CountIf(b) = 0 => ~b)
BY DEF CountIf

\* A subset of a finite set has a natural number of elements.
LEMMA CountNat == ASSUME NEW S, IsFiniteSet(S), NEW T, T \subseteq S PROVE Cardinality(T) \in Nat
BY FS_Subset, FS_CardinalityType

LEMMA ErrorsNat == ASSUME NEW e \in Expr, NEW stray PROVE ExprErrors(e, stray) \in Nat
<1>1. e.op \in {"one", "+", "-"}
  BY ExprShape
<1>2. /\ DOMAIN Operands(e) = 1..1 \/ DOMAIN Operands(e) = 1..2
      /\ Atoms(e) = {e.a} \/ Atoms(e) = {e.a, e.b}
  <2>1. CASE e.op = "one"
    <3>1. Operands(e) = <<e.a>>
      BY <2>1 DEF Operands
    <3>2. DOMAIN <<e.a>> = 1..1 /\ Range(<<e.a>>) = {e.a}
      BY DEF Range
    <3> QED BY <3>1, <3>2 DEF Atoms
  <2>2. CASE e.op # "one"
    <3>1. Operands(e) = <<e.a, e.b>>
      BY <2>2 DEF Operands
    <3>2. DOMAIN <<e.a, e.b>> = 1..2 /\ Range(<<e.a, e.b>>) = {e.a, e.b}
      BY DEF Range
    <3> QED BY <3>1, <3>2 DEF Atoms
  <2> QED BY <2>1, <2>2
<1>3. IsFiniteSet(DOMAIN Operands(e)) /\ IsFiniteSet(Atoms(e))
  <2>1. IsFiniteSet(1..1) /\ IsFiniteSet(1..2)
    <3>1. \A n \in Int : IsFiniteSet(1..n)
      BY FS_Interval
    <3>2. 1 \in Int /\ 2 \in Int
      OBVIOUS
    <3> QED BY <3>1, <3>2, Zenon
  <2>2. IsFiniteSet({e.a})
    BY FS_Singleton
  <2>3. IsFiniteSet({e.a, e.b})
    <3>1. {e.a, e.b} = {e.a} \cup {e.b}
      OBVIOUS
    <3>2. IsFiniteSet({e.b})
      BY FS_Singleton
    <3> QED BY <2>2, <3>1, <3>2, FS_Union
  <2> QED BY <1>2, <2>1, <2>2, <2>3
<1> DEFINE l == AtomVal(e.a, stray)
           r == IF e.op = "one" THEN l ELSE AtomVal(e.b, stray)
           Lost(a) == a.k \in {"fwd", "bwd"} /\ LocalLabels(a, stray) = {}
           A == {i \in DOMAIN Operands(e) : Lost(Operands(e)[i])}
           B == {a \in Atoms(e) : a.k = "sym" /\ Undefined(a.s)}
           c == CountIf(\/ e.op = "+" /\ Rel(l) /\ Rel(r)
                        \/ e.op = "-" /\ BadMinus(l, r))
           d == CountIf(Overflow(EvalExpr(e, stray)))
<1>4. Cardinality(A) \in Nat
  <2>1. A \subseteq DOMAIN Operands(e)
    OBVIOUS
  <2> HIDE DEF A
  <2> QED BY <1>3, <2>1, CountNat
<1>5. Cardinality(B) \in Nat
  <2>1. B \subseteq Atoms(e)
    OBVIOUS
  <2> HIDE DEF B
  <2> QED BY <1>3, <2>1, CountNat
<1>6. c \in Nat /\ d \in Nat
  BY DEF CountIf
<1>7. ExprErrors(e, stray) = Cardinality(A) + Cardinality(B) + c + d
  BY Zenon DEF ExprErrors
<1> HIDE DEF A, B, c, d
<1> QED BY <1>4, <1>5, <1>6, <1>7

LEMMA MoreErrors ==
  ASSUME NEW items \in Seq(Item), NEW stray, NEW more \in Nat
  PROVE  ItemErrors(items, stray, more) \in Nat
<1> DEFINE P == {n \in Nat : \A s \in Seq(Item) : Len(s) = n => ItemErrors(s, stray, more) \in Nat}
<1>1. 0 \in P
  BY ErrNone
<1>2. ASSUME NEW n \in P PROVE n + 1 \in P
  <2>1. ASSUME NEW t \in Seq(Item), Len(t) = n + 1 PROVE ItemErrors(t, stray, more) \in Nat
    <3>1. PICK s \in Seq(Item) : Len(s) = n /\ (\A i \in 1..n : s[i] = t[i]) /\ t[n + 1] \in Item
      BY <2>1, Shorter
    <3>2. PICK k : k = ItemErrors(s, stray, more)
      OBVIOUS
    <3>3. k \in Nat /\ Len(s) \in Nat /\ Len(t) = Len(s) + 1 /\ \A i \in 1..Len(s) : s[i] = t[i]
      BY <2>1, <3>1, <3>2
    <3>4. PICK f : f = t[n + 1]
      OBVIOUS
    <3>5. ItemErrors(t, stray, more)
            = IF f.w = 0 THEN k ELSE k + ExprErrors(f.e, stray) + CountIf(TooWide(Field(f, stray)))
      <4>1. ItemErrors(t, stray, more)
              = IF t[Len(s) + 1].w = 0 THEN ItemErrors(s, stray, more)
                ELSE ItemErrors(s, stray, more) + ExprErrors(t[Len(s) + 1].e, stray)
                       + CountIf(TooWide(Field(t[Len(s) + 1], stray)))
        <5> HIDE DEF P
        <5> QED BY <3>3, ErrOne
      <4>2. t[Len(s) + 1] = f
        BY <3>1, <3>4
      <4> QED BY <3>2, <4>1, <4>2, Zenon
    <3>6. f.w # 0 => ExprErrors(f.e, stray) \in Nat
      BY <3>1, <3>4, ItemShape, ErrorsNat
    <3>7. PICK x : x = ExprErrors(f.e, stray)
      OBVIOUS
    <3>8. PICK y : y = CountIf(TooWide(Field(f, stray)))
      OBVIOUS
    <3>9. y \in Nat
      BY <3>8 DEF CountIf
    <3> HIDE DEF P
    <3> QED BY <3>3, <3>5, <3>6, <3>7, <3>8, <3>9
  <2> QED BY <2>1
<1> HIDE DEF P
<1>3. Nat \subseteq P
  BY <1>1, <1>2, Induct
<1>4. Len(items) \in Nat
  OBVIOUS
<1> QED BY <1>3, <1>4 DEF P

\* Names that are mentioned: what else is said of a symbol stays.
LEMMA MentionedShape ==
  ASSUME NEW table \in [Syms -> SymRec], NEW names, phase \in 0..2
  PROVE  /\ Mentioned(table, names) \in [Syms -> SymRec]
         /\ \A s \in Syms : /\ Mentioned(table, names)[s].val = table[s].val
                            /\ Mentioned(table, names)[s].psect = table[s].psect
                            /\ Mentioned(table, names)[s].ext = table[s].ext
                            /\ Mentioned(table, names)[s].undef = table[s].undef
                            /\ Mentioned(table, names)[s].multi = table[s].multi
<1> DEFINE new(s) == IF s \in names THEN [table[s] EXCEPT !.known = TRUE,
                                                   !.glob = @ \/ (phase = 2 /\ table[s].undef)]
                     ELSE table[s]
<1>1. Mentioned(table, names) = [s \in Syms |-> new(s)]
  BY DEF Mentioned
<1>2. ASSUME NEW s \in Syms
      PROVE  /\ new(s) \in SymRec
             /\ new(s).val = table[s].val /\ new(s).psect = table[s].psect /\ new(s).ext = table[s].ext
             /\ new(s).undef = table[s].undef /\ new(s).multi = table[s].multi
  <2>1. PICK r : r = table[s]
    OBVIOUS
  <2>2. r \in SymRec
    BY <2>1
  <2>3. PICK g : g = (r.glob \/ (phase = 2 /\ r.undef))
    OBVIOUS
  <2>4. g \in BOOLEAN
    BY <2>3
  <2>5. new(s) = IF s \in names THEN [r EXCEPT !.known = TRUE, !.glob = g] ELSE r
    BY <2>1, <2>3
  <2> HIDE DEF new
  <2>6. CASE s \in names
    <3>1. new(s) = [r EXCEPT !.known = TRUE, !.glob = g]
      BY <2>5, <2>6
    <3> QED BY <2>1, <2>2, <2>4, <3>1 DEF SymRec
  <2>7. CASE s \notin names
    BY <2>1, <2>2, <2>5, <2>7
  <2> QED BY <2>6, <2>7
<1> HIDE DEF new
<1>3. \A s \in Syms : Mentioned(table, names)[s] = new(s)
  BY <1>1
<1>4. Mentioned(table, names) \in [Syms -> SymRec]
  BY <1>1, <1>2
<1> QED BY <1>2, <1>3, <1>4

\* Defining a label makes an entry known, and defined if it is the first pass.
LEMMA DefinedShape ==
  ASSUME NEW table \in [Syms -> SymRec], NEW s \in Syms
  PROVE  /\ Defined(table, s) \in [Syms -> SymRec]
         /\ \A r \in Syms : /\ Defined(table, s)[r].val = table[r].val
                            /\ Defined(table, s)[r].psect = table[r].psect
                            /\ Defined(table, s)[r].ext = table[r].ext
                            /\ (phase # 0 \/ r # s =>
                                  /\ Defined(table, s)[r].undef = table[r].undef
                                  /\ Defined(table, s)[r].multi = table[r].multi)
         /\ phase = 0 => /\ Defined(table, s)[s].undef = FALSE
                         /\ Defined(table, s)[s].multi = (table[s].multi \/ ~table[s].undef)
<1>1. PICK r : r = table[s]
  OBVIOUS
<1>2. r \in SymRec
  BY <1>1
<1>3. PICK a : a = [r EXCEPT !.known = TRUE]
  OBVIOUS
<1>4. PICK m : m = (r.multi \/ ~r.undef)
  OBVIOUS
<1>5. m \in BOOLEAN
  BY <1>4
<1>6. PICK b : b = [r EXCEPT !.known = TRUE, !.multi = m, !.undef = FALSE]
  OBVIOUS
<1>7. /\ a \in SymRec /\ a.val = r.val /\ a.psect = r.psect /\ a.ext = r.ext
      /\ a.undef = r.undef /\ a.multi = r.multi
  BY <1>2, <1>3 DEF SymRec
<1>8. /\ b \in SymRec /\ b.val = r.val /\ b.psect = r.psect /\ b.ext = r.ext
      /\ b.undef = FALSE /\ b.multi = m
  BY <1>2, <1>5, <1>6 DEF SymRec
<1>9. CASE phase # 0
  <2>1. Defined(table, s) = [table EXCEPT ![s] = a]
    BY <1>1, <1>3, <1>9 DEF Defined
  <2> QED BY <1>1, <1>7, <1>9, <2>1
<1>10. CASE phase = 0
  <2>1. Defined(table, s) = [table EXCEPT ![s] = b]
    <3>1. Defined(table, s) = [table EXCEPT ![s].known = TRUE, ![s].multi = @ \/ ~table[s].undef, ![s].undef = FALSE]
      BY <1>10 DEF Defined
    <3> QED BY <1>1, <1>4, <1>6, <3>1
  <2> QED BY <1>1, <1>4, <1>8, <1>10, <2>1
<1> QED BY <1>9, <1>10

\* What is skipped ends at a statement.
SkipRec == [nest : Int, at : Lines \cup {ip}, n : Nat]
LEMMA SkipShape ==
  ASSUME NEW items \in Seq(Lines)
  PROVE  Skip(items) \in SkipRec
<1> DEFINE P == {n \in Nat : \A s \in Seq(Lines) : Len(s) = n => Skip(s) \in SkipRec}
<1>1. 0 \in P
  <2>1. [nest |-> 1, at |-> ip, n |-> 0] \in SkipRec
    BY DEF SkipRec
  <2> QED BY <2>1, SkipNone
<1>2. ASSUME NEW n \in P PROVE n + 1 \in P
  <2>1. ASSUME NEW t \in Seq(Lines), Len(t) = n + 1 PROVE Skip(t) \in SkipRec
    <3>1. PICK s \in Seq(Lines) : Len(s) = n /\ (\A i \in 1..n : s[i] = t[i]) /\ t[n + 1] \in Lines
      BY <2>1, Shorter
    <3>2. PICK c : c = Skip(s)
      OBVIOUS
    <3>3. c \in SkipRec /\ Len(s) \in Nat /\ Len(t) = Len(s) + 1 /\ \A i \in 1..Len(s) : s[i] = t[i]
      BY <2>1, <3>1, <3>2
    <3>4. Skip(t) = PastStatement(c, t[n + 1])
      <4>1. Skip(t) = PastStatement(Skip(s), t[Len(s) + 1])
        <5> HIDE DEF P
        <5> QED BY <3>3, SkipOne
      <4> QED BY <3>1, <3>2, <4>1
    <3>5. \A i \in Lines : PastStatement(c, i) \in SkipRec
      <4> SUFFICES ASSUME NEW i \in Lines PROVE PastStatement(c, i) \in SkipRec
        OBVIOUS
      <4>1. PICK x : x = CASE prog.text[i].t = "cond" -> c.nest + 1
                           [] prog.text[i].t = "endc" -> c.nest - 1
                           [] OTHER -> c.nest
        OBVIOUS
      <4>2. c.nest \in Int /\ c.n + 1 \in Nat
        BY <3>3 DEF SkipRec
      <4>3. x \in Int
        BY <4>1, <4>2
      <4>4. PastStatement(c, i) = IF c.nest = 0 THEN c ELSE [nest |-> x, at |-> i, n |-> c.n + 1]
        BY <4>1 DEF PastStatement
      <4> HIDE DEF Lines
      <4> QED BY <3>3, <4>2, <4>3, <4>4 DEF SkipRec
    <3> QED BY <3>1, <3>4, <3>5
  <2> QED BY <2>1
<1> HIDE DEF P
<1>3. Nat \subseteq P
  BY <1>1, <1>2, Induct
<1>4. Len(items) \in Nat
  OBVIOUS
<1> QED BY <1>3, <1>4 DEF P

LEMMA SkippedShape ==
  ASSUME PassOK
  PROVE  Skipped \in SkipRec
<1>1. Len(prog.text) \in Nat /\ Lines = 1..Len(prog.text) /\ ip \in Nat
  BY ProgramShape
<1> DEFINE l == Len(prog.text)
           a == [i \in 1..(l - ip) |-> ip + i]
           b == IF nInput = 0 THEN [i \in Lines |-> i] ELSE <<>>
<1>2. a \in Seq(Lines)
  <2> HIDE DEF l, Lines
  <2>1. l \in Nat /\ Lines = 1..l
    BY <1>1 DEF l
  <2>2. \A i \in 1..(l - ip) : ip + i \in Lines
    BY <1>1, <2>1
  <2>3. CASE l - ip >= 0
    <3>1. l - ip \in Nat
      BY <1>1, <2>1, <2>3
    <3> QED BY <2>2, <3>1
  <2>4. CASE ~(l - ip >= 0)
    <3>1. 1..(l - ip) = 1..0
      BY <1>1, <2>1, <2>4
    <3>2. PICK n \in Nat : n = 0
      OBVIOUS
    <3>3. a = [i \in 1..n |-> ip + i]
      BY <3>1, <3>2
    <3>4. \A i \in 1..n : ip + i \in Lines
      BY <3>2
    <3>5. PICK x : x = [i \in 1..n |-> ip + i]
      OBVIOUS
    <3>6. x \in Seq(Lines)
      BY <3>4, <3>5
    <3> QED BY <3>3, <3>5, <3>6
  <2> QED BY <2>3, <2>4
<1>3. b \in Seq(Lines)
  <2> HIDE DEF l, Lines
  <2>1. l \in Nat /\ Lines = 1..l
    BY <1>1 DEF l
  <2>2. <<>> \in Seq(Lines)
    OBVIOUS
  <2>3. [i \in Lines |-> i] \in Seq(Lines)
    <3>1. [i \in 1..l |-> i] \in Seq(1..l)
      BY <2>1
    <3> QED BY <2>1, <3>1
  <2> QED BY <2>2, <2>3
<1>4. Unread = a \o b
  BY DEF Unread
<1> HIDE DEF a, b, Lines
<1>5. a \o b \in Seq(Lines)
  BY <1>2, <1>3, Concat
<1> QED BY <1>4, <1>5, SkipShape DEF Skipped

-----------------------------------------------------------------------------
(* The records and the trace *)

LEMMA CellPlace ==
  ASSUME NEW f \in Fields, NEW p \in Bases, NEW at \in Nat
  PROVE  \A j \in 1..Len(Cells(f, p, at)) :
           Cells(f, p, at)[j].psect = p /\ Cells(f, p, at)[j].at = at + j - 1
<1>1. f.w \in 0..2
  BY FieldShape
<1>2. PICK d : d = Cells(f, p, at)
  OBVIOUS
<1>3. CASE f.w \in {0, 1}
  <2>1. PICK x : x = IF f.w = 0 THEN f.x ELSE [k |-> "b", x |-> f.v.val % (2 * Reach)]
    OBVIOUS
  <2>2. PICK r : r = IF f.w = 0 THEN None ELSE RelocOf(f.v, 1)
    OBVIOUS
  <2>3. d = <<[psect |-> p, at |-> at, x |-> x, rel |-> r]>>
    BY <1>2, <1>3, <2>1, <2>2 DEF Cells
  <2>4. Len(d) = 1 /\ d[1].psect = p /\ d[1].at = at
    BY <2>3
  <2>5. \A j \in 1..Len(d) : j = 1
    BY <2>4
  <2>6. at = at + 1 - 1
    OBVIOUS
  <2> QED BY <1>2, <2>4, <2>5, <2>6
<1>4. CASE f.w = 2
  <2>1. PICK x : x = [k |-> "lo", x |-> f.v.val % (2 * Half)]
    OBVIOUS
  <2>2. PICK y : y = [k |-> "hi", x |-> f.v.val % (2 * Half)]
    OBVIOUS
  <2>3. d = <<[psect |-> p, at |-> at, x |-> x, rel |-> RelocOf(f.v, 2)],
              [psect |-> p, at |-> at + 1, x |-> y, rel |-> None]>>
    BY <1>2, <1>4, <2>1, <2>2 DEF Cells
  <2>4. Len(d) = 2 /\ d[1].psect = p /\ d[1].at = at /\ d[2].psect = p /\ d[2].at = at + 1
    BY <2>3
  <2>5. \A j \in 1..Len(d) : j = 1 \/ j = 2
    BY <2>4
  <2>6. at = at + 1 - 1 /\ at + 1 = at + 2 - 1
    OBVIOUS
  <2> QED BY <1>2, <2>4, <2>5, <2>6
<1> QED BY <1>1, <1>3, <1>4

\* Where the cells of a line stand: one after another from where it begins.
LEMMA CellPlaces ==
  ASSUME NEW p \in Bases, NEW at \in Nat, NEW fields \in Seq(Fields)
  PROVE  \A j \in 1..Len(CellsOf(p, at, fields)) :
           CellsOf(p, at, fields)[j].psect = p /\ CellsOf(p, at, fields)[j].at = at + j - 1
<1> DEFINE Q(c) == \A j \in 1..Len(c) : c[j].psect = p /\ c[j].at = at + j - 1
           P == {n \in Nat : \A s \in Seq(Fields) : Len(s) = n => Q(CellsOf(p, at, s))}
<1>1. 0 \in P
  <2>1. Q(<<>>)
    OBVIOUS
  <2> HIDE DEF Q
  <2> QED BY <2>1, CellNone
<1>2. ASSUME NEW n \in P PROVE n + 1 \in P
  <2>1. ASSUME NEW t \in Seq(Fields), Len(t) = n + 1 PROVE Q(CellsOf(p, at, t))
    <3>1. PICK s \in Seq(Fields) : Len(s) = n /\ (\A i \in 1..n : s[i] = t[i]) /\ t[n + 1] \in Fields
      BY <2>1, Shorter
    <3>2. PICK c : c = CellsOf(p, at, s)
      OBVIOUS
    <3>3. Q(c) /\ c \in Seq(CellSet) /\ Len(c) \in Nat
      <4>1. Q(c)
        <5> HIDE DEF Q
        <5> QED BY <3>1, <3>2
      <4> HIDE DEF Q
      <4> QED BY <3>1, <3>2, <4>1, CellsOfShape
    <3>4. PICK l \in Nat : l = Len(c)
      BY <3>3
    <3>5. PICK f : f = t[n + 1]
      OBVIOUS
    <3>6. PICK d : d = Cells(f, p, at + l)
      OBVIOUS
    <3>7. at + l \in Nat /\ f \in Fields
      BY <3>1, <3>5
    <3>8. d \in Seq(CellSet) /\ Len(d) \in {1, 2}
      BY <3>6, <3>7, CellsShape, FieldShape
    <3>9. CellsOf(p, at, t) = c \o d
      <4>1. Len(s) \in Nat /\ Len(t) = Len(s) + 1 /\ \A i \in 1..Len(s) : s[i] = t[i]
        BY <2>1, <3>1
      <4>2. CellsOf(p, at, t) = WithCells(CellsOf(p, at, s), t[Len(s) + 1], p, at)
        <5> HIDE DEF P, Q
        <5> QED BY <4>1, CellOne
      <4> QED BY <3>1, <3>2, <3>4, <3>5, <3>6, <4>2, Zenon DEF WithCells
    <3>10. \A j \in 1..Len(d) : d[j].psect = p /\ d[j].at = at + l + j - 1
      <4> HIDE DEF P, Q
      <4> QED BY <3>6, <3>7, CellPlace
    <3>11. PICK e : e = c \o d
      OBVIOUS
    <3>12. /\ Len(e) = l + Len(d)
           /\ \A j \in 1..(l + Len(d)) : e[j] = IF j <= l THEN c[j] ELSE d[j - l]
      <4> HIDE DEF Q
      <4> QED BY <3>3, <3>4, <3>8, <3>11, Concat
    <3>13. Q(e)
      <4> SUFFICES ASSUME NEW j \in 1..Len(e) PROVE e[j].psect = p /\ e[j].at = at + j - 1
        OBVIOUS
      <4>1. PICK k : k = Len(d)
        OBVIOUS
      <4>2. j \in 1..(l + k) /\ k \in {1, 2} /\ j \in Nat
        BY <3>8, <3>12, <4>1
      <4>3. CASE j <= l
        <5>1. e[j] = c[j] /\ j \in 1..Len(c)
          BY <3>4, <3>12, <4>1, <4>2, <4>3
        <5> QED BY <3>3, <5>1
      <4>4. CASE ~(j <= l)
        <5>1. e[j] = d[j - l]
          BY <3>12, <4>1, <4>2, <4>4
        <5>2. j - l \in 1..k
          BY <4>2, <4>4
        <5>3. at + l + (j - l) - 1 = at + j - 1
          BY <4>2
        <5> QED BY <3>10, <4>1, <5>1, <5>2, <5>3
      <4> QED BY <4>3, <4>4
    <3> HIDE DEF Q
    <3> QED BY <3>9, <3>11, <3>13
  <2> HIDE DEF Q
  <2> QED BY <2>1
<1> HIDE DEF P, Q
<1>3. Nat \subseteq P
  BY <1>1, <1>2, Induct
<1>4. Len(fields) \in Nat
  OBVIOUS
<1>5. Q(CellsOf(p, at, fields))
  BY <1>3, <1>4 DEF P
<1> QED BY <1>5 DEF Q

\* What the visits emit, taken together.
LEMMA CellsInShape == ASSUME NEW visits \in Seq(Visits) PROVE CellsIn(visits) \in Seq(CellSet)
<1> DEFINE P == {n \in Nat : \A s \in Seq(Visits) : Len(s) = n => CellsIn(s) \in Seq(CellSet)}
<1>1. 0 \in P
  <2>1. <<>> \in Seq(CellSet)
    OBVIOUS
  <2> QED BY <2>1, SeenNone
<1>2. ASSUME NEW n \in P PROVE n + 1 \in P
  <2>1. ASSUME NEW t \in Seq(Visits), Len(t) = n + 1 PROVE CellsIn(t) \in Seq(CellSet)
    <3>1. PICK s \in Seq(Visits) : Len(s) = n /\ (\A i \in 1..n : s[i] = t[i]) /\ t[n + 1] \in Visits
      BY <2>1, Shorter
    <3>2. PICK r \in Visits : r = t[n + 1]
      BY <3>1
    <3>3. PICK c : c = CellsIn(s)
      OBVIOUS
    <3>4. c \in Seq(CellSet) /\ Len(s) \in Nat /\ Len(t) = Len(s) + 1 /\ \A i \in 1..Len(s) : s[i] = t[i]
      BY <2>1, <3>1, <3>3
    <3>5. PICK d : d = CellsOf(r.psect, r.at, r.fields)
      OBVIOUS
    <3>6. d \in Seq(CellSet)
      <4>1. r.psect \in Bases /\ r.at \in Nat /\ r.fields \in Seq(Fields)
        BY DEF Visits
      <4> QED BY <3>5, <4>1, CellsOfShape
    <3>7. CellsIn(t) = c \o d
      <4>1. CellsIn(t) = WithVisit(CellsIn(s), t[Len(s) + 1])
        <5> HIDE DEF P
        <5> QED BY <3>4, SeenOne
      <4> QED BY <3>1, <3>2, <3>3, <3>5, <4>1, Zenon DEF WithVisit
    <3> QED BY <3>4, <3>6, <3>7, Concat
  <2> QED BY <2>1
<1> HIDE DEF P
<1>3. Nat \subseteq P
  BY <1>1, <1>2, Induct
<1>4. Len(visits) \in Nat
  OBVIOUS
<1> QED BY <1>3, <1>4 DEF P

LEMMA SeenAppend ==
  ASSUME NEW s \in Seq(Visits), NEW r \in Visits
  PROVE  /\ Append(s, r) \in Seq(Visits)
         /\ CellsIn(Append(s, r)) = CellsIn(s) \o CellsOf(r.psect, r.at, r.fields)
<1>1. PICK t : t = Append(s, r)
  OBVIOUS
<1>2. t \in Seq(Visits) /\ Len(t) = Len(s) + 1 /\ Len(s) \in Nat
      /\ \A j \in 1..(Len(s) + 1) : t[j] = IF j <= Len(s) THEN s[j] ELSE r
  BY <1>1, AppendOne
<1>3. PICK n : n = Len(s)
  OBVIOUS
<1>4. (\A j \in 1..n : s[j] = t[j]) /\ t[n + 1] = r
  BY <1>2, <1>3
<1>5. CellsIn(t) = WithVisit(CellsIn(s), t[Len(s) + 1])
  BY <1>2, <1>3, <1>4, SeenOne
<1> QED BY <1>1, <1>2, <1>3, <1>4, <1>5, Zenon DEF WithVisit

Now == [buf |-> buf, obj |-> obj, at |-> Here]
RecordOK ==
  /\ trace \in Seq(Visits) /\ BufOK(buf)
  /\ phase < 2 => obj = <<>> /\ trace = <<>> /\ buf = Fresh(Abs, 0)
  /\ phase = 2 /\ pc # "done" => Good(Now) /\ Put(Now) = Emitted
  /\ pc = "done" => Read(obj) = Emitted

LEMMA NowIs == Now.buf = buf /\ Now.obj = obj /\ Now.at = Here /\ Base(Now) = ReadAll(obj)
BY DEF Now, Base

LEMMA NowShaped == ASSUME PlaceOK, RecordOK PROVE Shaped(Now)
<1>1. Now = [buf |-> Now.buf, obj |-> Now.obj, at |-> Now.at]
  BY DEF Now
<1>2. buf \in Bufs
  BY DEF RecordOK, BufOK
<1> QED BY <1>1, <1>2, NowIs, HereNat, BufShape DEF Shaped

\* A statement is visited.
LEMMA VisitStep ==
  ASSUME PassOK, PlaceOK, RecordOK, NEW fields \in Seq(Fields), Visit(fields)
  PROVE  /\ trace' \in Seq(Visits)
         /\ phase = 2 =>
              /\ trace' = Append(trace, [ip |-> ip, psect |-> curPsect, at |-> Here, fields |-> fields])
              /\ Emitted' = Emitted \o CellsOf(curPsect, Here, fields)
              /\ [ip |-> ip, psect |-> curPsect, at |-> Here, fields |-> fields] \in Visits
         /\ phase # 2 => trace' = trace
<1> DEFINE r == [ip |-> ip, psect |-> curPsect, at |-> Here, fields |-> fields]
<1>1. Here \in Nat /\ curPsect \in Bases /\ ip \in Nat /\ trace \in Seq(Visits)
  BY HereNat, ProgramShape DEF RecordOK
<1>2. CASE phase = 2
  <2>1. trace' = Append(trace, r)
    BY <1>2 DEF Visit
  <2> HIDE DEF Here
  <2>2. r \in Visits
    BY <1>1 DEF Visits
  <2>3. r.psect = curPsect /\ r.at = Here /\ r.fields = fields
    OBVIOUS
  <2> HIDE DEF r
  <2>4. trace' \in Seq(Visits) /\ CellsIn(trace') = CellsIn(trace) \o CellsOf(r.psect, r.at, r.fields)
    BY <1>1, <2>1, <2>2, SeenAppend
  <2>5. Emitted' = CellsIn(trace')
    BY DEF Emitted
  <2>6. CellsIn(trace) = Emitted
    BY DEF Emitted
  <2>7. phase = 2 => trace' = Append(trace, r) /\ r \in Visits
    BY <2>1, <2>2
  <2>8. Emitted' = Emitted \o CellsOf(curPsect, Here, fields)
    BY <2>3, <2>4, <2>5, <2>6, Zenon
  <2> QED BY <1>2, <2>4, <2>7, <2>8 DEF r
<1>3. CASE phase # 2
  BY <1>1, <1>3 DEF Visit
<1> QED BY <1>2, <1>3

-----------------------------------------------------------------------------
(* Where psects end *)

\* cells of psect p end at l or before, and one does if size z says no less than l
EndsIn(cells, p, l, z) ==
  /\ \A j \in 1..Len(cells) : cells[j].psect = p => cells[j].at + 1 <= l
  /\ z <= l
  /\ z = l => l = 0 \/ \E j \in 1..Len(cells) : cells[j].psect = p /\ cells[j].at + 1 = l

ExtentOK ==
  /\ phase < 2 => \A p \in Bases : size[p] = 0
  /\ phase = 2 /\ pc # "done" => \A p \in Psects : EndsIn(Emitted, p, loc[p], size[p])
  /\ pc = "done" => \A p \in entered \ {Abs} : loc[p] = CHOOSE m \in Ends(p) : \A n \in Ends(p) : n <= m

LEMMA CellAt == ASSUME NEW cells \in Seq(CellSet) PROVE \A j \in 1..Len(cells) : cells[j].at \in Nat
<1>1. \A j \in 1..Len(cells) : cells[j] \in CellSet
  OBVIOUS
<1>2. \A c \in CellSet : c.at \in Nat
  BY DEF CellSet
<1> QED BY <1>1, <1>2

LEMMA EndsGrow ==
  ASSUME NEW cells \in Seq(CellSet), NEW p, NEW l \in Nat, NEW z \in Int, EndsIn(cells, p, l, z),
         NEW m \in Nat, l <= m
  PROVE  EndsIn(cells, p, m, z)
<1>1. \A j \in 1..Len(cells) : cells[j].at \in Nat
  BY CellAt
<1>2. z <= l
  BY DEF EndsIn
<1>3. CASE m = l
  BY <1>3
<1>4. CASE m # l
  <2>1. z <= m /\ z # m
    BY <1>2, <1>4
  <2>2. ASSUME NEW j \in 1..Len(cells), cells[j].psect = p PROVE cells[j].at + 1 <= m
    <3>1. cells[j].at + 1 <= l /\ cells[j].at \in Nat
      BY <1>1, <2>2 DEF EndsIn
    <3> QED BY <3>1
  <2> QED BY <2>1, <2>2 DEF EndsIn
<1> QED BY <1>3, <1>4

LEMMA SignedLow == ASSUME NEW x \in Nat PROVE Signed(x) \in Int /\ Signed(x) <= x
<1>1. PICK n \in Nat \ {0} : n = 2 * Half
  BY Sizes
<1>2. Half \in Nat
  BY Sizes
<1>3. (x + Half) % n <= x + Half /\ (x + Half) % n \in Int
  <2>1. PICK y \in Nat : y = x + Half
    BY <1>2
  <2>2. y % n <= y /\ y % n \in Int
    BY <1>1, <2>1
  <2> QED BY <2>1, <2>2
<1>4. PICK y \in Int : y = (x + Half) % n
  BY <1>3
<1>5. y - Half <= x /\ y - Half \in Int
  BY <1>2, <1>3, <1>4
<1> QED BY <1>1, <1>4, <1>5 DEF Signed

LEMMA EndsEmit ==
  ASSUME NEW cells \in Seq(CellSet), NEW p \in Bases, NEW l \in Nat, NEW z \in Int, EndsIn(cells, p, l, z),
         NEW fields \in Seq(Fields), NEW c, c = CellsOf(p, l, fields)
  PROVE  EndsIn(cells \o c, p, l + Len(c),
                IF fields # <<>> /\ z < l + Len(c) THEN Signed(l + Len(c)) ELSE z)
<1>1. PICK k \in Nat : k = Len(c) /\ k >= Len(fields) /\ c \in Seq(CellSet)
  BY CellsOfShape
<1>2. \A j \in 1..k : c[j].psect = p /\ c[j].at = l + j - 1
  BY <1>1, CellPlaces
<1>3. PICK n \in Nat : n = Len(cells)
  OBVIOUS
<1>4. PICK e : e = cells \o c
  OBVIOUS
<1>5. Len(e) = n + k /\ \A j \in 1..(n + k) : e[j] = IF j <= n THEN cells[j] ELSE c[j - n]
  BY <1>1, <1>3, <1>4, Concat
<1>6. \A j \in 1..n : cells[j].at \in Nat
  BY <1>3, CellAt
<1>7. PICK y : y = IF fields # <<>> /\ z < l + k THEN Signed(l + k) ELSE z
  OBVIOUS
<1>8. Signed(l + k) \in Int /\ Signed(l + k) <= l + k
  BY SignedLow
<1>9. z <= l
  BY DEF EndsIn
<1>10. y \in Int /\ y <= l + k
  BY <1>7, <1>8, <1>9
<1>11. ASSUME NEW j \in 1..(n + k), e[j].psect = p PROVE e[j].at + 1 <= l + k
  <2>1. CASE j <= n
    <3>1. j \in 1..n /\ e[j] = cells[j]
      BY <1>5, <2>1
    <3>2. cells[j].at + 1 <= l /\ cells[j].at \in Nat
      BY <1>3, <1>6, <1>11, <3>1 DEF EndsIn
    <3> QED BY <3>1, <3>2
  <2>2. CASE ~(j <= n)
    <3>1. j - n \in 1..k /\ e[j] = c[j - n]
      BY <1>5, <2>2
    <3>2. e[j].at = l + (j - n) - 1
      BY <1>2, <3>1
    <3> QED BY <3>1, <3>2
  <2> QED BY <2>1, <2>2
<1>12. ASSUME y = l + k, l + k # 0
       PROVE  \E j \in 1..(n + k) : e[j].psect = p /\ e[j].at + 1 = l + k
  <2>1. CASE k > 0
    <3>1. n + k \in 1..(n + k) /\ ~(n + k <= n) /\ (n + k) - n = k /\ k \in 1..k
      BY <2>1
    <3>2. e[n + k] = c[k]
      BY <1>5, <3>1
    <3>3. e[n + k].psect = p /\ e[n + k].at = l + k - 1
      BY <1>2, <3>1, <3>2
    <3>4. e[n + k].at + 1 = l + k
      BY <3>3
    <3> QED BY <3>1, <3>3, <3>4
  <2>2. CASE k = 0
    <3>1. fields = <<>>
      <4>1. Len(fields) = 0
        BY <1>1, <2>2
      <4> QED BY <4>1
    <3>2. z = l
      BY <1>7, <1>12, <2>2, <3>1
    <3>3. l # 0
      BY <1>12, <2>2
    <3>4. PICK j \in 1..n : cells[j].psect = p /\ cells[j].at + 1 = l
      BY <1>3, <3>2, <3>3 DEF EndsIn
    <3>5. j \in 1..(n + k) /\ e[j] = cells[j]
      BY <1>5, <2>2
    <3>6. l + k = l
      BY <2>2
    <3> QED BY <3>4, <3>5, <3>6
  <2> QED BY <2>1, <2>2
<1>13. EndsIn(e, p, l + k, y)
  BY <1>5, <1>10, <1>11, <1>12 DEF EndsIn
<1> QED BY <1>1, <1>4, <1>7, <1>13

LEMMA EndsOther ==
  ASSUME NEW cells \in Seq(CellSet), NEW p, NEW l \in Nat, NEW z \in Int, EndsIn(cells, p, l, z),
         NEW q \in Bases, q # p, NEW at \in Nat, NEW fields \in Seq(Fields)
  PROVE  EndsIn(cells \o CellsOf(q, at, fields), p, l, z)
<1>0. PICK c : c = CellsOf(q, at, fields)
  OBVIOUS
<1>1. PICK k \in Nat : k = Len(c) /\ c \in Seq(CellSet)
  BY <1>0, CellsOfShape
<1>2. \A j \in 1..k : c[j].psect = q
  BY <1>0, <1>1, CellPlaces
<1>3. PICK n \in Nat : n = Len(cells)
  OBVIOUS
<1>4. PICK e : e = cells \o c
  OBVIOUS
<1>5. Len(e) = n + k /\ \A j \in 1..(n + k) : e[j] = IF j <= n THEN cells[j] ELSE c[j - n]
  BY <1>1, <1>3, <1>4, Concat
<1>6. ASSUME NEW j \in 1..(n + k), e[j].psect = p PROVE j \in 1..n /\ e[j] = cells[j]
  <2>1. CASE j <= n
    BY <1>5, <2>1
  <2>2. CASE ~(j <= n)
    <3>1. j - n \in 1..k /\ e[j] = c[j - n]
      BY <1>5, <2>2
    <3> QED BY <1>2, <1>6, <3>1
  <2> QED BY <2>1, <2>2
<1>7. \A j \in 1..n : j \in 1..(n + k) /\ e[j] = cells[j]
  BY <1>5
<1>8. EndsIn(e, p, l, z)
  <2>1. \A j \in 1..(n + k) : e[j].psect = p => e[j].at + 1 <= l
    BY <1>3, <1>6 DEF EndsIn
  <2>2. z = l => l = 0 \/ \E j \in 1..(n + k) : e[j].psect = p /\ e[j].at + 1 = l
    BY <1>3, <1>7 DEF EndsIn
  <2>3. z <= l
    BY DEF EndsIn
  <2> QED BY <1>5, <2>1, <2>2, <2>3 DEF EndsIn
<1> QED BY <1>0, <1>4, <1>8

-----------------------------------------------------------------------------
(* What statements do to the records *)

\* A statement puts its fields.
LEMMA EmitStep ==
  ASSUME PassOK, PlaceOK, RecordOK, ExtentOK, pc = "pass", pc' # "done", UNCHANGED <<curPsect, entered, phase>>,
         NEW fields \in Seq(Fields), Emit(fields)
  PROVE  PlaceOK' /\ RecordOK' /\ ExtentOK'
<1> DEFINE o == AddAll([buf |-> buf, obj |-> obj, at |-> Here], fields)
<1>1. PICK q : q = AddAll(Now, fields)
  OBVIOUS
<1>2. PICK c : c = CellsOf(curPsect, Here, fields)
  OBVIOUS
<1>3. curPsect \in Bases /\ Here \in Nat /\ c \in Seq(CellSet) /\ Len(c) \in Nat
  <2>1. curPsect \in Bases /\ Here \in Nat
    BY HereNat
  <2> HIDE DEF Here
  <2> QED BY <1>2, <2>1, CellsOfShape
<1>4. Shaped(q) /\ q.at = Here + Len(c)
  <2>1. Shaped(Now)
    BY NowShaped
  <2> HIDE DEF Here
  <2> QED BY <1>1, <1>2, <1>3, <2>1, NowIs, AddAllAt
<1>5. /\ loc' = [loc EXCEPT ![curPsect] = q.at]
      /\ phase # 2 => UNCHANGED <<size, buf, obj>>
      /\ phase = 2 => /\ size' = [size EXCEPT ![curPsect] = IF fields # <<>> /\ @ < q.at THEN Signed(q.at) ELSE @]
                      /\ buf' = q.buf /\ obj' = q.obj
      /\ Visit(fields)
  BY <1>1, Zenon DEF Emit, Now
<1>6. PlaceOK'
  <2>1. q.at \in Nat /\ Signed(q.at) \in -Half..(Half - 1)
    BY <1>3, <1>4, SignedRange
  <2>2. loc' \in [Bases -> Nat]
    BY <1>5, <2>1 DEF PlaceOK
  <2>3. size' \in [Bases -> -Half..(Half - 1)]
    <3>1. CASE phase # 2
      BY <1>5, <3>1 DEF PlaceOK
    <3>2. CASE phase = 2
      <4>1. size \in [Bases -> -Half..(Half - 1)]
        BY DEF PlaceOK
      <4>2. PICK x : x = IF fields # <<>> /\ size[curPsect] < q.at THEN Signed(q.at) ELSE size[curPsect]
        OBVIOUS
      <4>3. size' = [size EXCEPT ![curPsect] = x]
        BY <1>5, <3>2, <4>2
      <4>4. x \in -Half..(Half - 1)
        BY <1>3, <2>1, <4>1, <4>2
      <4> QED BY <4>1, <4>3, <4>4
    <3> QED BY <3>1, <3>2
  <2> QED BY <2>2, <2>3 DEF PlaceOK
<1>7. /\ trace' \in Seq(Visits) /\ (phase = 2 => Emitted' = Emitted \o c) /\ (phase # 2 => trace' = trace)
  BY <1>2, <1>5, VisitStep
<1>8. loc'[curPsect] = q.at /\ \A p \in Bases \ {curPsect} : loc'[p] = loc[p]
  BY <1>3, <1>5 DEF PlaceOK
<1>9. phase \in 0..2 /\ phase' = phase
  BY DEF PassOK
<1>10. CASE phase # 2
  <2>1. RecordOK'
    BY <1>5, <1>7, <1>9, <1>10 DEF RecordOK
  <2>2. ExtentOK'
    BY <1>5, <1>9, <1>10 DEF ExtentOK
  <2> QED BY <1>6, <2>1, <2>2
<1>11. CASE phase = 2
  <2>1. Good(Now) /\ Put(Now) = Emitted
    BY <1>11 DEF RecordOK
  <2>2. Good(q) /\ Put(q) = Emitted \o c
    <3>1. Good(q) /\ Put(q) = Put(Now) \o CellsOf(curPsect, Now.at, fields)
      BY <1>1, <2>1, AddAllGood
    <3> QED BY <1>2, <2>1, <3>1, NowIs
  <2>3. Now' = q
    <3>1. q = [buf |-> q.buf, obj |-> q.obj, at |-> q.at]
      BY <2>2 DEF Good
    <3>2. buf' = q.buf /\ obj' = q.obj /\ loc'[curPsect'] = q.at
      BY <1>5, <1>8, <1>11
    <3> QED BY <3>1, <3>2 DEF Now, Here
  <2>4. Good(Now)'
    <3>1. Good(Now)' <=> /\ Now' = [buf |-> Now'.buf, obj |-> Now'.obj, at |-> Now'.at]
                         /\ BufOK(Now'.buf) /\ Now'.buf.psect = curPsect'
                         /\ Now'.at \in Nat /\ Now'.buf.off + Len(Now'.buf.bytes) = Now'.at
                         /\ Now'.obj \in Seq(Recs) /\ Base(Now') \in Accs
      BY DEF Good
    <3> QED BY <2>2, <2>3, <3>1 DEF Good
  <2>5. Put(Now)' = Put(q)
    BY <2>3 DEF Put
  <2>6. BufOK(buf)'
    BY <1>5, <1>11, <2>2 DEF Good
  <2>7. RecordOK'
    <3>1. (Good(Now) /\ Put(Now) = Emitted)'
      BY <1>7, <1>11, <2>2, <2>4, <2>5
    <3>2. phase' = 2
      BY <1>9, <1>11
    <3> QED BY <1>7, <2>6, <3>1, <3>2 DEF RecordOK
  <2>8. ExtentOK'
    <3>1. Emitted \in Seq(CellSet)
      BY CellsInShape DEF RecordOK, Emitted
    <3>2. ASSUME NEW p \in Psects PROVE EndsIn(Emitted', p, loc'[p], size'[p])
      <4>1. p \in Bases /\ EndsIn(Emitted, p, loc[p], size[p]) /\ loc[p] \in Nat /\ size[p] \in Int
        BY <1>11, Sizes DEF ExtentOK, Bases, PlaceOK
      <4>2. CASE p = curPsect
        <5>1. size'[p] = IF fields # <<>> /\ size[p] < Here + Len(c) THEN Signed(Here + Len(c)) ELSE size[p]
          BY <1>4, <1>5, <1>11, <4>1, <4>2 DEF PlaceOK
        <5>2. EndsIn(Emitted \o c, p, Here + Len(c),
                     IF fields # <<>> /\ size[p] < Here + Len(c) THEN Signed(Here + Len(c)) ELSE size[p])
          <6>1. EndsIn(Emitted, p, Here, size[p]) /\ c = CellsOf(p, Here, fields)
            BY <1>2, <4>1, <4>2 DEF Here
          <6> HIDE DEF Here
          <6> QED BY <1>3, <3>1, <4>1, <6>1, EndsEmit
        <5> HIDE DEF Here
        <5> QED BY <1>4, <1>7, <1>8, <1>11, <4>2, <5>1, <5>2
      <4>3. CASE p # curPsect
        <5>1. loc'[p] = loc[p] /\ size'[p] = size[p]
          BY <1>3, <1>5, <1>8, <1>11, <4>1, <4>3 DEF PlaceOK
        <5>2. EndsIn(Emitted \o c, p, loc[p], size[p])
          <6> HIDE DEF Here
          <6> QED BY <1>2, <1>3, <3>1, <4>1, <4>3, EndsOther
        <5> QED BY <1>7, <1>11, <5>1, <5>2
      <4> QED BY <4>2, <4>3
    <3>3. phase' = 2
      BY <1>9, <1>11
    <3> QED BY <3>2, <3>3 DEF ExtentOK
  <2> QED BY <1>6, <2>7, <2>8
<1> QED BY <1>10, <1>11

\* DEFS, ORG and PSECT write the record there is, and begin another where they lead to.
LEMMA NewRecordStep ==
  ASSUME PassOK, RecordOK, pc = "pass", pc' # "done", phase' = phase, trace' = trace,
         NEW p \in Bases, NEW at \in Nat, NewRecord(p, at), curPsect' = p, loc'[p] = at
  PROVE  RecordOK'
<1>1. phase \in 0..2
  BY DEF PassOK
<1>2. CASE phase # 2
  BY <1>1, <1>2 DEF RecordOK, NewRecord
<1>3. CASE phase = 2
  <2>1. Good(Now) /\ Put(Now) = Emitted
    BY <1>3 DEF RecordOK
  <2>2. BufOK(buf) /\ obj \in Seq(Recs) /\ ReadAll(obj) \in Accs
    BY <2>1, NowIs DEF Good
  <2>3. PICK f : f = obj \o Written(buf)
    OBVIOUS
  <2>4. f \in Seq(Recs) /\ ReadAll(f) = Shown(ReadAll(obj), buf) /\ ReadAll(f) \in Accs
    BY <2>2, <2>3, FileWritten
  <2>5. PICK b : b = Fresh(p, at)
    OBVIOUS
  <2>6. BufOK(b) /\ b.psect = p /\ b.off = at /\ b.bytes = <<>> /\ Len(b.bytes) = 0
    BY <2>5, FreshOK
  <2>7. obj' = f /\ buf' = b /\ Now' = [buf |-> b, obj |-> f, at |-> at]
    BY <1>3, <2>3, <2>5 DEF NewRecord, Now, Here
  <2>8. PICK q : q = Now'
    OBVIOUS
  <2>9. q.buf = b /\ q.obj = f /\ q.at = at /\ q = [buf |-> q.buf, obj |-> q.obj, at |-> q.at]
    BY <2>7, <2>8, OutIs
  <2>10. Good(Now)'
    <3>1. Good(Now)' <=> /\ q = [buf |-> q.buf, obj |-> q.obj, at |-> q.at]
                         /\ BufOK(q.buf) /\ q.buf.psect = curPsect'
                         /\ q.at \in Nat /\ q.buf.off + Len(q.buf.bytes) = q.at
                         /\ q.obj \in Seq(Recs) /\ Base(q) \in Accs
      BY <2>8 DEF Good
    <3>2. Base(q) = ReadAll(f) /\ at + 0 = at
      BY <2>9 DEF Base
    <3> QED BY <2>4, <2>6, <2>9, <3>1, <3>2
  <2>11. Put(Now)' = Put(Now)
    <3>1. Put(Now)' = Shown(ReadAll(f), b).cells
      BY <2>8, <2>9 DEF Put, Base
    <3>2. Shown(ReadAll(f), b) = ReadAll(f)
      BY <2>6 DEF Shown
    <3>3. Put(Now) = Shown(ReadAll(obj), buf).cells
      BY NowIs DEF Put
    <3> QED BY <2>4, <3>1, <3>2, <3>3
  <2>12. Emitted' = Emitted
    BY DEF Emitted
  <2>13. BufOK(buf)'
    BY <2>6, <2>7
  <2>14. phase' = 2 /\ pc' # "done" /\ trace' \in Seq(Visits)
    BY <1>3 DEF RecordOK
  <2> QED BY <2>1, <2>10, <2>11, <2>12, <2>13, <2>14 DEF RecordOK
<1> QED BY <1>2, <1>3

\* Statements that put nothing.
LEMMA RecordSame ==
  ASSUME RecordOK, UNCHANGED <<buf, obj, curPsect, loc, phase>>,
         (pc # "done" /\ pc' # "done") \/ pc' = pc,
         trace' \in Seq(Visits), Emitted' = Emitted, phase < 2 => trace' = trace
  PROVE  RecordOK'
<1>1. Now' = Now
  BY DEF Now, Here
<1>2. Good(Now)' <=> Good(Now)
  BY <1>1 DEF Good
<1>3. Put(Now)' = Put(Now)
  BY <1>1 DEF Put
<1>4. Read(obj)' = Read(obj)
  OBVIOUS
<1>5. BufOK(buf)' <=> BufOK(buf)
  OBVIOUS
<1> QED BY <1>2, <1>3, <1>4, <1>5 DEF RecordOK

\* Psects only grow where nothing is put.
LEMMA ExtentMore ==
  ASSUME PassOK, PlaceOK, RecordOK, ExtentOK, UNCHANGED <<size, phase>>, Emitted' = Emitted,
         pc # "done", pc' # "done",
         \A p \in Psects : loc'[p] \in Nat /\ loc[p] <= loc'[p]
  PROVE  ExtentOK'
<1>1. Emitted \in Seq(CellSet)
  BY CellsInShape DEF RecordOK, Emitted
<1>2. ASSUME phase = 2, NEW p \in Psects PROVE EndsIn(Emitted', p, loc'[p], size'[p])
  <2>1. EndsIn(Emitted, p, loc[p], size[p]) /\ loc[p] \in Nat /\ size[p] \in Int /\ loc'[p] \in Nat /\ loc[p] <= loc'[p]
    BY <1>2, Sizes DEF ExtentOK, PlaceOK, Bases
  <2>2. EndsIn(Emitted, p, loc'[p], size[p])
    BY <1>1, <2>1, EndsGrow
  <2> QED BY <2>2
<1> QED BY <1>2 DEF ExtentOK

-----------------------------------------------------------------------------
(* The end: the file as it is written *)

Trailer == <<[t |-> "PSECT", psects |-> entered, extents |-> Extents],
          [t |-> "SYM", items |-> {SymItem(s) : s \in {x \in Syms : sym[x].known}}]>>
        \o (IF startAddr.psect = None THEN <<>>
            ELSE <<[t |-> "START", val |-> startAddr.val, psect |-> startAddr.psect]>>)
        \o <<[t |-> "END"]>>

\* Records after the text say nothing of it.
LEMMA ReadOther ==
  ASSUME NEW S, NEW s \in Seq(S), NEW r \in S, r.t \notin {"TEXT", "RELOC"}
  PROVE  ReadAll(Append(s, r)) = ReadAll(s)
<1>1. ReadAll(s \o <<r>>) = ReadRecord(ReadAll(s), r)
  BY ReadAppend
<1>2. ReadRecord(ReadAll(s), r) = ReadAll(s)
  BY DEF ReadRecord
<1>3. s \o <<r>> = Append(s, r)
  OBVIOUS
<1> QED BY <1>1, <1>2, <1>3

LEMMA TrailerIs ==
  \E a, b, c, d :
    /\ a = [t |-> "PSECT", psects |-> entered, extents |-> Extents]
    /\ b.t = "SYM" /\ c.t = "START" /\ d.t = "END"
    /\ Trailer = <<a, b>> \o (IF startAddr.psect = None THEN <<>> ELSE <<c>>) \o <<d>>
<1> DEFINE a == [t |-> "PSECT", psects |-> entered, extents |-> Extents]
           b == [t |-> "SYM", items |-> {SymItem(s) : s \in {x \in Syms : sym[x].known}}]
           c == [t |-> "START", val |-> startAddr.val, psect |-> startAddr.psect]
           d == [t |-> "END"]
<1>1. Trailer = <<a, b>> \o (IF startAddr.psect = None THEN <<>> ELSE <<c>>) \o <<d>>
  BY DEF Trailer
<1>2. b.t = "SYM" /\ c.t = "START" /\ d.t = "END"
  OBVIOUS
<1> HIDE DEF b, c, d
<1> QED BY <1>1, <1>2

Cat(s, t) == s \o t
LEMMA CatIs == ASSUME NEW S, NEW s \in Seq(S), NEW t \in Seq(S) PROVE Cat(s, t) \in Seq(S)
BY Concat DEF Cat
LEMMA CatAssociative ==
  ASSUME NEW S, NEW s \in Seq(S), NEW t \in Seq(S), NEW u \in Seq(S)
  PROVE  Cat(Cat(s, t), u) = Cat(s, Cat(t, u))
<1>1. (s \o t) \o u = s \o (t \o u)
  BY ConcatAssociative
<1> QED BY <1>1, Zenon DEF Cat

LEMMA Chain ==
  ASSUME NEW S, NEW f \in Seq(S), NEW A \in Seq(S), NEW B \in Seq(S), NEW C \in Seq(S), NEW D \in Seq(S)
  PROVE  f \o (((A \o B) \o C) \o D) = (((f \o A) \o B) \o C) \o D
<1>1. Cat(f, Cat(Cat(Cat(A, B), C), D)) = Cat(Cat(Cat(Cat(f, A), B), C), D)
  <2>1. Cat(f, Cat(A, B)) = Cat(Cat(f, A), B) /\ Cat(A, B) \in Seq(S)
    BY CatIs, CatAssociative
  <2>2. Cat(f, Cat(Cat(A, B), C)) = Cat(Cat(f, Cat(A, B)), C) /\ Cat(Cat(A, B), C) \in Seq(S)
    BY <2>1, CatIs, CatAssociative
  <2>3. Cat(f, Cat(Cat(Cat(A, B), C), D)) = Cat(Cat(f, Cat(Cat(A, B), C)), D)
    BY <2>2, CatAssociative
  <2> QED BY <2>1, <2>2, <2>3
<1> QED BY <1>1, Zenon DEF Cat

\* Appended to a file, it leaves the text as it was, and there is one record of psects.
LEMMA TrailerRead ==
  ASSUME NEW f \in Seq(Recs)
  PROVE  /\ ReadAll(f \o Trailer) = ReadAll(f)
         /\ \A r \in Range(f \o Trailer) : r.t = "PSECT" => r.extents = Extents
         /\ \E r \in Range(f \o Trailer) : r.t = "PSECT" /\ r.extents = Extents
<1>1. PICK a, b, c, d :
        /\ a = [t |-> "PSECT", psects |-> entered, extents |-> Extents]
        /\ b.t = "SYM" /\ c.t = "START" /\ d.t = "END"
        /\ Trailer = <<a, b>> \o (IF startAddr.psect = None THEN <<>> ELSE <<c>>) \o <<d>>
  BY TrailerIs
<1>0. PICK S : S = Recs \cup {a, b, c, d}
  OBVIOUS
<1>2. f \in Seq(S) /\ a \in S /\ b \in S /\ c \in S /\ d \in S
  BY <1>0
<1>3. \A r \in Recs : r.t \in {"TEXT", "RELOC"}
  BY DEF Recs
<1>4. PICK f1 : f1 = Append(f, a)
  OBVIOUS
<1>5. PICK f2 : f2 = Append(f1, b)
  OBVIOUS
<1>6. PICK f3 : f3 = IF startAddr.psect = None THEN f2 ELSE Append(f2, c)
  OBVIOUS
<1>7. PICK f4 : f4 = Append(f3, d)
  OBVIOUS
<1>8. f1 \in Seq(S) /\ f2 \in Seq(S) /\ f3 \in Seq(S) /\ f4 \in Seq(S)
  BY <1>2, <1>4, <1>5, <1>6, <1>7
<1>9. f \o Trailer = f4
  <2>0. <<a>> \in Seq(S) /\ <<b>> \in Seq(S) /\ <<c>> \in Seq(S) /\ <<d>> \in Seq(S)
        /\ <<>> \in Seq(S)
    BY <1>2
  <2>1. PICK A \in Seq(S) : A = <<a>>
    BY <2>0, Zenon
  <2>2. PICK B \in Seq(S) : B = <<b>>
    BY <2>0, Zenon
  <2>3. PICK D \in Seq(S) : D = <<d>>
    BY <2>0, Zenon
  <2>4. PICK C \in Seq(S) : C = IF startAddr.psect = None THEN <<>> ELSE <<c>>
    BY <2>0, Zenon
  <2>5. A \o B = <<a, b>>
    BY <1>2, <2>1, <2>2, Pair
  <2>6. Trailer = ((A \o B) \o C) \o D
    BY <1>1, <2>3, <2>4, <2>5, Zenon
  <2>8. f \o Trailer = (((f \o A) \o B) \o C) \o D
    BY <1>2, <2>1, <2>2, <2>3, <2>4, <2>6, Chain
  <2>9. \A s \in Seq(S), x \in S : s \o <<x>> = Append(s, x)
    OBVIOUS
  <2>10. f \o A = f1 /\ f1 \o B = f2
    BY <1>2, <1>4, <1>5, <1>8, <2>1, <2>2, <2>9, Zenon
  <2>11. f2 \o C = f3
    <3>1. f2 \o <<>> = f2
      BY <1>8
    <3>2. f2 \o <<c>> = Append(f2, c)
      BY <1>2, <1>8, <2>9
    <3> QED BY <1>6, <2>4, <3>1, <3>2
  <2>12. f3 \o D = f4
    BY <1>2, <1>7, <1>8, <2>3, <2>9, Zenon
  <2> QED BY <2>8, <2>10, <2>11, <2>12, Zenon
<1>10. a.t = "PSECT" /\ a.extents = Extents
  BY <1>1
<1>11. ReadAll(f4) = ReadAll(f)
  <2>1. ReadAll(f1) = ReadAll(f)
    BY <1>2, <1>4, <1>10, ReadOther
  <2>2. ReadAll(f2) = ReadAll(f1)
    BY <1>1, <1>2, <1>5, <1>8, ReadOther
  <2>3. ReadAll(f3) = ReadAll(f2)
    BY <1>1, <1>2, <1>6, <1>8, ReadOther
  <2>4. ReadAll(f4) = ReadAll(f3)
    BY <1>1, <1>2, <1>7, <1>8, ReadOther
  <2> QED BY <2>1, <2>2, <2>3, <2>4
<1>12. ASSUME NEW s \in Seq(S), NEW x \in S PROVE Range(Append(s, x)) = Range(s) \cup {x}
  <2>1. Append(s, x) \in Seq(S) /\ Len(Append(s, x)) = Len(s) + 1 /\ Len(s) \in Nat
        /\ \A j \in 1..(Len(s) + 1) : Append(s, x)[j] = IF j <= Len(s) THEN s[j] ELSE x
    BY AppendOne
  <2>2. PICK n \in Nat : n = Len(s)
    BY <2>1
  <2>3. PICK t : t = Append(s, x)
    OBVIOUS
  <2>4. DOMAIN t = 1..(n + 1) /\ DOMAIN s = 1..n
    <3>1. t \in Seq(S) /\ Len(t) = n + 1
      BY <2>1, <2>2, <2>3
    <3> QED BY <2>2, <3>1
  <2>5. \A j \in 1..(n + 1) : t[j] = IF j <= n THEN s[j] ELSE x
    BY <2>1, <2>2, <2>3
  <2>6. Range(t) = {t[j] : j \in 1..(n + 1)} /\ Range(s) = {s[j] : j \in 1..n}
    BY <2>4 DEF Range
  <2>7. \A j \in 1..n : j \in 1..(n + 1) /\ t[j] = s[j]
    BY <2>5
  <2>8. t[n + 1] = x /\ n + 1 \in 1..(n + 1) /\ \A j \in 1..(n + 1) : j = n + 1 \/ j \in 1..n
    BY <2>5
  <2> QED BY <2>3, <2>6, <2>7, <2>8
<1>13. Range(f4) \subseteq Range(f) \cup {a, b, c, d} /\ a \in Range(f4)
  <2>1. Range(f1) = Range(f) \cup {a} /\ Range(f2) = Range(f1) \cup {b} /\ Range(f4) = Range(f3) \cup {d}
    BY <1>2, <1>4, <1>5, <1>7, <1>8, <1>12
  <2>2. Range(f3) = Range(f2) \/ Range(f3) = Range(f2) \cup {c}
    BY <1>2, <1>6, <1>8, <1>12
  <2> QED BY <2>1, <2>2
<1>14. Range(f) \subseteq Recs
  <2>1. \A j \in 1..Len(f) : f[j] \in Recs
    OBVIOUS
  <2>2. DOMAIN f = 1..Len(f)
    OBVIOUS
  <2> QED BY <2>1, <2>2 DEF Range
<1>15. \A r \in Range(f4) : r.t = "PSECT" => r = a
  BY <1>1, <1>3, <1>13, <1>14
<1> QED BY <1>9, <1>10, <1>11, <1>13, <1>15

-----------------------------------------------------------------------------
(* Every step keeps the types, and the records *)

TypeInv == PassOK /\ PlaceOK /\ SymOK /\ TmpOK /\ JumpOK /\ startAddr \in Value /\ RecordOK /\ ExtentOK

LEMMA ReportShape ==
  ASSUME PassOK, NEW n \in Nat, NEW next \in {"pass", "over"}, Report(n, next)
  PROVE  /\ pc' \in {next, "failed"} /\ numerror' \in Nat /\ (phase < 2 => numerror' = 0)
         /\ phase = 2 /\ numerror' = 0 => numerror = 0 /\ n = 0
<1>1. numerror \in Nat /\ (phase < 2 => numerror = 0) /\ phase \in 0..2
  BY DEF PassOK
<1> QED BY <1>1 DEF Report

LEMMA ReadsShape ==
  ASSUME PassOK, Reads
  PROVE  /\ path' \in [0..2 -> Seq(Nat)] /\ path'[phase] = Append(path[phase], ip)
         /\ \A q \in 0..2 : q # phase => path'[q] = path[q]
<1>1. path \in [0..2 -> Seq(Nat)] /\ phase \in 0..2 /\ ip \in Nat
  BY ProgramShape DEF PassOK
<1>2. path' = [path EXCEPT ![phase] = Append(path[phase], ip)]
  BY DEF Reads
<1>3. Append(path[phase], ip) \in Seq(Nat)
  BY <1>1
<1> QED BY <1>1, <1>2, <1>3

LEMMA PassStep ==
  ASSUME PassOK, ip \in Lines, Reads, UNCHANGED <<prog, phase>>,
         ip' \in 1..(Len(prog.text) + 1), nInput' \in 0..1,
         pc' \in {"pass", "over", "failed"}, numerror' \in Nat, phase < 2 => numerror' = 0
  PROVE  PassOK'
<1>1. path' \in [0..2 -> Seq(Nat)]
  BY ReadsShape
<1> QED BY <1>1 DEF PassOK

LEMMA NextLineStep ==
  ASSUME PassOK, ip \in Lines, NextLine,
         pc' \in {"pass", "over", "failed"}, numerror' \in Nat, phase < 2 => numerror' = 0
  PROVE  PassOK' /\ UNCHANGED <<prog, phase, nInput>>
<1>1. ip' = ip + 1 /\ Reads /\ UNCHANGED <<prog, phase, nInput>>
  BY DEF NextLine
<1>2. ip' \in 1..(Len(prog.text) + 1) /\ nInput' \in 0..1
  <2>1. PICK l \in Nat : l = Len(prog.text) /\ Lines = 1..l
    BY ProgramShape
  <2>2. ip \in 1..l
    BY <2>1
  <2>3. ip + 1 \in 1..(l + 1)
    BY <2>2
  <2> QED BY <1>1, <2>1, <2>3 DEF PassOK
<1> QED BY <1>1, <1>2, PassStep

\* An expression evaluated: its messages, and the symbols it enters.
LEMMA EvaluateStep ==
  ASSUME PassOK, SymOK, NEW e \in Expr, NEW stray, NEW more \in Nat, Evaluate(e, stray, more)
  PROVE  /\ SymOK' /\ pc' \in {"pass", "failed"} /\ numerror' \in Nat /\ (phase < 2 => numerror' = 0)
         /\ phase = 2 /\ numerror' = 0 => numerror = 0 /\ more = 0
         /\ \A s \in Syms : /\ sym'[s].val = sym[s].val /\ sym'[s].psect = sym[s].psect
                            /\ sym'[s].ext = sym[s].ext /\ sym'[s].undef = sym[s].undef
                            /\ sym'[s].multi = sym[s].multi
<1>1. PICK x \in Nat : x = ExprErrors(e, stray)
  BY ErrorsNat
<1>2. sym' = Mentioned(sym, Mentions(e)) /\ Report(x + more, "pass")
  BY <1>1 DEF Evaluate
<1>3. PICK y \in Nat : y = x + more
  OBVIOUS
<1>4. /\ pc' \in {"pass", "failed"} /\ numerror' \in Nat /\ (phase < 2 => numerror' = 0)
      /\ phase = 2 /\ numerror' = 0 => numerror = 0 /\ y = 0
  <2>1. Report(y, "pass")
    BY <1>2, <1>3
  <2> QED BY <2>1, ReportShape
<1>5. y = 0 => more = 0
  BY <1>3
<1>6. sym \in [Syms -> SymRec] /\ phase \in 0..2
  BY DEF SymOK, PassOK
<1>7. PICK N : N = Mentions(e)
  OBVIOUS
<1>8. sym' = Mentioned(sym, N)
  BY <1>2, <1>7
<1>9. /\ sym' \in [Syms -> SymRec]
      /\ \A s \in Syms : /\ sym'[s].val = sym[s].val /\ sym'[s].psect = sym[s].psect
                         /\ sym'[s].ext = sym[s].ext /\ sym'[s].undef = sym[s].undef
                         /\ sym'[s].multi = sym[s].multi
    BY <1>6, <1>8, MentionedShape
<1>10. SymOK'
  BY <1>9 DEF SymOK, SymRec
<1> QED BY <1>4, <1>5, <1>9, <1>10

LEMMA StatementAt ==
  ASSUME PassOK, ip \in Lines
  PROVE  Stm \in Stmt /\ (pc = "pass" => pc # "done")
BY ProgramShape DEF Stm

\* The variables that a statement leaves alone.
LEMMA TmpSame == ASSUME TmpOK, UNCHANGED <<tmp, tmpPtr, lowLabel, highLabel>>, pc = "pass" PROVE TmpOK'
BY DEF TmpOK, TmpRec
LEMMA JumpSame == ASSUME JumpOK, UNCHANGED <<jOptIdx, jOptTab>>, prog' = prog PROVE JumpOK'
BY DEF JumpOK
LEMMA PlaceSame == ASSUME PlaceOK, UNCHANGED <<curPsect, entered, loc, size>> PROVE PlaceOK'
BY DEF PlaceOK
LEMMA StartSame == ASSUME startAddr \in Value, startAddr' = startAddr PROVE startAddr' \in Value
OBVIOUS

\* Nothing put, nothing moved.
LEMMA QuietStep ==
  ASSUME PassOK, PlaceOK, RecordOK, ExtentOK, pc # "done", pc' # "done",
         UNCHANGED <<curPsect, entered, loc, size, buf, obj, trace, phase>>
  PROVE  PlaceOK' /\ RecordOK' /\ ExtentOK'
<1>1. Emitted' = Emitted
  BY DEF Emitted
<1>2. trace' \in Seq(Visits)
  BY DEF RecordOK
<1>3. RecordOK'
  BY <1>1, <1>2, RecordSame
<1>4. \A p \in Psects : loc'[p] \in Nat /\ loc[p] <= loc'[p]
  BY DEF PlaceOK, Bases
<1>5. ExtentOK'
  BY <1>1, <1>4, ExtentMore
<1> QED BY <1>3, <1>5, PlaceSame

\* A visit that puts nothing.
LEMMA VisitOnly ==
  ASSUME PassOK, PlaceOK, RecordOK, ExtentOK, pc # "done", pc' # "done",
         UNCHANGED <<curPsect, entered, objVars, phase>>, Visit(<<>>)
  PROVE  PlaceOK' /\ RecordOK' /\ ExtentOK'
<1>0. UNCHANGED <<loc, size, buf, obj>>
  BY DEF objVars
<1>1. <<>> \in Seq(Fields) /\ Len(<<>>) = 0
  OBVIOUS
<1>2. PICK f \in Seq(Fields) : f = <<>> /\ Len(f) = 0
  BY <1>1
<1>3. Visit(f)
  BY <1>2
<1>4. trace' \in Seq(Visits) /\ (phase = 2 => Emitted' = Emitted \o CellsOf(curPsect, Here, f))
      /\ (phase # 2 => trace' = trace)
  BY <1>3, VisitStep
<1>5. Emitted' = Emitted
  <2>1. CASE phase = 2
    <3>1. CellsOf(curPsect, Here, f) = <<>>
      BY <1>2, CellNone
    <3>2. Emitted \in Seq(CellSet)
      BY CellsInShape DEF RecordOK, Emitted
    <3>3. \A c \in Seq(CellSet) : c \o <<>> = c
      OBVIOUS
    <3> QED BY <1>4, <2>1, <3>1, <3>2, <3>3
  <2>2. CASE phase # 2
    BY <1>4, <2>2 DEF Emitted
  <2> QED BY <2>1, <2>2
<1>6. RecordOK'
  BY <1>0, <1>4, <1>5, RecordSame
<1>7. \A p \in Psects : loc'[p] \in Nat /\ loc[p] <= loc'[p]
  BY <1>0 DEF PlaceOK, Bases
<1>8. ExtentOK'
  BY <1>0, <1>5, <1>7, ExtentMore
<1> QED BY <1>0, <1>6, <1>8, PlaceSame

LEMMA OpenFileKeeps == ASSUME TypeInv, OpenFile PROVE TypeInv'
<1>1. PassOK /\ PlaceOK /\ SymOK /\ TmpOK /\ JumpOK /\ startAddr \in Value /\ RecordOK /\ ExtentOK
  BY DEF TypeInv
<1>2. /\ pc = "pass" /\ ip' = 1 /\ nInput' = 1
      /\ UNCHANGED <<prog, pc, phase, curPsect, entered, tmp, tmpPtr, lowLabel, highLabel, sym,
                     jOptIdx, jOptTab, numerror, startAddr, loc, size, buf, obj, trace, path>>
  BY DEF OpenFile, tabVars, jumpVars, objVars
<1>3. PassOK'
  <2>1. Len(prog.text) \in Nat
    BY <1>1, ProgramShape
  <2>2. 1 \in 1..(Len(prog.text) + 1)
    BY <2>1
  <2> QED BY <1>1, <1>2, <2>2 DEF PassOK
<1>4. PlaceOK' /\ RecordOK' /\ ExtentOK'
  BY <1>1, <1>2, QuietStep
<1>5. SymOK' /\ TmpOK' /\ JumpOK' /\ startAddr' \in Value
  BY <1>1, <1>2, TmpSame, JumpSame DEF SymOK, SymRec
<1> QED BY <1>3, <1>4, <1>5 DEF TypeInv

LEMMA LabelKeeps == ASSUME TypeInv, Label PROVE TypeInv'
<1>1. PassOK /\ PlaceOK /\ SymOK /\ TmpOK /\ JumpOK /\ startAddr \in Value /\ RecordOK /\ ExtentOK
  BY DEF TypeInv
<1> DEFINE s == Stm.s
           table == Defined(sym, s)
<1>2. /\ pc = "pass" /\ ip \in Lines /\ Stm.t = "label"
      /\ sym' = IF phase = 2 THEN table
                ELSE [table EXCEPT ![s].val = Here, ![s].ext = None,
                                   ![s].psect = IF curPsect = Abs THEN None ELSE curPsect]
      /\ Report(MultDef(s) + PhaseError(s), "pass")
      /\ Visit(<<>>) /\ NextLine
      /\ UNCHANGED <<curPsect, entered, tmp, tmpPtr, lowLabel, highLabel, jOptIdx, jOptTab, startAddr, objVars>>
  BY Zenon DEF Label, At, jumpVars
<1>3. s \in Syms
  BY <1>1, <1>2, StatementAt, StmtShape
<1>4. PICK n \in Nat : n = MultDef(s) + PhaseError(s)
  BY DEF MultDef, PhaseError, CountIf
<1>5. pc' \in {"pass", "failed"} /\ numerror' \in Nat /\ (phase < 2 => numerror' = 0)
  <2>1. Report(n, "pass")
    BY <1>2, <1>4
  <2> QED BY <1>1, <2>1, ReportShape
<1>6. PassOK' /\ UNCHANGED <<prog, phase, nInput>>
  BY <1>1, <1>2, <1>5, NextLineStep
<1>7. PlaceOK' /\ RecordOK' /\ ExtentOK'
  BY <1>1, <1>2, <1>5, <1>6, VisitOnly
<1>8. SymOK'
  <2>1. table \in [Syms -> SymRec]
    BY <1>1, <1>3, DefinedShape DEF SymOK
  <2>2. Here \in Nat /\ curPsect \in Bases
    BY <1>1, HereNat
  <2>3. PICK h \in Int : h = Here
    BY <2>2
  <2>4. PICK p \in Bases \cup {None} : p = IF curPsect = Abs THEN None ELSE curPsect
    BY <2>2
  <2>5. PICK tb \in [Syms -> SymRec] : tb = table
    BY <2>1
  <2>6. [tb EXCEPT ![s].val = h, ![s].ext = None, ![s].psect = p] \in [Syms -> SymRec]
    <3> HIDE DEF s
    <3>1. PICK x \in SymRec : x = tb[s]
      BY <1>3
    <3>2. [x EXCEPT !.val = h, !.ext = None, !.psect = p] \in SymRec
      BY DEF SymRec
    <3>3. [tb EXCEPT ![s].val = h, ![s].ext = None, ![s].psect = p]
            = [tb EXCEPT ![s] = [x EXCEPT !.val = h, !.ext = None, !.psect = p]]
      BY <1>3, <3>1
    <3> QED BY <3>2, <3>3
  <2>7. sym' \in [Syms -> SymRec]
    BY <1>2, <2>3, <2>4, <2>5, <2>6
  <2> QED BY <2>7 DEF SymOK, SymRec
<1>9. TmpOK' /\ JumpOK' /\ startAddr' \in Value
  BY <1>1, <1>2, <1>6, TmpSame, JumpSame
<1> QED BY <1>6, <1>7, <1>8, <1>9 DEF TypeInv


\* What an expression or a label gives a symbol.
LEMMA GivenShape ==
  ASSUME NEW tb \in [Syms -> SymRec], NEW s \in Syms,
         NEW h \in Int, NEW p \in Bases \cup {None}, NEW e \in Syms \cup {None}
  PROVE  [tb EXCEPT ![s].val = h, ![s].psect = p, ![s].ext = e, ![s].undef = FALSE] \in [Syms -> SymRec]
<1>1. PICK x \in SymRec : x = tb[s]
  OBVIOUS
<1>2. [x EXCEPT !.val = h, !.psect = p, !.ext = e, !.undef = FALSE] \in SymRec
  BY DEF SymRec
<1>3. [tb EXCEPT ![s].val = h, ![s].psect = p, ![s].ext = e, ![s].undef = FALSE]
        = [tb EXCEPT ![s] = [x EXCEPT !.val = h, !.psect = p, !.ext = e, !.undef = FALSE]]
  BY <1>1
<1> QED BY <1>2, <1>3

LEMMA AssignKeeps == ASSUME TypeInv, Assign PROVE TypeInv'
<1>1. PassOK /\ PlaceOK /\ SymOK /\ TmpOK /\ JumpOK /\ startAddr \in Value /\ RecordOK /\ ExtentOK
  BY DEF TypeInv
<1> DEFINE s == Stm.s
           table == IF Stm.t = "equ" THEN Defined(sym, s) ELSE [sym EXCEPT ![s].known = TRUE]
<1>2. PICK stray \in Strays :
        LET v == EvalExpr(Stm.e, stray)
        IN /\ sym' = [Mentioned(table, Mentions(Stm.e)) EXCEPT
                        ![s].val = v.val, ![s].psect = v.psect, ![s].ext = v.ext, ![s].undef = FALSE]
           /\ Report((IF Stm.t = "equ" THEN MultDef(s) ELSE 0) + ExprErrors(Stm.e, stray), "pass")
  BY Zenon DEF Assign
<1>3. /\ pc = "pass" /\ ip \in Lines /\ Stm.t \in {"equ", "defl"} /\ NextLine
      /\ UNCHANGED <<curPsect, entered, tmp, tmpPtr, lowLabel, highLabel, jOptIdx, jOptTab, startAddr,
                     loc, size, buf, obj, trace>>
  BY Zenon DEF Assign, jumpVars, objVars
<1>4. s \in Syms /\ Stm.e \in Expr
  BY <1>1, <1>3, StatementAt, StmtShape
<1>5. PICK n \in Nat : n = (IF Stm.t = "equ" THEN MultDef(s) ELSE 0) + ExprErrors(Stm.e, stray)
  <2>1. PICK x \in Nat : x = ExprErrors(Stm.e, stray)
    BY <1>4, ErrorsNat
  <2>2. PICK y \in Nat : y = (IF Stm.t = "equ" THEN MultDef(s) ELSE 0)
    BY DEF MultDef, CountIf
  <2>3. x + y \in Nat /\ y + x \in Nat
    OBVIOUS
  <2> QED BY <2>1, <2>2, <2>3
<1>6. pc' \in {"pass", "failed"} /\ numerror' \in Nat /\ (phase < 2 => numerror' = 0)
  <2>1. Report(n, "pass")
    BY <1>2, <1>5
  <2> QED BY <1>1, <2>1, ReportShape
<1>7. PassOK' /\ UNCHANGED <<prog, phase, nInput>>
  BY <1>1, <1>3, <1>6, NextLineStep
<1>8. PlaceOK' /\ RecordOK' /\ ExtentOK'
  BY <1>1, <1>3, <1>6, <1>7, QuietStep
<1>9. SymOK'
  <2>1. table \in [Syms -> SymRec]
    <3>1. Defined(sym, s) \in [Syms -> SymRec]
      BY <1>1, <1>4, DefinedShape DEF SymOK
    <3>2. [sym EXCEPT ![s].known = TRUE] \in [Syms -> SymRec]
      BY <1>1, <1>4 DEF SymOK, SymRec
    <3> QED BY <3>1, <3>2
  <2>2. PICK tb : tb = Mentioned(table, Mentions(Stm.e))
    OBVIOUS
  <2>3. tb \in [Syms -> SymRec]
    <3>1. phase \in 0..2
      BY <1>1 DEF PassOK
    <3> HIDE DEF table
    <3> QED BY <2>1, <2>2, <3>1, MentionedShape
  <2>4. PICK v : v = EvalExpr(Stm.e, stray)
    OBVIOUS
  <2>5. v.val \in Int /\ v.psect \in Bases \cup {None} /\ v.ext \in Syms \cup {None}
    <3>1. v \in Value
      BY <1>1, <1>4, <2>4, ExprValue
    <3> QED BY <3>1, ValueShape
  <2>6. sym' = [tb EXCEPT ![s].val = v.val, ![s].psect = v.psect, ![s].ext = v.ext, ![s].undef = FALSE]
    BY <1>2, <2>2, <2>4
  <2>7. sym' \in [Syms -> SymRec]
    <3>1. PICK h \in Int : h = v.val
      BY <2>5
    <3>2. PICK p \in Bases \cup {None} : p = v.psect
      BY <2>5
    <3>3. PICK e \in Syms \cup {None} : e = v.ext
      BY <2>5
    <3>4. PICK r \in Syms : r = s
      BY <1>4
    <3>5. [tb EXCEPT ![r].val = h, ![r].psect = p, ![r].ext = e, ![r].undef = FALSE] \in [Syms -> SymRec]
      BY <2>3, GivenShape
    <3> QED BY <2>6, <3>1, <3>2, <3>3, <3>4, <3>5
  <2> QED BY <2>7 DEF SymOK, SymRec
<1>10. TmpOK' /\ JumpOK' /\ startAddr' \in Value
  BY <1>1, <1>3, <1>7, TmpSame, JumpSame
<1> QED BY <1>7, <1>8, <1>9, <1>10 DEF TypeInv

LEMMA GlobalKeeps == ASSUME TypeInv, Global PROVE TypeInv'
<1>1. PassOK /\ PlaceOK /\ SymOK /\ TmpOK /\ JumpOK /\ startAddr \in Value /\ RecordOK /\ ExtentOK
  BY DEF TypeInv
<1> DEFINE s == Stm.s
<1>2. /\ pc = "pass" /\ ip \in Lines /\ Stm.t = "global" /\ NextLine
      /\ sym' = [sym EXCEPT ![s].known = TRUE, ![s].glob = TRUE]
      /\ UNCHANGED <<pc, curPsect, entered, tmp, tmpPtr, lowLabel, highLabel, jOptIdx, jOptTab, numerror,
                     startAddr, loc, size, buf, obj, trace>>
  BY Zenon DEF Global, At, jumpVars, objVars
<1>3. s \in Syms
  BY <1>1, <1>2, StatementAt, StmtShape
<1>4. numerror' \in Nat /\ (phase < 2 => numerror' = 0)
  BY <1>1, <1>2 DEF PassOK
<1>5. PassOK' /\ UNCHANGED <<prog, phase, nInput>>
  BY <1>1, <1>2, <1>4, NextLineStep
<1>6. PlaceOK' /\ RecordOK' /\ ExtentOK'
  BY <1>1, <1>2, <1>5, QuietStep
<1>7. SymOK'
  BY <1>1, <1>2, <1>3 DEF SymOK, SymRec
<1>8. TmpOK' /\ JumpOK' /\ startAddr' \in Value
  BY <1>1, <1>2, <1>5, TmpSame, JumpSame
<1> QED BY <1>5, <1>6, <1>7, <1>8 DEF TypeInv

LEMMA EndcKeeps == ASSUME TypeInv, Endc PROVE TypeInv'
<1>1. PassOK /\ PlaceOK /\ SymOK /\ TmpOK /\ JumpOK /\ startAddr \in Value /\ RecordOK /\ ExtentOK
  BY DEF TypeInv
<1>2. /\ pc = "pass" /\ ip \in Lines /\ NextLine
      /\ UNCHANGED <<pc, curPsect, entered, sym, tmp, tmpPtr, lowLabel, highLabel, jOptIdx, jOptTab, numerror,
                     startAddr, loc, size, buf, obj, trace>>
  BY Zenon DEF Endc, At, tabVars, jumpVars, objVars
<1>3. numerror' \in Nat /\ (phase < 2 => numerror' = 0)
  BY <1>1, <1>2 DEF PassOK
<1>4. PassOK' /\ UNCHANGED <<prog, phase, nInput>>
  BY <1>1, <1>2, <1>3, NextLineStep
<1>5. PlaceOK' /\ RecordOK' /\ ExtentOK'
  BY <1>1, <1>2, <1>4, QuietStep
<1>6. SymOK' /\ TmpOK' /\ JumpOK' /\ startAddr' \in Value
  BY <1>1, <1>2, <1>4, TmpSame, JumpSame DEF SymOK, SymRec
<1> QED BY <1>4, <1>5, <1>6 DEF TypeInv

LEMMA TmpLabelKeeps == ASSUME TypeInv, TmpLabel PROVE TypeInv'
<1>1. PassOK /\ PlaceOK /\ SymOK /\ TmpOK /\ JumpOK /\ startAddr \in Value /\ RecordOK /\ ExtentOK
  BY DEF TypeInv
<1>2. /\ pc = "pass" /\ ip \in Lines /\ Stm.t = "tmp" /\ Visit(<<>>) /\ NextLine
      /\ lowLabel' = lowLabel + 1
      /\ UNCHANGED <<curPsect, entered, sym, jOptIdx, jOptTab, numerror, startAddr, objVars>>
  BY Zenon DEF TmpLabel, At, jumpVars
<1>3. IF phase = 2 THEN UNCHANGED <<pc, tmp, tmpPtr, highLabel>>
      ELSE /\ tmpPtr' = tmpPtr + 1
           /\ pc' = IF tmpPtr = MaxTmp THEN "failed" ELSE "pass"
           /\ tmp' = [i \in DOMAIN tmp |->
                        IF i # tmpPtr + 1 THEN tmp[i]
                        ELSE [label |-> Stm.n, loc |-> Signed(Here), psect |-> curPsect]]
           /\ highLabel' = IF phase = 0 /\ tmpPtr < MaxTmp THEN tmpPtr + 1 ELSE highLabel
  BY Zenon DEF TmpLabel
<1>4. Stm.n \in Nat
  BY <1>1, <1>2, StatementAt, StmtShape
<1>5. pc' \in {"pass", "failed"} /\ numerror' \in Nat /\ (phase < 2 => numerror' = 0)
  BY <1>1, <1>2, <1>3 DEF PassOK
<1>6. PassOK' /\ UNCHANGED <<prog, phase, nInput>>
  BY <1>1, <1>2, <1>5, NextLineStep
<1>7. PlaceOK' /\ RecordOK' /\ ExtentOK'
  BY <1>1, <1>2, <1>5, <1>6, VisitOnly
<1>8. TmpOK'
  <2>1. /\ tmp \in [1..MaxTmp -> TmpRec] /\ highLabel \in 0..MaxTmp /\ lowLabel \in Nat /\ tmpPtr \in 0..MaxTmp
        /\ MaxTmp \in Nat
    BY <1>1, <1>2, Sizes DEF TmpOK
  <2>2. CASE phase = 2
    <3>1. lowLabel + 1 \in Nat
      BY <2>1
    <3> QED BY <1>2, <1>3, <2>1, <2>2, <3>1 DEF TmpOK, TmpRec
  <2>3. CASE phase # 2
    <3>1. PICK x : x = [label |-> Stm.n, loc |-> Signed(Here), psect |-> curPsect]
      OBVIOUS
    <3>2. x \in TmpRec
      <4>1. Here \in Int /\ curPsect \in Bases
        BY <1>1, HereNat
      <4>2. Signed(Here) \in -Half..(Half - 1)
        BY <4>1, SignedRange
      <4> QED BY <1>4, <3>1, <4>1, <4>2 DEF TmpRec
    <3>3. tmp' = [i \in 1..MaxTmp |-> IF i # tmpPtr + 1 THEN tmp[i] ELSE x]
      BY <1>3, <2>1, <2>3, <3>1
    <3>4. tmp' \in [1..MaxTmp -> TmpRec]
      BY <2>1, <3>2, <3>3
    <3>5. highLabel' \in 0..MaxTmp /\ lowLabel' \in Nat /\ tmpPtr' \in Nat
      BY <1>2, <1>3, <2>1, <2>3
    <3>6. pc' # "failed" => tmpPtr' \in 0..MaxTmp
      BY <1>3, <2>1, <2>3
    <3> QED BY <3>4, <3>5, <3>6 DEF TmpOK, TmpRec
  <2> QED BY <2>2, <2>3
<1>9. SymOK' /\ JumpOK' /\ startAddr' \in Value
  BY <1>1, <1>2, <1>6, JumpSame DEF SymOK, SymRec
<1> QED BY <1>6, <1>7, <1>8, <1>9 DEF TypeInv

\* Fields that instructions and jumps put.
LEMMA OpcodeShape == ASSUME PassOK PROVE Opcode \in Fields
<1>1. ip \in Int
  BY ProgramShape
<1> QED BY <1>1 DEF Opcode, Fields, Xs

LEMMA SpanIn == ASSUME PlaceOK, NEW v \in Value PROVE Span(v) \in -Half..(Half - 1) /\ Span(v) \in Int
<1>1. v.val \in Int /\ Here \in Int
  BY ValueShape, HereNat
<1>2. PICK x \in Int : x = v.val - Here
  BY <1>1
<1>3. Signed(x) \in -Half..(Half - 1) /\ Half \in Nat
  BY SignedRange, Sizes
<1>4. Span(v) = Signed(x)
  BY <1>2 DEF Span
<1> QED BY <1>3, <1>4

LEMMA DistanceShape == ASSUME PlaceOK, NEW v \in Value PROVE Distance(v) \in Fields
<1>1. PICK x \in Int : x = Span(v) - 2
  BY SpanIn
<1>2. PICK m \in Nat \ {0} : m = 2 * Reach
  BY Sizes
<1>3. PICK y \in Int : y = x % m
  BY ModRange
<1>4. Distance(v) = [w |-> 0, x |-> [k |-> "disp", x |-> y]]
  BY <1>1, <1>2, <1>3 DEF Distance
<1> QED BY <1>4 DEF Fields, Xs

LEMMA AddressShape == ASSUME NEW v \in Value PROVE [w |-> 2, v |-> v] \in Fields
BY DEF Fields

\* A line that puts something and evaluates an expression.
LEMMA PutsAndEvaluates ==
  ASSUME TypeInv, pc = "pass", ip \in Lines, NextLine, NEW f \in Seq(Fields), Emit(f),
         NEW e \in Expr, NEW stray, NEW more \in Nat, Evaluate(e, stray, more),
         UNCHANGED <<curPsect, entered, tmp, tmpPtr, lowLabel, highLabel, startAddr>>
  PROVE  /\ PassOK' /\ PlaceOK' /\ SymOK' /\ TmpOK' /\ startAddr' \in Value /\ RecordOK' /\ ExtentOK'
         /\ prog' = prog
<1>1. PassOK /\ PlaceOK /\ SymOK /\ TmpOK /\ startAddr \in Value /\ RecordOK /\ ExtentOK
  BY DEF TypeInv
<1>2. SymOK' /\ pc' \in {"pass", "failed"} /\ numerror' \in Nat /\ (phase < 2 => numerror' = 0)
  BY <1>1, EvaluateStep
<1>3. PassOK' /\ UNCHANGED <<prog, phase, nInput>>
  BY <1>1, <1>2, NextLineStep
<1>4. PlaceOK' /\ RecordOK' /\ ExtentOK'
  BY <1>1, <1>2, <1>3, EmitStep
<1>5. TmpOK'
  BY <1>1, TmpSame
<1> QED BY <1>1, <1>2, <1>3, <1>4, <1>5

LEMMA JrKeeps == ASSUME TypeInv, Jr PROVE TypeInv'
<1>1. PassOK /\ PlaceOK /\ SymOK /\ TmpOK /\ JumpOK /\ startAddr \in Value /\ RecordOK /\ ExtentOK
  BY DEF TypeInv
<1>2. /\ pc = "pass" /\ ip \in Lines /\ Stm.t = "jr" /\ NextLine
      /\ UNCHANGED <<curPsect, entered, tmp, tmpPtr, lowLabel, highLabel, jOptIdx, jOptTab, startAddr>>
  BY Zenon DEF Jr, At, jumpVars
<1>3. PICK stray \in Strays :
        LET v == EvalExpr(Stm.e, stray)
        IN Emit(<<Opcode, Distance(v)>>) /\ Evaluate(Stm.e, stray, CountIf(~Near(v)))
  BY Zenon DEF Jr
<1>4. Stm.e \in Expr
  BY <1>1, <1>2, StatementAt, StmtShape
<1>5. PICK v \in Value : v = EvalExpr(Stm.e, stray)
  BY <1>1, <1>4, ExprValue
<1>6. PICK f : f = <<Opcode, Distance(v)>>
  OBVIOUS
<1>7. f \in Seq(Fields)
  BY <1>1, <1>6, OpcodeShape, DistanceShape, Pair
<1>8. PICK n \in Nat : n = CountIf(~Near(v))
  BY DEF CountIf
<1>9. Emit(f) /\ Evaluate(Stm.e, stray, n)
  BY <1>3, <1>5, <1>6, <1>8
<1>10. /\ PassOK' /\ PlaceOK' /\ SymOK' /\ TmpOK' /\ startAddr' \in Value /\ RecordOK' /\ ExtentOK'
       /\ prog' = prog
  BY <1>2, <1>4, <1>7, <1>9, PutsAndEvaluates
<1>11. JumpOK'
  BY <1>1, <1>2, <1>10, JumpSame
<1> QED BY <1>10, <1>11 DEF TypeInv

LEMMA JpKeeps == ASSUME TypeInv, Jp PROVE TypeInv'
<1>1. PassOK /\ PlaceOK /\ SymOK /\ TmpOK /\ JumpOK /\ startAddr \in Value /\ RecordOK /\ ExtentOK
  BY DEF TypeInv
<1>2. /\ pc = "pass" /\ ip \in Lines /\ Stm.t = "jp" /\ NextLine
      /\ jOptIdx' = IF Eligible THEN jOptIdx + 1 ELSE jOptIdx
      /\ UNCHANGED <<curPsect, entered, tmp, tmpPtr, lowLabel, highLabel, startAddr>>
  BY Zenon DEF Jp, At
<1>3. PICK stray \in Strays :
        LET v == EvalExpr(Stm.e, stray)
        IN \/ /\ Eligible /\ Branches(v)
              /\ jOptTab' = [jOptTab EXCEPT ![jOptIdx + 1] = TRUE]
              /\ Emit(<<Opcode, Distance(v)>>)
              /\ Evaluate(Stm.e, stray, CountIf(~Near(v)))
           \/ /\ ~(Eligible /\ Branches(v))
              /\ Emit(<<Opcode, [w |-> 2, v |-> v]>>)
              /\ Evaluate(Stm.e, stray, 0)
              /\ UNCHANGED jOptTab
  BY Zenon DEF Jp
<1>4. Stm.e \in Expr
  BY <1>1, <1>2, StatementAt, StmtShape
<1>5. PICK v \in Value : v = EvalExpr(Stm.e, stray)
  BY <1>1, <1>4, ExprValue
<1>6. \E f \in Seq(Fields), n \in Nat : Emit(f) /\ Evaluate(Stm.e, stray, n)
  <2>1. CASE Eligible /\ Branches(v) /\ Emit(<<Opcode, Distance(v)>>)
             /\ Evaluate(Stm.e, stray, CountIf(~Near(v)))
    <3>1. PICK f : f = <<Opcode, Distance(v)>>
      OBVIOUS
    <3>2. f \in Seq(Fields)
      BY <1>1, <3>1, OpcodeShape, DistanceShape, Pair
    <3>3. PICK n \in Nat : n = CountIf(~Near(v))
      BY DEF CountIf
    <3> QED BY <2>1, <3>1, <3>2, <3>3
  <2>2. CASE Emit(<<Opcode, [w |-> 2, v |-> v]>>) /\ Evaluate(Stm.e, stray, 0)
    <3>1. PICK f : f = <<Opcode, [w |-> 2, v |-> v]>>
      OBVIOUS
    <3>2. f \in Seq(Fields)
      BY <1>1, <3>1, OpcodeShape, AddressShape, Pair
    <3>3. 0 \in Nat
      OBVIOUS
    <3> QED BY <2>2, <3>1, <3>2, <3>3
  <2> QED BY <1>3, <1>5, <2>1, <2>2
<1>7. PICK f \in Seq(Fields), n \in Nat : Emit(f) /\ Evaluate(Stm.e, stray, n)
  BY <1>6
<1>8. /\ PassOK' /\ PlaceOK' /\ SymOK' /\ TmpOK' /\ startAddr' \in Value /\ RecordOK' /\ ExtentOK'
      /\ prog' = prog
  BY <1>2, <1>4, <1>7, PutsAndEvaluates
<1>9. JumpOK'
  <2>1. /\ jOptIdx \in -1..(MaxJumps - 1) /\ jOptTab \in [0..(MaxJumps - 1) -> BOOLEAN]
        /\ MaxJumps \in Nat \ {0}
        /\ prog.j \/ ~\E i \in 0..(MaxJumps - 1) : jOptTab[i]
    BY <1>1, Sizes DEF JumpOK
  <2>2. Eligible => prog.j /\ jOptIdx # MaxJumps - 1
    BY DEF Eligible
  <2>3. jOptIdx' \in -1..(MaxJumps - 1)
    BY <1>2, <2>1, <2>2
  <2>4. \/ Eligible /\ jOptTab' = [jOptTab EXCEPT ![jOptIdx + 1] = TRUE]
        \/ jOptTab' = jOptTab
    BY <1>3
  <2>5. jOptTab' \in [0..(MaxJumps - 1) -> BOOLEAN]
    BY <2>1, <2>4
  <2>6. prog'.j \/ ~\E i \in DOMAIN jOptTab' : jOptTab'[i]
    BY <1>8, <2>1, <2>2, <2>4
  <2> QED BY <2>3, <2>5, <2>6 DEF JumpOK
<1> QED BY <1>8, <1>9 DEF TypeInv

LEMMA FieldIn ==
  ASSUME PassOK, PlaceOK, SymOK, TmpOK, NEW it \in Item, NEW stray \in Strays
  PROVE  Field(it, stray) \in Fields
<1>1. CASE it.w = 0
  BY <1>1, OpcodeShape DEF Field
<1>2. CASE it.w # 0
  <2>1. it.w \in {1, 2} /\ it.e \in Expr
    BY <1>2, ItemShape
  <2>2. PICK v \in Value : v = EvalExpr(it.e, stray)
    BY <2>1, ExprValue
  <2>3. Field(it, stray) = [w |-> it.w, v |-> v]
    BY <1>2, <2>2 DEF Field
  <2> QED BY <2>1, <2>3 DEF Fields
<1> QED BY <1>1, <1>2

LEMMA CodeKeeps == ASSUME TypeInv, Code PROVE TypeInv'
<1>1. PassOK /\ PlaceOK /\ SymOK /\ TmpOK /\ JumpOK /\ startAddr \in Value /\ RecordOK /\ ExtentOK
  BY DEF TypeInv
<1>2. /\ pc = "pass" /\ ip \in Lines /\ Stm.t \in {"code", "bad"} /\ NextLine
      /\ UNCHANGED <<curPsect, entered, tmp, tmpPtr, lowLabel, highLabel, jOptIdx, jOptTab, startAddr>>
  BY Zenon DEF Code, jumpVars
<1>3. PICK stray \in Strays :
        LET items == Stm.items
        IN /\ sym' = Mentioned(sym, UNION {IF items[i].w = 0 THEN {} ELSE Mentions(items[i].e) :
                                           i \in DOMAIN items})
           /\ Report(ItemErrors(items, stray, CountIf(Stm.t = "bad")), "pass")
           /\ Emit([i \in DOMAIN items |-> Field(items[i], stray)])
  BY Zenon DEF Code
<1>4. PICK items \in Seq(Item) : items = Stm.items
  BY <1>1, <1>2, StatementAt, StmtShape
<1>5. PICK f : f = [i \in DOMAIN items |-> Field(items[i], stray)]
  OBVIOUS
<1>6. f \in Seq(Fields)
  <2>1. \A i \in 1..Len(items) : items[i] \in Item
    OBVIOUS
  <2>2. \A i \in 1..Len(items) : Field(items[i], stray) \in Fields
    BY <1>1, <2>1, FieldIn
  <2>3. DOMAIN items = 1..Len(items) /\ Len(items) \in Nat
    OBVIOUS
  <2> QED BY <1>5, <2>2, <2>3
<1>7. PICK more \in Nat : more = CountIf(Stm.t = "bad")
  BY DEF CountIf
<1>8. PICK n \in Nat : n = ItemErrors(items, stray, more)
  BY MoreErrors
<1>9. Emit(f) /\ Report(n, "pass")
  BY <1>3, <1>4, <1>5, <1>7, <1>8
<1>10. PICK N : sym' = Mentioned(sym, N)
  BY <1>3
<1>11. pc' \in {"pass", "failed"} /\ numerror' \in Nat /\ (phase < 2 => numerror' = 0)
  BY <1>1, <1>9, ReportShape
<1>12. PassOK' /\ UNCHANGED <<prog, phase, nInput>>
  BY <1>1, <1>2, <1>11, NextLineStep
<1>13. PlaceOK' /\ RecordOK' /\ ExtentOK'
  BY <1>1, <1>2, <1>6, <1>9, <1>11, <1>12, EmitStep
<1>14. SymOK'
  <2>1. sym \in [Syms -> SymRec] /\ phase \in 0..2
    BY <1>1 DEF SymOK, PassOK
  <2>2. sym' \in [Syms -> SymRec]
    BY <1>10, <2>1, MentionedShape
  <2> QED BY <2>2 DEF SymOK, SymRec
<1>15. TmpOK' /\ JumpOK' /\ startAddr' \in Value
  BY <1>1, <1>2, <1>12, TmpSame, JumpSame
<1> QED BY <1>12, <1>13, <1>14, <1>15 DEF TypeInv

LEMMA PositiveNat == ASSUME NEW v \in Value PROVE Positive(v) \in Nat /\ NotPositiveAbs(v) \in Nat
<1>1. v.val \in Int
  BY ValueShape
<1> QED BY <1>1 DEF Positive, NotPositiveAbs, CountIf

\* A line that evaluates an expression, and begins another record.
LEMMA MovesTo ==
  ASSUME TypeInv, pc = "pass", pc' \in {"pass", "failed"}, phase' = phase, trace' = trace, size' = size,
         NEW p \in Bases, NEW at \in Nat, NewRecord(p, at), curPsect' = p, p \in entered',
         entered' \subseteq Bases, loc' = [loc EXCEPT ![p] = at], p \in Psects => loc[p] <= at
  PROVE  PlaceOK' /\ RecordOK' /\ ExtentOK'
<1>1. PassOK /\ PlaceOK /\ RecordOK /\ ExtentOK
  BY DEF TypeInv
<1>2. loc \in [Bases -> Nat] /\ Psects \subseteq Bases
  BY <1>1 DEF PlaceOK, Bases
<1>3. loc'[p] = at /\ loc' \in [Bases -> Nat]
  BY <1>2
<1>4. RecordOK'
  BY <1>1, <1>3, NewRecordStep
<1>5. \A q \in Psects : loc'[q] \in Nat /\ loc[q] <= loc'[q]
  BY <1>2
<1>6. Emitted' = Emitted
  BY DEF Emitted
<1>7. ExtentOK'
  BY <1>1, <1>5, <1>6, ExtentMore
<1> QED BY <1>1, <1>3, <1>4, <1>7 DEF PlaceOK

LEMMA DefsKeeps == ASSUME TypeInv, Defs PROVE TypeInv'
<1>1. PassOK /\ PlaceOK /\ SymOK /\ TmpOK /\ JumpOK /\ startAddr \in Value /\ RecordOK /\ ExtentOK
  BY DEF TypeInv
<1>2. /\ pc = "pass" /\ ip \in Lines /\ Stm.t = "defs" /\ NextLine
      /\ UNCHANGED <<curPsect, entered, tmp, tmpPtr, lowLabel, highLabel, jOptIdx, jOptTab, startAddr,
                     size, trace>>
  BY Zenon DEF Defs, At, jumpVars
<1>3. PICK stray \in Strays :
        LET v == EvalExpr(Stm.e, stray)
        IN /\ loc' = [loc EXCEPT ![curPsect] = @ + Positive(v)]
           /\ NewRecord(curPsect, Here + Positive(v))
           /\ Evaluate(Stm.e, stray, NotPositiveAbs(v))
  BY Zenon DEF Defs
<1>4. Stm.e \in Expr
  BY <1>1, <1>2, StatementAt, StmtShape
<1>5. PICK v \in Value : v = EvalExpr(Stm.e, stray)
  BY <1>1, <1>4, ExprValue
<1>6. PICK n \in Nat : n = NotPositiveAbs(v)
  BY PositiveNat
<1>7. Evaluate(Stm.e, stray, n)
  BY <1>3, <1>5, <1>6
<1>8. SymOK' /\ pc' \in {"pass", "failed"} /\ numerror' \in Nat /\ (phase < 2 => numerror' = 0)
  BY <1>1, <1>4, <1>7, EvaluateStep
<1>9. PassOK' /\ UNCHANGED <<prog, phase, nInput>>
  BY <1>1, <1>2, <1>8, NextLineStep
<1>10. PICK x \in Nat : x = Positive(v)
  BY PositiveNat
<1>11. Here \in Nat /\ curPsect \in Bases /\ Here = loc[curPsect]
  BY <1>1, HereNat DEF Here
<1>12. PICK at \in Nat : at = Here + x
  BY <1>11
<1>13. /\ NewRecord(curPsect, at) /\ loc' = [loc EXCEPT ![curPsect] = at]
       /\ loc[curPsect] <= at
  BY <1>3, <1>5, <1>10, <1>11, <1>12
<1>14. PlaceOK' /\ RecordOK' /\ ExtentOK'
  <2>1. PICK p \in Bases : p = curPsect
    BY <1>11
  <2>2. p \in entered' /\ entered' \subseteq Bases /\ curPsect' = p
    BY <1>1, <1>2, <2>1 DEF PlaceOK
  <2> QED BY <1>2, <1>8, <1>9, <1>13, <2>1, <2>2, MovesTo
<1>15. TmpOK' /\ JumpOK' /\ startAddr' \in Value
  BY <1>1, <1>2, <1>9, TmpSame, JumpSame
<1> QED BY <1>8, <1>9, <1>14, <1>15 DEF TypeInv

LEMMA OrgKeeps == ASSUME TypeInv, Abs \in entered, Org PROVE TypeInv'
<1>1. PassOK /\ PlaceOK /\ SymOK /\ TmpOK /\ JumpOK /\ startAddr \in Value /\ RecordOK /\ ExtentOK
  BY DEF TypeInv
<1>2. /\ pc = "pass" /\ ip \in Lines /\ Stm.t = "org" /\ NextLine /\ curPsect' = Abs
      /\ UNCHANGED <<entered, tmp, tmpPtr, lowLabel, highLabel, jOptIdx, jOptTab, startAddr, size, trace>>
  BY Zenon DEF Org, At, jumpVars
<1>3. PICK stray \in Strays :
        LET v == EvalExpr(Stm.e, stray)
        IN /\ loc' = [loc EXCEPT ![Abs] = Positive(v)]
           /\ NewRecord(Abs, Positive(v))
           /\ Evaluate(Stm.e, stray, NotPositiveAbs(v))
  BY Zenon DEF Org
<1>4. Stm.e \in Expr
  BY <1>1, <1>2, StatementAt, StmtShape
<1>5. PICK v \in Value : v = EvalExpr(Stm.e, stray)
  BY <1>1, <1>4, ExprValue
<1>6. PICK n \in Nat : n = NotPositiveAbs(v)
  BY PositiveNat
<1>7. Evaluate(Stm.e, stray, n)
  BY <1>3, <1>5, <1>6
<1>8. SymOK' /\ pc' \in {"pass", "failed"} /\ numerror' \in Nat /\ (phase < 2 => numerror' = 0)
  BY <1>1, <1>4, <1>7, EvaluateStep
<1>9. PassOK' /\ UNCHANGED <<prog, phase, nInput>>
  BY <1>1, <1>2, <1>8, NextLineStep
<1>10. PICK at \in Nat : at = Positive(v)
  BY PositiveNat
<1>11. NewRecord(Abs, at) /\ loc' = [loc EXCEPT ![Abs] = at]
  BY <1>3, <1>5, <1>10
<1>12. PlaceOK' /\ RecordOK' /\ ExtentOK'
  <2>1. Abs \in entered' /\ entered' \subseteq Bases /\ Abs \notin Psects /\ Abs \in Bases
    BY <1>1, <1>2, Names DEF PlaceOK
  <2> QED BY <1>2, <1>8, <1>9, <1>11, <2>1, MovesTo
<1>13. TmpOK' /\ JumpOK' /\ startAddr' \in Value
  BY <1>1, <1>2, <1>9, TmpSame, JumpSame
<1> QED BY <1>8, <1>9, <1>12, <1>13 DEF TypeInv

LEMMA PsectKeeps == ASSUME TypeInv, Psect PROVE TypeInv'
<1>1. PassOK /\ PlaceOK /\ SymOK /\ TmpOK /\ JumpOK /\ startAddr \in Value /\ RecordOK /\ ExtentOK
  BY DEF TypeInv
<1> DEFINE p == Stm.p
<1>2. /\ pc = "pass" /\ ip \in Lines /\ Stm.t = "psect" /\ NextLine
      /\ curPsect' = p /\ entered' = entered \cup {p}
      /\ IF p = curPsect THEN UNCHANGED <<buf, obj>> ELSE NewRecord(p, loc[p])
      /\ UNCHANGED <<pc, sym, tmp, tmpPtr, lowLabel, highLabel, jOptIdx, jOptTab, numerror, startAddr,
                     loc, size, trace>>
  BY Zenon DEF Psect, At, tabVars, jumpVars
<1>3. p \in Psects /\ p \in Bases
  BY <1>1, <1>2, StatementAt, StmtShape DEF Bases
<1>4. numerror' \in Nat /\ (phase < 2 => numerror' = 0)
  BY <1>1, <1>2 DEF PassOK
<1>5. PassOK' /\ UNCHANGED <<prog, phase, nInput>>
  BY <1>1, <1>2, <1>4, NextLineStep
<1>6. PlaceOK' /\ RecordOK' /\ ExtentOK'
  <2>1. CASE p = curPsect
    <3>1. entered' = entered /\ curPsect' = curPsect
      BY <1>1, <1>2, <2>1 DEF PlaceOK
    <3> QED BY <1>1, <1>2, <1>5, <2>1, <3>1, QuietStep
  <2>2. CASE p # curPsect
    <3>1. PICK at \in Nat : at = loc[p]
      BY <1>1, <1>3 DEF PlaceOK
    <3>2. loc' = [loc EXCEPT ![p] = at] /\ loc[p] <= at
      BY <1>1, <1>2, <3>1 DEF PlaceOK
    <3>3. PICK q \in Bases : q = p
      BY <1>3
    <3>4. NewRecord(q, at) /\ q \in entered' /\ entered' \subseteq Bases
      BY <1>1, <1>2, <1>3, <2>2, <3>1, <3>3 DEF PlaceOK
    <3> HIDE DEF p
    <3> QED BY <1>2, <1>5, <3>2, <3>3, <3>4, MovesTo
  <2> QED BY <2>1, <2>2
<1>7. SymOK' /\ TmpOK' /\ JumpOK' /\ startAddr' \in Value
  BY <1>1, <1>2, <1>5, TmpSame, JumpSame DEF SymOK, SymRec
<1> QED BY <1>5, <1>6, <1>7 DEF TypeInv

LEMMA CondKeeps == ASSUME TypeInv, Cond PROVE TypeInv'
<1>1. PassOK /\ PlaceOK /\ SymOK /\ TmpOK /\ JumpOK /\ startAddr \in Value /\ RecordOK /\ ExtentOK
  BY DEF TypeInv
<1>2. /\ pc = "pass" /\ ip \in Lines /\ Stm.t = "cond" /\ Reads
      /\ UNCHANGED <<prog, phase, curPsect, entered, tmp, tmpPtr, lowLabel, highLabel, jOptIdx, jOptTab,
                     startAddr, loc, size, buf, obj, trace>>
  BY Zenon DEF Cond, At, jumpVars, objVars
<1>3. PICK stray \in Strays :
        LET v == EvalExpr(Stm.e, stray)
            skip == v.val = 0
            more == CountIf(Rel(v)) + (IF skip /\ Skipped.nest > 0 THEN 2 ELSE 0)
        IN /\ ip' = IF ~skip THEN ip + 1
                    ELSE IF Skipped.nest > 0 THEN Len(prog.text) + 1 ELSE Skipped.at + 1
           /\ nInput' = IF skip /\ (Skipped.nest > 0 \/ Skipped.n > Len(prog.text) - ip)
                        THEN 1 ELSE nInput
           /\ Evaluate(Stm.e, stray, more)
  BY Zenon DEF Cond
<1>4. Stm.e \in Expr
  BY <1>1, <1>2, StatementAt, StmtShape
<1>5. PICK v : v = EvalExpr(Stm.e, stray)
  OBVIOUS
<1>6. PICK n \in Nat : n = CountIf(Rel(v)) + (IF v.val = 0 /\ Skipped.nest > 0 THEN 2 ELSE 0)
  BY DEF CountIf
<1>7. Evaluate(Stm.e, stray, n)
  BY <1>3, <1>5, <1>6
<1>8. SymOK' /\ pc' \in {"pass", "failed"} /\ numerror' \in Nat /\ (phase < 2 => numerror' = 0)
  BY <1>1, <1>4, <1>7, EvaluateStep
<1>9. PassOK'
  <2>1. Skipped.at \in Lines
    <3>1. Skipped \in SkipRec
      BY <1>1, SkippedShape
    <3> QED BY <1>2, <3>1 DEF SkipRec
  <2>2. PICK l \in Nat : l = Len(prog.text) /\ Lines = 1..l
    BY <1>1, ProgramShape
  <2>3. ip' \in {ip + 1, l + 1, Skipped.at + 1}
    BY <1>3, <2>2
  <2>4. PICK a \in 1..l : a = Skipped.at
    BY <2>1, <2>2
  <2>5. ip \in 1..l
    BY <1>2, <2>2
  <2>6. ip' \in 1..(l + 1)
    BY <2>3, <2>4, <2>5
  <2>7. nInput' \in 0..1
    BY <1>1, <1>3 DEF PassOK
  <2> QED BY <1>1, <1>2, <1>8, <2>2, <2>6, <2>7, PassStep
<1>10. PlaceOK' /\ RecordOK' /\ ExtentOK'
  BY <1>1, <1>2, <1>8, QuietStep
<1>11. TmpOK' /\ JumpOK' /\ startAddr' \in Value
  BY <1>1, <1>2, TmpSame, JumpSame
<1> QED BY <1>8, <1>9, <1>10, <1>11 DEF TypeInv

LEMMA EndKeeps == ASSUME TypeInv, End PROVE TypeInv'
<1>1. PassOK /\ PlaceOK /\ SymOK /\ TmpOK /\ JumpOK /\ startAddr \in Value /\ RecordOK /\ ExtentOK
  BY DEF TypeInv
<1>2. /\ pc = "pass" /\ ip \in Lines /\ Stm.t \in {"end", "start"} /\ NextLine
      /\ UNCHANGED <<curPsect, entered, tmp, tmpPtr, lowLabel, highLabel, jOptIdx, jOptTab,
                     loc, size, buf, obj, trace>>
  BY Zenon DEF End, jumpVars, objVars
<1>3. /\ pc' \in {"over", "failed"} /\ numerror' \in Nat /\ (phase < 2 => numerror' = 0)
      /\ SymOK' /\ startAddr' \in Value
  <2>1. CASE Stm.t = "end"
    <3>1. pc' = "over" /\ UNCHANGED <<sym, numerror, startAddr>>
      BY <2>1, Zenon DEF End
    <3> QED BY <1>1, <3>1 DEF PassOK, SymOK, SymRec
  <2>2. CASE Stm.t # "end"
    <3>1. PICK stray \in Strays :
            /\ startAddr' = EvalExpr(Stm.e, stray)
            /\ sym' = Mentioned(sym, Mentions(Stm.e))
            /\ Report(ExprErrors(Stm.e, stray), "over")
      BY <2>2, Zenon DEF End
    <3>2. Stm.e \in Expr
      BY <1>1, <1>2, <2>2, StatementAt, StmtShape
    <3>3. startAddr' \in Value
      BY <1>1, <3>1, <3>2, ExprValue
    <3>4. PICK n \in Nat : n = ExprErrors(Stm.e, stray)
      BY <3>2, ErrorsNat
    <3>5. pc' \in {"over", "failed"} /\ numerror' \in Nat /\ (phase < 2 => numerror' = 0)
      <4>1. Report(n, "over")
        BY <3>1, <3>4
      <4> QED BY <1>1, <4>1, ReportShape
    <3>6. SymOK'
      <4>1. sym \in [Syms -> SymRec] /\ phase \in 0..2
        BY <1>1 DEF SymOK, PassOK
      <4>2. PICK N : sym' = Mentioned(sym, N)
        BY <3>1
      <4>3. sym' \in [Syms -> SymRec]
        BY <4>1, <4>2, MentionedShape
      <4> QED BY <4>3 DEF SymOK, SymRec
    <3> QED BY <3>3, <3>5, <3>6
  <2> QED BY <2>1, <2>2
<1>4. PassOK' /\ UNCHANGED <<prog, phase, nInput>>
  BY <1>1, <1>2, <1>3, NextLineStep
<1>5. PlaceOK' /\ RecordOK' /\ ExtentOK'
  BY <1>1, <1>2, <1>3, <1>4, QuietStep
<1>6. TmpOK' /\ JumpOK'
  BY <1>1, <1>2, <1>4, TmpSame, JumpSame
<1> QED BY <1>3, <1>4, <1>5, <1>6 DEF TypeInv

LEMMA EndOfFileKeeps == ASSUME TypeInv, EndOfFile PROVE TypeInv'
<1>1. PassOK /\ PlaceOK /\ SymOK /\ TmpOK /\ JumpOK /\ startAddr \in Value /\ RecordOK /\ ExtentOK
  BY DEF TypeInv
<1>2. /\ pc = "pass" /\ pc' = "over"
      /\ UNCHANGED <<prog, phase, ip, nInput, curPsect, entered, sym, tmp, tmpPtr, lowLabel, highLabel,
                     jOptIdx, jOptTab, numerror, startAddr, loc, size, buf, obj, trace, path>>
  BY Zenon DEF EndOfFile, tabVars, jumpVars, objVars
<1>3. PassOK'
  BY <1>1, <1>2 DEF PassOK
<1>4. PlaceOK' /\ RecordOK' /\ ExtentOK'
  BY <1>1, <1>2, QuietStep
<1>5. SymOK' /\ TmpOK' /\ JumpOK' /\ startAddr' \in Value
  BY <1>1, <1>2, TmpSame, JumpSame DEF SymOK, SymRec
<1> QED BY <1>3, <1>4, <1>5 DEF TypeInv

\* The passes begin with an empty record at 0 of the absolute psect.
LEMMA NextPassStays == ASSUME TypeInv, Abs \in entered, NextPass PROVE TypeInv'
<1>1. PassOK /\ PlaceOK /\ SymOK /\ TmpOK /\ JumpOK /\ startAddr \in Value /\ RecordOK /\ ExtentOK
  BY DEF TypeInv
<1>2. /\ pc = "over" /\ phase < 2 /\ pc' = "pass" /\ nInput' = 0
      /\ phase' = IF phase = 0 /\ prog.j THEN 1 ELSE 2
      /\ curPsect' = Abs /\ loc' = [p \in Bases |-> 0]
      /\ lowLabel' = 0 /\ tmpPtr' = (IF phase' = 2 THEN tmpPtr ELSE 0)
      /\ jOptIdx' = -1
      /\ buf' = Fresh(Abs, 0)
      /\ UNCHANGED <<prog, ip, entered, sym, tmp, highLabel, jOptTab, numerror, startAddr, size,
                     obj, trace, path>>
  BY Zenon DEF NextPass
<1>3. phase' \in {1, 2} /\ (phase' = 1 => prog.j) /\ phase \in 0..2
  BY <1>1, <1>2 DEF PassOK
<1>4. PassOK'
  BY <1>1, <1>2, <1>3 DEF PassOK
<1>5. Abs \in Bases /\ \A p \in Bases : loc'[p] = 0
  BY <1>2, Names
<1>6. SymOK' /\ TmpOK' /\ JumpOK' /\ startAddr' \in Value
  <2>1. SymOK' /\ startAddr' \in Value
    BY <1>1, <1>2 DEF SymOK, SymRec
  <2>2. tmpPtr' \in 0..MaxTmp /\ tmpPtr' \in Nat
    BY <1>1, <1>2, Sizes DEF TmpOK
  <2>3. TmpOK'
    BY <1>1, <1>2, <2>2 DEF TmpOK, TmpRec
  <2>4. -1 \in -1..(MaxJumps - 1)
    BY Sizes
  <2>5. JumpOK'
    BY <1>1, <1>2, <2>4 DEF JumpOK
  <2> QED BY <2>1, <2>3, <2>5
<1>7. obj = <<>> /\ trace = <<>> /\ \A p \in Bases : size[p] = 0
  BY <1>1, <1>2 DEF RecordOK, ExtentOK
<1>8. Emitted' = <<>>
  BY <1>2, <1>7, SeenNone DEF Emitted
<1>9. RecordOK'
  <2>1. PICK b : b = Fresh(Abs, 0)
    OBVIOUS
  <2>2. BufOK(b) /\ b.psect = Abs /\ b.off = 0 /\ b.bytes = <<>> /\ Len(b.bytes) = 0
    <3>1. 0 \in Nat
      OBVIOUS
    <3> QED BY <1>5, <2>1, <3>1, FreshOK
  <2>3. Now' = [buf |-> b, obj |-> <<>>, at |-> 0]
    BY <1>2, <1>5, <1>7, <2>1 DEF Now, Here
  <2>4. PICK q : q = Now'
    OBVIOUS
  <2>5. q.buf = b /\ q.obj = <<>> /\ q.at = 0 /\ q = [buf |-> q.buf, obj |-> q.obj, at |-> q.at]
    BY <2>3, <2>4, OutIs
  <2>6. PICK a : a = ReadAll(<<>>)
    OBVIOUS
  <2>7. a = [base |-> 0, cells |-> <<>>] /\ a.cells = <<>>
    BY <2>6, ReadNone
  <2>8. a \in Accs
    BY <2>7 DEF Accs
  <2>9. Good(Now)'
    <3>1. Good(Now)' <=> /\ q = [buf |-> q.buf, obj |-> q.obj, at |-> q.at]
                         /\ BufOK(q.buf) /\ q.buf.psect = curPsect'
                         /\ q.at \in Nat /\ q.buf.off + Len(q.buf.bytes) = q.at
                         /\ q.obj \in Seq(Recs) /\ Base(q) \in Accs
      BY <2>4 DEF Good
    <3>2. Base(q) = a /\ 0 + 0 = 0 /\ 0 \in Nat /\ <<>> \in Seq(Recs)
      BY <2>5, <2>6 DEF Base
    <3> QED BY <1>2, <2>2, <2>5, <2>8, <3>1, <3>2
  <2>10. Put(Now)' = <<>>
    <3>1. Put(Now)' = Shown(a, b).cells
      BY <2>4, <2>5, <2>6 DEF Put, Base
    <3>2. Shown(a, b) = a
      BY <2>2 DEF Shown
    <3> QED BY <2>7, <3>1, <3>2
  <2>11. BufOK(buf)'
    BY <1>2, <2>1, <2>2
  <2>12. trace' \in Seq(Visits) /\ obj' = <<>> /\ trace' = <<>> /\ (buf = Fresh(Abs, 0))'
    <3>1. <<>> \in Seq(Visits)
      OBVIOUS
    <3> QED BY <1>2, <1>7, <3>1
  <2> QED BY <1>2, <1>8, <2>9, <2>10, <2>11, <2>12 DEF RecordOK
<1>10. ExtentOK'
  <2>1. ASSUME NEW p \in Psects PROVE EndsIn(<<>>, p, 0, 0)
    <3>1. Len(<<>>) = 0 /\ 1..0 = {}
      OBVIOUS
    <3> QED BY <3>1 DEF EndsIn
  <2>2. \A p \in Psects : loc'[p] = 0 /\ size'[p] = 0
    BY <1>2, <1>5, <1>7 DEF Bases
  <2>3. \A p \in Psects : EndsIn(Emitted', p, loc'[p], size'[p])
    BY <1>8, <2>1, <2>2
  <2> QED BY <1>2, <1>7, <2>3 DEF ExtentOK
<1>11. PlaceOK' \/ Abs \notin entered
  <2>1. loc' \in [Bases -> Nat]
    BY <1>2
  <2> QED BY <1>1, <1>2, <2>1 DEF PlaceOK
<1> QED BY <1>4, <1>6, <1>9, <1>10, <1>11 DEF TypeInv

\* The finished file.
LEMMA Chain3 ==
  ASSUME NEW S, NEW f \in Seq(S), NEW A \in Seq(S), NEW B \in Seq(S), NEW C \in Seq(S)
  PROVE  f \o ((A \o B) \o C) = ((f \o A) \o B) \o C
<1>1. Cat(f, Cat(Cat(A, B), C)) = Cat(Cat(Cat(f, A), B), C)
  <2>1. Cat(f, Cat(A, B)) = Cat(Cat(f, A), B) /\ Cat(A, B) \in Seq(S)
    BY CatIs, CatAssociative
  <2>2. Cat(f, Cat(Cat(A, B), C)) = Cat(Cat(f, Cat(A, B)), C)
    BY <2>1, CatAssociative
  <2> QED BY <2>1, <2>2
<1> QED BY <1>1, Zenon DEF Cat

LEMMA FinishIs ==
  ASSUME NEW f \in Seq(Recs), f = obj \o Written(buf), Finish
  PROVE  obj' = f \o Trailer
<1> DEFINE a == [t |-> "PSECT", psects |-> entered, extents |-> Extents]
           b == [t |-> "SYM", items |-> {SymItem(s) : s \in {x \in Syms : sym[x].known}}]
           c == [t |-> "START", val |-> startAddr.val, psect |-> startAddr.psect]
           d == [t |-> "END"]
<1>1. obj' = obj \o Written(buf) \o <<a, b>> \o (IF startAddr.psect = None THEN <<>> ELSE <<c>>) \o <<d>>
  BY Zenon DEF Finish
<1>2. Trailer = <<a, b>> \o (IF startAddr.psect = None THEN <<>> ELSE <<c>>) \o <<d>>
  BY Zenon DEF Trailer
<1> HIDE DEF a, b, c, d
<1>3. PICK S : S = Recs \cup {a, b, c, d}
  OBVIOUS
<1>4. <<a, b>> \in Seq(S) /\ <<c>> \in Seq(S) /\ <<d>> \in Seq(S) /\ <<>> \in Seq(S)
  BY <1>3
<1>11. f \in Seq(S)
  BY <1>3
<1>0. PICK g \in Seq(S) : g = f
  BY <1>11, Zenon
<1>5. PICK A \in Seq(S) : A = <<a, b>>
  BY <1>4, Zenon
<1>6. PICK C \in Seq(S) : C = IF startAddr.psect = None THEN <<>> ELSE <<c>>
  BY <1>4, Zenon
<1>7. PICK D \in Seq(S) : D = <<d>>
  BY <1>4, Zenon
<1>8. obj' = ((g \o A) \o C) \o D
  BY <1>0, <1>1, <1>5, <1>6, <1>7, Zenon
<1>9. Trailer = (A \o C) \o D
  BY <1>2, <1>5, <1>6, <1>7, Zenon
<1>10. g \o ((A \o C) \o D) = ((g \o A) \o C) \o D
  BY <1>0, <1>5, <1>6, <1>7, Chain3
<1> QED BY <1>0, <1>8, <1>9, <1>10, Zenon

LEMMA RangeIs == ASSUME NEW S, NEW s \in Seq(S) PROVE Range(s) = {s[j] : j \in 1..Len(s)}
<1>1. DOMAIN s = 1..Len(s)
  OBVIOUS
<1> QED BY <1>1 DEF Range

\* It says of each psect how long it is.
EndSet(cells, p) == {0} \cup {c.at + 1 : c \in {d \in Range(cells) : d.psect = p}}
                        \cup {x.end : x \in {y \in Extents : y.psect = p}}
LEMMA ExtentsTold ==
  ASSUME NEW cells \in Seq(CellSet), NEW p \in entered, NEW l \in Nat, NEW z \in Int, EndsIn(cells, p, l, z),
         l = loc[p], z = size[p]
  PROVE  l \in EndSet(cells, p) /\ \A n \in EndSet(cells, p) : n \in Int /\ n <= l
<1>0. PICK X : X = EndSet(cells, p)
  OBVIOUS
<1>8. X = {0} \cup {c.at + 1 : c \in {d \in Range(cells) : d.psect = p}}
               \cup {x.end : x \in {y \in Extents : y.psect = p}}
  BY <1>0 DEF EndSet
<1>1. Range(cells) = {cells[j] : j \in 1..Len(cells)}
  BY RangeIs
<1>2. \A x \in Extents : x.psect = p => x.end = l /\ l > z
  BY DEF Extents
<1>3. l > z => [psect |-> p, end |-> l] \in Extents
  BY DEF Extents
<1>4. l \in X
  <2>1. CASE l > z
    <3>1. PICK x : x = [psect |-> p, end |-> l]
      OBVIOUS
    <3>2. x \in Extents /\ x.psect = p /\ x.end = l
      BY <1>3, <2>1, <3>1
    <3> QED BY <1>8, <3>2
  <2>2. CASE ~(l > z)
    <3>1. z = l
      BY <2>2 DEF EndsIn
    <3>2. l = 0 \/ \E j \in 1..Len(cells) : cells[j].psect = p /\ cells[j].at + 1 = l
      BY <3>1 DEF EndsIn
    <3> QED BY <1>1, <1>8, <3>2
  <2> QED BY <2>1, <2>2
<1>5. \A n \in X : n <= l
  <2>1. \A j \in 1..Len(cells) : cells[j].psect = p => cells[j].at + 1 <= l
    BY DEF EndsIn
  <2>2. \A c \in Range(cells) : c.psect = p => c.at + 1 <= l
    BY <1>1, <2>1
  <2> QED BY <1>2, <1>8, <2>2
<1>6. \A n \in X : n \in Int
  <2>1. \A j \in 1..Len(cells) : cells[j].at \in Nat
    BY CellAt
  <2>2. \A c \in Range(cells) : c.at + 1 \in Int
    BY <1>1, <2>1
  <2> QED BY <1>2, <1>8, <2>2
<1> QED BY <1>0, <1>4, <1>5, <1>6

LEMMA FinishKeeps == ASSUME TypeInv, Finish PROVE TypeInv'
<1>1. PassOK /\ PlaceOK /\ SymOK /\ TmpOK /\ JumpOK /\ startAddr \in Value /\ RecordOK /\ ExtentOK
  BY DEF TypeInv
<1>2. /\ pc = "over" /\ phase = 2 /\ pc' = "done"
      /\ UNCHANGED <<prog, phase, ip, nInput, curPsect, entered, sym, tmp, tmpPtr, lowLabel, highLabel,
                     jOptIdx, jOptTab, numerror, startAddr, loc, size, buf, trace, path>>
  BY Zenon DEF Finish, tabVars, jumpVars
<1>3. PassOK' /\ PlaceOK'
  BY <1>1, <1>2 DEF PassOK, PlaceOK
<1>4. SymOK' /\ TmpOK' /\ JumpOK' /\ startAddr' \in Value
  BY <1>1, <1>2, JumpSame DEF SymOK, SymRec, TmpOK, TmpRec
<1>5. Good(Now) /\ Put(Now) = Emitted /\ trace \in Seq(Visits) /\ BufOK(buf)
  BY <1>1, <1>2 DEF RecordOK
<1>6. obj \in Seq(Recs) /\ ReadAll(obj) \in Accs
  BY <1>5, NowIs DEF Good
<1>7. PICK f : f = obj \o Written(buf)
  OBVIOUS
<1>8. f \in Seq(Recs) /\ ReadAll(f) = Shown(ReadAll(obj), buf)
  BY <1>5, <1>6, <1>7, FileWritten
<1>9. obj' = f \o Trailer
  BY <1>7, <1>8, FinishIs
<1>10. ReadAll(obj') = ReadAll(f)
  BY <1>8, <1>9, TrailerRead
<1>11. Put(Now) = Shown(ReadAll(obj), buf).cells
  BY NowIs DEF Put
<1>12. Read(obj)' = Emitted
  <2>1. Read(obj)' = ReadAll(obj').cells
    BY DEF Read
  <2> QED BY <1>5, <1>8, <1>10, <1>11, <2>1
<1>13. Emitted' = Emitted
  BY <1>2 DEF Emitted
<1>14. RecordOK'
  BY <1>2, <1>5, <1>12, <1>13 DEF RecordOK
<1>15. UNION {r.extents : r \in {q \in Range(obj') : q.t = "PSECT"}} = Extents
  <2>1. \A r \in Range(obj') : r.t = "PSECT" => r.extents = Extents
    BY <1>8, <1>9, TrailerRead
  <2>2. \E r \in Range(obj') : r.t = "PSECT" /\ r.extents = Extents
    BY <1>8, <1>9, TrailerRead
  <2> QED BY <2>1, <2>2
<1>16. ASSUME NEW p \in entered \ {Abs} PROVE loc'[p] = CHOOSE m \in Ends(p)' : \A n \in Ends(p)' : n <= m
  <2>1. p \in Psects /\ p \in Bases
    BY <1>1, <1>16 DEF PlaceOK, Bases
  <2>2. EndsIn(Emitted, p, loc[p], size[p]) /\ loc[p] \in Nat /\ size[p] \in Int
    BY <1>1, <1>2, <2>1, Sizes DEF ExtentOK, PlaceOK
  <2>3. Emitted \in Seq(CellSet)
    BY <1>5, CellsInShape DEF Emitted
  <2>4. PICK X : X = Ends(p)'
    OBVIOUS
  <2>5. X = {0} \cup {c.at + 1 : c \in {d \in Range(Emitted') : d.psect = p}}
             \cup {x.end : x \in {y \in UNION {r.extents : r \in {q \in Range(obj') : q.t = "PSECT"}} :
                                  y.psect = p}}
    BY <2>4 DEF Ends
  <2>6. X = {0} \cup {c.at + 1 : c \in {d \in Range(Emitted) : d.psect = p}}
             \cup {x.end : x \in {y \in Extents : y.psect = p}}
    BY <1>13, <1>15, <2>5
  <2>7. loc[p] = CHOOSE m \in X : \A n \in X : n <= m
    <3>1. PICK l \in Nat : l = loc[p]
      BY <2>2
    <3>2. PICK z \in Int : z = size[p]
      BY <2>2
    <3>3. PICK e \in Seq(CellSet) : e = Emitted
      BY <2>3, Zenon
    <3>4. PICK r \in entered : r = p
      BY <1>16
    <3>5. EndsIn(e, r, l, z) /\ l = loc[r] /\ z = size[r]
      BY <2>2, <3>1, <3>2, <3>3, <3>4, Zenon
    <3>6. X = EndSet(e, r)
      BY <2>6, <3>3, <3>4, Zenon DEF EndSet
    <3>7. l \in X /\ \A n \in X : n \in Int /\ n <= l
      BY <3>1, <3>2, <3>3, <3>4, <3>5, <3>6, ExtentsTold
    <3>8. \A m \in X : (\A n \in X : n <= m) => m = l
      BY <3>7
    <3> QED BY <3>1, <3>7, <3>8
  <2> QED BY <1>2, <2>4, <2>7
<1>17. ExtentOK'
  <2>1. \A p \in entered' \ {Abs} : loc'[p] = CHOOSE m \in Ends(p)' : \A n \in Ends(p)' : n <= m
    BY <1>2, <1>16
  <2>2. pc' = "done" /\ phase' = 2
    BY <1>2
  <2> QED BY <2>1, <2>2 DEF ExtentOK
<1> QED BY <1>3, <1>4, <1>14, <1>17 DEF TypeInv

Inv == TypeInv /\ Abs \in entered

LEMMA InitInv == ASSUME Init PROVE Inv
<1>1. /\ prog \in Programs
      /\ pc = "pass" /\ phase = 0 /\ ip = Len(prog.text) + 1 /\ nInput = 0
      /\ curPsect = Abs /\ entered = {Abs}
      /\ loc = [p \in Bases |-> 0] /\ size = [p \in Bases |-> 0]
      /\ tmpPtr = 0 /\ lowLabel = 0 /\ highLabel = 0
      /\ jOptIdx = -1 /\ jOptTab = [i \in 0..(MaxJumps - 1) |-> FALSE]
      /\ numerror = 0 /\ startAddr = [val |-> 0, psect |-> None, ext |-> None]
      /\ buf = Fresh(Abs, 0) /\ obj = <<>>
      /\ trace = <<>> /\ path = [p \in 0..2 |-> <<>>]
  BY Zenon DEF Init
<1>2. /\ sym = [s \in Syms |-> [known |-> FALSE, undef |-> TRUE, multi |-> FALSE, glob |-> FALSE,
                               val |-> 0, psect |-> None, ext |-> s]]
      /\ tmp = [i \in 1..MaxTmp |-> [label |-> 0, loc |-> 0, psect |-> None]]
  BY Zenon DEF Init
<1>3. 0 \in -Half..(Half - 1) /\ MaxTmp \in Nat /\ MaxJumps \in Nat \ {0} /\ Abs \in Bases
  BY Sizes, Names
<1>4. PassOK
  <2>1. prog \in Program
    BY <1>1, ZasAssumption
  <2>2. prog.text \in Seq(Stmt)
    BY <2>1 DEF Program
  <2>3. PICK l \in Nat : l = Len(prog.text)
    BY <2>2
  <2>4. ip \in 1..(l + 1)
    BY <1>1, <2>3
  <2>5. path \in [0..2 -> Seq(Nat)]
    BY <1>1
  <2>6. phase \in 0..2 /\ phase # 1 /\ nInput \in 0..1 /\ numerror \in Nat
    BY <1>1
  <2> QED BY <1>1, <2>3, <2>4, <2>5, <2>6 DEF PassOK
<1>5. PlaceOK
  BY <1>1, <1>3 DEF PlaceOK
<1>6. SymOK
  <2>1. \A s \in Syms : [known |-> FALSE, undef |-> TRUE, multi |-> FALSE, glob |-> FALSE,
                         val |-> 0, psect |-> None, ext |-> s] \in SymRec
    BY DEF SymRec
  <2> QED BY <1>2, <2>1 DEF SymOK
<1>7. TmpOK
  <2>1. [label |-> 0, loc |-> 0, psect |-> None] \in TmpRec
    BY <1>3 DEF TmpRec
  <2>2. 0 \in 0..MaxTmp /\ 0 \in Nat
    BY <1>3
  <2> QED BY <1>1, <1>2, <2>1, <2>2 DEF TmpOK
<1>8. JumpOK
  <2>1. -1 \in -1..(MaxJumps - 1)
    BY <1>3
  <2> QED BY <1>1, <2>1 DEF JumpOK
<1>9. startAddr \in Value
  BY <1>1 DEF Value
<1>10. RecordOK
  <2>1. 0 \in Nat /\ <<>> \in Seq(Visits)
    OBVIOUS
  <2>2. BufOK(buf)
    BY <1>1, <1>3, <2>1, FreshOK
  <2> QED BY <1>1, <2>1, <2>2 DEF RecordOK
<1>11. ExtentOK
  <2>1. \A p \in Bases : size[p] = 0
    BY <1>1
  <2> QED BY <1>1, <2>1 DEF ExtentOK
<1> QED BY <1>1, <1>4, <1>5, <1>6, <1>7, <1>8, <1>9, <1>10, <1>11 DEF Inv, TypeInv

LEMMA StutterKeeps == ASSUME TypeInv, UNCHANGED vars PROVE TypeInv'
<1>1. PassOK /\ PlaceOK /\ SymOK /\ TmpOK /\ JumpOK /\ startAddr \in Value /\ RecordOK /\ ExtentOK
  BY DEF TypeInv
<1>2. UNCHANGED <<prog, pc, phase, ip, nInput, curPsect, entered, sym, tmp, tmpPtr, lowLabel, highLabel,
                  jOptIdx, jOptTab, numerror, startAddr, loc, size, buf, obj, trace, path>>
  BY DEF vars, tabVars, jumpVars, objVars
<1>3. PassOK' /\ PlaceOK' /\ SymOK' /\ TmpOK' /\ JumpOK' /\ startAddr' \in Value
  BY <1>1, <1>2 DEF PassOK, PlaceOK, SymOK, SymRec, TmpOK, TmpRec, JumpOK
<1>4. Emitted' = Emitted
  BY <1>2 DEF Emitted
<1>5. RecordOK'
  <2>1. trace' \in Seq(Visits)
    BY <1>1, <1>2 DEF RecordOK
  <2> QED BY <1>1, <1>2, <1>4, <2>1, RecordSame
<1>6. ExtentOK'
  <2>1. \A p : Ends(p)' = Ends(p)
    BY <1>2, <1>4 DEF Ends
  <2>2. (phase < 2 => \A p \in Bases : size[p] = 0)'
    BY <1>1, <1>2 DEF ExtentOK
  <2>3. (phase = 2 /\ pc # "done" => \A p \in Psects : EndsIn(Emitted, p, loc[p], size[p]))'
    BY <1>1, <1>2, <1>4 DEF ExtentOK
  <2>4. pc = "done" => \A p \in entered \ {Abs} : loc[p] = CHOOSE m \in Ends(p) : \A n \in Ends(p) : n <= m
    BY <1>1 DEF ExtentOK
  <2>5. (pc = "done" => \A p \in entered \ {Abs} : loc[p] = CHOOSE m \in Ends(p) : \A n \in Ends(p) : n <= m)'
    BY <1>2, <2>1, <2>4
  <2> QED BY <2>2, <2>3, <2>5 DEF ExtentOK
<1> QED BY <1>3, <1>5, <1>6 DEF TypeInv

LEMMA AbsStays == ASSUME Abs \in entered, [Next]_vars PROVE Abs \in entered'
<1>1. CASE Psect
  BY <1>1 DEF Psect
<1>2. CASE ~Psect
  <2>1. CASE Next
    <3>1. CASE OpenFile \/ Label \/ Assign \/ Global \/ TmpLabel \/ Code \/ Jp \/ Jr \/ Defs \/ Org
      BY <3>1 DEF OpenFile, Label, Assign, Global, TmpLabel, Code, Jp, Jr, Defs, Org
    <3>2. CASE Cond \/ Endc \/ End \/ EndOfFile \/ NextPass \/ Finish
      BY <3>2 DEF Cond, Endc, End, EndOfFile, NextPass, Finish
    <3>3. CASE Ended
      BY <3>3 DEF Ended, vars
    <3> QED BY <1>2, <2>1, <3>1, <3>2, <3>3, Zenon DEF Next
  <2>2. CASE UNCHANGED vars
    BY <2>2 DEF vars
  <2> QED BY <2>1, <2>2
<1> QED BY <1>1, <1>2

LEMMA StepInv == ASSUME Inv, [Next]_vars PROVE Inv'
<1>1. TypeInv /\ Abs \in entered
  BY DEF Inv
<1>2. CASE OpenFile
  BY <1>1, <1>2, OpenFileKeeps, AbsStays, Zenon DEF Inv
<1>3. CASE Label
  BY <1>1, <1>3, LabelKeeps, AbsStays, Zenon DEF Inv
<1>4. CASE Assign
  BY <1>1, <1>4, AssignKeeps, AbsStays, Zenon DEF Inv
<1>5. CASE Global
  BY <1>1, <1>5, GlobalKeeps, AbsStays, Zenon DEF Inv
<1>6. CASE TmpLabel
  BY <1>1, <1>6, TmpLabelKeeps, AbsStays, Zenon DEF Inv
<1>7. CASE Code
  BY <1>1, <1>7, CodeKeeps, AbsStays, Zenon DEF Inv
<1>8. CASE Jp
  BY <1>1, <1>8, JpKeeps, AbsStays, Zenon DEF Inv
<1>9. CASE Jr
  BY <1>1, <1>9, JrKeeps, AbsStays, Zenon DEF Inv
<1>10. CASE Defs
  BY <1>1, <1>10, DefsKeeps, AbsStays, Zenon DEF Inv
<1>11. CASE Org
  BY <1>1, <1>11, OrgKeeps, AbsStays, Zenon DEF Inv
<1>12. CASE Psect
  BY <1>1, <1>12, PsectKeeps, AbsStays, Zenon DEF Inv
<1>13. CASE Cond
  BY <1>1, <1>13, CondKeeps, AbsStays, Zenon DEF Inv
<1>14. CASE Endc
  BY <1>1, <1>14, EndcKeeps, AbsStays, Zenon DEF Inv
<1>15. CASE End
  BY <1>1, <1>15, EndKeeps, AbsStays, Zenon DEF Inv
<1>16. CASE EndOfFile
  BY <1>1, <1>16, EndOfFileKeeps, AbsStays, Zenon DEF Inv
<1>17. CASE NextPass
  BY <1>1, <1>17, NextPassStays, AbsStays, Zenon DEF Inv
<1>18. CASE Finish
  BY <1>1, <1>18, FinishKeeps, AbsStays, Zenon DEF Inv
<1>19. CASE Ended \/ UNCHANGED vars
  <2>1. UNCHANGED vars
    BY <1>19 DEF Ended
  <2> QED BY <1>1, <2>1, StutterKeeps, AbsStays, Zenon DEF Inv
<1> QED BY <1>2, <1>3, <1>4, <1>5, <1>6, <1>7, <1>8, <1>9, <1>10, <1>11, <1>12, <1>13, <1>14, <1>15, <1>16,
           <1>17, <1>18, <1>19, Zenon DEF Next

\* Always, for every program and sizes of the tables: positions stay in their tables, a record
\* holds what there is room for, and only the last pass counts errors and writes.
THEOREM TypesKept == Spec => []TypeOK
<1>1. Inv => TypeOK
  <2> SUFFICES ASSUME Inv PROVE TypeOK
    OBVIOUS
  <2>1. PassOK /\ PlaceOK /\ SymOK /\ TmpOK /\ JumpOK /\ startAddr \in Value /\ RecordOK
    BY DEF Inv, TypeInv
  <2>2. Len(buf.bytes) <= TextCap /\ Len(buf.relocs) <= RelocCap
    BY <2>1 DEF RecordOK, BufOK
  <2>3. phase < 2 => numerror = 0 /\ obj = <<>> /\ trace = <<>> /\ buf = Fresh(Abs, 0)
    BY <2>1 DEF RecordOK, PassOK
  <2>4. /\ pc \in {"pass", "over", "done", "failed"}
        /\ phase \in 0..2 /\ (phase = 1 => prog.j) /\ nInput \in 0..1 /\ ip \in 1..(Len(prog.text) + 1)
    BY <2>1 DEF PassOK
  <2>5. /\ curPsect \in entered /\ entered \subseteq Bases /\ loc \in [Bases -> Nat]
        /\ size \in [Bases -> -Half..(Half - 1)]
    BY <2>1 DEF PlaceOK
  <2>6. sym \in [Syms -> SymRec]
    BY <2>1 DEF SymOK
  <2>7. /\ tmp \in [1..MaxTmp -> TmpRec] /\ highLabel \in 0..MaxTmp /\ lowLabel \in Nat
        /\ pc # "failed" => tmpPtr \in 0..MaxTmp
    BY <2>1 DEF TmpOK
  <2>8. /\ jOptIdx \in -1..(MaxJumps - 1) /\ jOptTab \in [0..(MaxJumps - 1) -> BOOLEAN]
        /\ prog.j \/ ~\E i \in DOMAIN jOptTab : jOptTab[i]
    BY <2>1 DEF JumpOK
  <2> QED BY <2>1, <2>2, <2>3, <2>4, <2>5, <2>6, <2>7, <2>8, Zenon DEF TypeOK, SymRec, TmpRec
<1> QED BY <1>1, InitInv, StepInv, PTL DEF Spec

\* Always, for every program and sizes of records: the object file, with what waits in the
\* buffers, is the text that the last pass put, byte by byte at its place and with its
\* relocation, and the finished file gives each psect its length.
THEOREM RecordsComeOut == Spec => []RecordsAsEmitted
<1>1. Inv => RecordsAsEmitted
  <2> SUFFICES ASSUME Inv PROVE RecordsAsEmitted
    OBVIOUS
  <2>1. PassOK /\ RecordOK /\ ExtentOK
    BY DEF Inv, TypeInv
  <2>2. ASSUME pc # "failed" PROVE Read(File) = Emitted
    <3>1. CASE pc = "done"
      BY <2>1, <3>1 DEF RecordOK, File
    <3>2. CASE pc # "done" /\ phase = 2
      <4>1. Good(Now) /\ Put(Now) = Emitted /\ BufOK(buf)
        BY <2>1, <3>2 DEF RecordOK
      <4>2. obj \in Seq(Recs) /\ ReadAll(obj) \in Accs
        BY <4>1, NowIs DEF Good
      <4>3. ReadAll(obj \o Written(buf)) = Shown(ReadAll(obj), buf)
        BY <4>1, <4>2, FileWritten
      <4>4. Put(Now) = Shown(ReadAll(obj), buf).cells
        BY NowIs DEF Put
      <4>5. File = obj \o Written(buf)
        BY <3>2 DEF File
      <4> QED BY <4>1, <4>3, <4>4, <4>5 DEF Read
    <3>3. CASE pc # "done" /\ phase # 2
      <4>1. obj = <<>> /\ trace = <<>> /\ buf = Fresh(Abs, 0) /\ BufOK(buf)
        BY <2>1, <3>3 DEF RecordOK, PassOK
      <4>2. PICK b : b = buf
        OBVIOUS
      <4>3. b.bytes = <<>> /\ b.relocs = <<>>
        <5>1. Abs \in Bases /\ 0 \in Nat
          BY Names
        <5> QED BY <4>1, <4>2, <5>1, FreshOK
      <4>4. Written(b) = <<>>
        <5>1. Written(b) = <<>> \o <<>>
          BY <4>3 DEF Written
        <5> QED BY <5>1
      <4>5. File = <<>>
        <5>1. File = <<>> \o <<>>
          BY <3>3, <4>1, <4>2, <4>4, Zenon DEF File
        <5> QED BY <5>1
      <4>6. ReadAll(<<>>) = [base |-> 0, cells |-> <<>>]
        BY ReadNone
      <4>7. Read(File) = <<>>
        BY <4>5, <4>6 DEF Read
      <4>8. Emitted = <<>>
        BY <4>1, SeenNone DEF Emitted
      <4> QED BY <4>7, <4>8
    <3> QED BY <3>1, <3>2, <3>3
  <2>3. pc = "done" => \A p \in entered \ {Abs} : loc[p] = CHOOSE m \in Ends(p) : \A n \in Ends(p) : n <= m
    BY <2>1 DEF ExtentOK
  <2> QED BY <2>2, <2>3 DEF RecordsAsEmitted
<1> QED BY <1>1, InitInv, StepInv, PTL DEF Spec

-----------------------------------------------------------------------------
(* Where labels stand, and where references go *)

\* Statements that lead to another psect, and which.
Moves(st) == st.t \in {"psect", "org"}
Leads(st) == IF st.t = "psect" THEN st.p ELSE Abs

\* After the first k statements of path q through text t, the psect is p.
Stands(t, q, k, p) ==
  \E j \in 0..k : /\ j = 0 => p = Abs
                  /\ j # 0 => Moves(t[q[j]]) /\ p = Leads(t[q[j]])
                  /\ \A h \in (j + 1)..k : ~Moves(t[q[h]])

IsLabel(t, i, s) == t[i].t = "label" /\ t[i].s = s
OnPath(t, q, s) == {k \in 1..Len(q) : IsLabel(t, q[k], s)}
PsectName(p) == IF p = Abs THEN None ELSE p
\* the pass whose labels the last pass finds in the table
LayPass == IF phase = 0 \/ ~prog.j THEN 0 ELSE 1

PathsOK ==
  /\ \A q \in 0..2 : q > phase => path[q] = <<>>
  /\ Stands(prog.text, path[phase], Len(path[phase]), curPsect)
  /\ \A k \in 1..Len(path[phase]) : path[phase][k] \in Lines
  /\ pc = "done" => phase = 2

\* A label that was passed is in the table with its psect, and marked if it was passed twice.
LabelOK(s) ==
  /\ OnPath(prog.text, path[LayPass], s) # {} =>
       /\ sym[s].ext = None
       /\ \E k \in OnPath(prog.text, path[LayPass], s) :
            \E p \in Bases : Stands(prog.text, path[LayPass], k, p) /\ sym[s].psect = PsectName(p)
  /\ OnPath(prog.text, path[0], s) # {} => ~sym[s].undef
  /\ \A h, k \in OnPath(prog.text, path[0], s) : h # k => sym[s].multi
LabelsOK == \A s \in Syms \ Assigned : LabelOK(s)

SymValue(s) == [val |-> sym[s].val, psect |-> sym[s].psect, ext |-> sym[s].ext]
RefExpr(st) == IF st.t = "code" THEN st.items[2].e ELSE st.e
Refers(st) == /\ st.t \in {"jp", "jr"} \/ (st.t = "code" /\ Len(st.items) = 2 /\ st.items[2].w = 2)
              /\ RefExpr(st).op = "one" /\ RefExpr(st).a.k = "sym"

\* What is put goes to v: an address, or a distance within reach of where it is put.
Goes(r, v) ==
  \/ r.fields[2] = [w |-> 2, v |-> v]
  \/ /\ r.fields[2].w = 0
     /\ r.fields[2].x.x = (Signed(v.val - r.at) - 2) % (2 * Reach)
     /\ Signed(v.val - r.at) \in -(Reach - 2)..(Reach + 1) /\ v.ext = None
     /\ v.psect = r.psect \/ (v.psect = None /\ r.psect = Abs)

Met(r, q) == \E k \in 1..Len(q) : q[k] = r.ip /\ Stands(prog.text, q, k, r.psect)
LabelSound(st, at) == st.t = "label" /\ st.s \notin Assigned => ~sym[st.s].multi /\ sym[st.s].val = at
RefSound(st, r) == Refers(st) /\ RefExpr(st).a.s \notin Assigned => Goes(r, SymValue(RefExpr(st).a.s))
VisitOK(r) ==
  /\ Met(r, path[2])
  /\ numerror = 0 => LabelSound(prog.text[r.ip], r.at) /\ RefSound(prog.text[r.ip], r)
TraceOK == phase = 2 => \A m \in 1..Len(trace) : trace[m].ip \in Lines /\ VisitOK(trace[m])

LandInv == PathsOK /\ LabelsOK /\ TraceOK

LEMMA StandsUnique ==
  ASSUME NEW t, NEW q, NEW k \in Nat, NEW p, NEW r, Stands(t, q, k, p), Stands(t, q, k, r)
  PROVE  p = r
<1>1. PICK i \in 0..k : /\ i = 0 => p = Abs
                        /\ i # 0 => Moves(t[q[i]]) /\ p = Leads(t[q[i]])
                        /\ \A h \in (i + 1)..k : ~Moves(t[q[h]])
  BY DEF Stands
<1>2. PICK j \in 0..k : /\ j = 0 => r = Abs
                        /\ j # 0 => Moves(t[q[j]]) /\ r = Leads(t[q[j]])
                        /\ \A h \in (j + 1)..k : ~Moves(t[q[h]])
  BY DEF Stands
<1>3. ~(i < j)
  <2>1. i < j => j \in (i + 1)..k /\ j # 0
    OBVIOUS
  <2> QED BY <1>1, <1>2, <2>1
<1>4. ~(j < i)
  <2>1. j < i => i \in (j + 1)..k /\ i # 0
    OBVIOUS
  <2> QED BY <1>1, <1>2, <2>1
<1>5. i = j
  BY <1>3, <1>4
<1> QED BY <1>1, <1>2, <1>5

LEMMA StandsStays ==
  ASSUME NEW t, NEW q, NEW r, NEW k \in Nat, NEW p, Stands(t, q, k, p), \A h \in 1..k : r[h] = q[h]
  PROVE  Stands(t, r, k, p)
<1>1. PICK i \in 0..k : /\ i = 0 => p = Abs
                        /\ i # 0 => Moves(t[q[i]]) /\ p = Leads(t[q[i]])
                        /\ \A h \in (i + 1)..k : ~Moves(t[q[h]])
  BY DEF Stands
<1>2. i # 0 => i \in 1..k
  OBVIOUS
<1>3. \A h \in (i + 1)..k : h \in 1..k
  OBVIOUS
<1>4. i # 0 => Moves(t[r[i]]) /\ p = Leads(t[r[i]])
  BY <1>1, <1>2
<1>5. \A h \in (i + 1)..k : ~Moves(t[r[h]])
  BY <1>1, <1>3
<1> QED BY <1>1, <1>4, <1>5 DEF Stands

LEMMA StandsNext ==
  ASSUME NEW t, NEW q, NEW k \in Nat, NEW p, Stands(t, q, k, p)
  PROVE  Stands(t, q, k + 1, IF Moves(t[q[k + 1]]) THEN Leads(t[q[k + 1]]) ELSE p)
<1>1. PICK i \in 0..k : /\ i = 0 => p = Abs
                        /\ i # 0 => Moves(t[q[i]]) /\ p = Leads(t[q[i]])
                        /\ \A h \in (i + 1)..k : ~Moves(t[q[h]])
  BY DEF Stands
<1>2. CASE Moves(t[q[k + 1]])
  <2>1. k + 1 \in 0..(k + 1) /\ k + 1 # 0 /\ \A h \in (k + 1 + 1)..(k + 1) : FALSE
    OBVIOUS
  <2> QED BY <1>2, <2>1 DEF Stands
<1>3. CASE ~Moves(t[q[k + 1]])
  <2>1. i \in 0..(k + 1) /\ \A h \in (i + 1)..(k + 1) : h = k + 1 \/ h \in (i + 1)..k
    OBVIOUS
  <2>2. \A h \in (i + 1)..(k + 1) : ~Moves(t[q[h]])
    BY <1>1, <1>3, <2>1
  <2> QED BY <1>1, <1>3, <2>1, <2>2 DEF Stands
<1> QED BY <1>2, <1>3

\* A statement is read: the path grows by it, and stands where it leads.
LEMMA PathGrows ==
  ASSUME PassOK, PathsOK, ip \in Lines, Reads, prog' = prog, phase' = phase, pc' # "done",
         curPsect' = IF Moves(Stm) THEN Leads(Stm) ELSE curPsect
  PROVE  /\ PathsOK'
         /\ Len(path[phase]) \in Nat /\ Len(path'[phase]) = Len(path[phase]) + 1
         /\ path'[phase][Len(path[phase]) + 1] = ip
         /\ \A k \in 1..Len(path[phase]) : path'[phase][k] = path[phase][k]
         /\ Stands(prog.text, path'[phase], Len(path[phase]) + 1, curPsect')
         /\ \A q \in 0..2 : q # phase => path'[q] = path[q]
<1>1. PICK q \in Seq(Nat) : q = path[phase]
  BY DEF PassOK
<1>2. PICK r : r = Append(q, ip)
  OBVIOUS
<1>3. path'[phase] = r /\ \A h \in 0..2 : h # phase => path'[h] = path[h]
  BY <1>1, <1>2, ReadsShape
<1>4. ip \in Nat /\ phase \in 0..2
  BY ProgramShape DEF PassOK
<1>5. PICK n \in Nat : n = Len(q)
  OBVIOUS
<1>6. /\ Len(r) = n + 1 /\ r[n + 1] = ip /\ \A k \in 1..n : r[k] = q[k]
      /\ \A j \in 1..(n + 1) : r[j] = IF j <= n THEN q[j] ELSE ip
  BY <1>2, <1>4, <1>5
<1>7. PICK t : t = prog.text
  OBVIOUS
<1>8. Stands(t, q, n, curPsect)
  BY <1>1, <1>5, <1>7 DEF PathsOK
<1>9. Stands(t, r, n, curPsect)
  BY <1>6, <1>8, StandsStays
<1>10. Stands(t, r, n + 1, curPsect')
  <2>1. Stands(t, r, n + 1, IF Moves(t[r[n + 1]]) THEN Leads(t[r[n + 1]]) ELSE curPsect)
    BY <1>9, StandsNext
  <2>2. t[r[n + 1]] = Stm
    BY <1>6, <1>7 DEF Stm
  <2> QED BY <2>1, <2>2
<1>11. PathsOK'
  <2>1. \A h \in 0..2 : h > phase => path[h] = <<>>
    BY DEF PathsOK
  <2>2. \A h \in 0..2 : h > phase' => path'[h] = <<>>
    BY <1>3, <1>4, <2>1
  <2>3. Stands(prog'.text, path'[phase'], Len(path'[phase']), curPsect')
    BY <1>3, <1>6, <1>7, <1>10
  <2>4. \A k \in 1..n : q[k] \in Lines
    BY <1>1, <1>5 DEF PathsOK
  <2>5. Lines' = Lines
    BY DEF Lines
  <2>6. \A k \in 1..(n + 1) : k \in 1..n \/ k = n + 1
    OBVIOUS
  <2>7. \A k \in 1..(n + 1) : r[k] \in Lines
    BY <1>6, <2>4, <2>6
  <2>8. \A k \in 1..Len(path'[phase']) : path'[phase'][k] \in Lines'
    BY <1>3, <1>6, <2>5, <2>7
  <2> QED BY <2>2, <2>3, <2>8 DEF PathsOK
<1> QED BY <1>1, <1>3, <1>5, <1>6, <1>7, <1>10, <1>11

\* No path goes on: the same stays.
LEMMA PathSame ==
  ASSUME PathsOK, UNCHANGED <<prog, phase, path, curPsect>>, pc' = "done" => phase = 2 PROVE PathsOK'
<1>1. Lines' = Lines
  BY DEF Lines
<1> QED BY <1>1 DEF PathsOK

\* The labels on a path that goes on.
LEMMA OnPathGrows ==
  ASSUME NEW t, NEW q, NEW r, NEW i, NEW n \in Nat, Len(q) = n, Len(r) = n + 1, r[n + 1] = i,
         \A k \in 1..n : r[k] = q[k], NEW s
  PROVE  OnPath(t, r, s) = OnPath(t, q, s) \cup (IF IsLabel(t, i, s) THEN {n + 1} ELSE {})
<1>1. \A k : k \in 1..(n + 1) <=> k \in 1..n \/ k = n + 1
  OBVIOUS
<1>2. OnPath(t, r, s) = {k \in 1..(n + 1) : IsLabel(t, r[k], s)}
  BY DEF OnPath
<1>3. OnPath(t, q, s) = {k \in 1..n : IsLabel(t, q[k], s)}
  BY DEF OnPath
<1>4. \A k : k \in OnPath(t, r, s) <=> k \in 1..(n + 1) /\ IsLabel(t, r[k], s)
  BY <1>2
<1>5. \A k : k \in OnPath(t, q, s) <=> k \in 1..n /\ IsLabel(t, q[k], s)
  BY <1>3
<1> HIDE DEF IsLabel
<1>6. \A k : k \in OnPath(t, r, s) <=> k \in OnPath(t, q, s) \/ (k = n + 1 /\ IsLabel(t, i, s))
  BY <1>1, <1>4, <1>5
<1> QED BY <1>6

\* What a statement that is read does to the labels on the paths.
LEMMA LabelsPassed ==
  ASSUME PassOK, PathsOK, ip \in Lines, Reads, prog' = prog, phase' = phase, pc' # "done",
         curPsect' = IF Moves(Stm) THEN Leads(Stm) ELSE curPsect,
         NEW q \in 0..2, NEW s
  PROVE  /\ OnPath(prog.text, path'[q], s)
              = OnPath(prog.text, path[q], s) \cup
                  (IF q = phase /\ IsLabel(prog.text, ip, s) THEN {Len(path[q]) + 1} ELSE {})
         /\ \A p : \A k \in OnPath(prog.text, path[q], s) :
              Stands(prog.text, path[q], k, p) => Stands(prog.text, path'[q], k, p)
<1>1. CASE q # phase
  <2>1. path'[q] = path[q]
    BY <1>1, PathGrows
  <2> QED BY <1>1, <2>1
<1>2. CASE q = phase
  <2>1. PICK a : a = path[q]
    OBVIOUS
  <2>2. PICK b : b = path'[q]
    OBVIOUS
  <2>3. PICK n \in Nat : /\ n = Len(a) /\ Len(b) = n + 1 /\ b[n + 1] = ip
                         /\ \A k \in 1..n : b[k] = a[k]
    BY <1>2, <2>1, <2>2, PathGrows
  <2>4. PICK t : t = prog.text
    OBVIOUS
  <2>5. OnPath(t, b, s) = OnPath(t, a, s) \cup (IF IsLabel(t, ip, s) THEN {n + 1} ELSE {})
    BY <2>3, OnPathGrows
  <2>6. ASSUME NEW k \in OnPath(t, a, s), NEW p, Stands(t, a, k, p) PROVE Stands(t, b, k, p)
    <3>1. k \in 1..n /\ k \in Nat
      BY <2>3 DEF OnPath
    <3>2. \A h \in 1..k : b[h] = a[h]
      BY <2>3, <3>1
    <3> QED BY <2>6, <3>1, <3>2, StandsStays
  <2> QED BY <1>2, <2>1, <2>2, <2>3, <2>4, <2>5, <2>6
<1> QED BY <1>1, <1>2

LEMMA LabelStays ==
  ASSUME PassOK, PathsOK, ip \in Lines, Reads, prog' = prog, phase' = phase, pc' # "done",
         curPsect' = IF Moves(Stm) THEN Leads(Stm) ELSE curPsect,
         NEW s \in Syms \ Assigned, LabelOK(s), ~IsLabel(prog.text, ip, s) \/ phase = 2,
         sym'[s].psect = sym[s].psect, sym'[s].ext = sym[s].ext, sym'[s].undef = sym[s].undef,
         sym'[s].multi = sym[s].multi
  PROVE  LabelOK(s)'
<1>1. PICK l \in {0, 1} : l = LayPass /\ l' = LayPass' /\ l' = l
  BY DEF LayPass
<1>2. l \in 0..2 /\ 0 \in 0..2 /\ (phase = 2 => l # phase /\ 0 # phase)
  OBVIOUS
<1>3. PICK t : t = prog.text
  OBVIOUS
<1>4. ASSUME NEW q \in {0, l}
      PROVE  /\ OnPath(t, path'[q], s) = OnPath(t, path[q], s)
             /\ \A p : \A k \in OnPath(t, path[q], s) : Stands(t, path[q], k, p) => Stands(t, path'[q], k, p)
  <2>1. q \in 0..2
    BY <1>2
  <2>2. ~(q = phase /\ IsLabel(t, ip, s))
    BY <1>2, <1>3
  <2>3. /\ OnPath(t, path'[q], s) = OnPath(t, path[q], s) \cup
                                      (IF q = phase /\ IsLabel(t, ip, s) THEN {Len(path[q]) + 1} ELSE {})
        /\ \A p : \A k \in OnPath(t, path[q], s) : Stands(t, path[q], k, p) => Stands(t, path'[q], k, p)
    BY <1>3, <2>1, LabelsPassed
  <2> QED BY <2>2, <2>3
<1>5. /\ OnPath(t, path[l], s) # {} =>
           /\ sym[s].ext = None
           /\ \E k \in OnPath(t, path[l], s) :
                \E p \in Bases : Stands(t, path[l], k, p) /\ sym[s].psect = PsectName(p)
      /\ OnPath(t, path[0], s) # {} => ~sym[s].undef
      /\ \A h, k \in OnPath(t, path[0], s) : h # k => sym[s].multi
  BY <1>1, <1>3 DEF LabelOK
<1>6. /\ OnPath(t, path'[l], s) # {} =>
           /\ sym'[s].ext = None
           /\ \E k \in OnPath(t, path'[l], s) :
                \E p \in Bases : Stands(t, path'[l], k, p) /\ sym'[s].psect = PsectName(p)
      /\ OnPath(t, path'[0], s) # {} => ~sym'[s].undef
      /\ \A h, k \in OnPath(t, path'[0], s) : h # k => sym'[s].multi
  BY <1>4, <1>5
<1>7. prog'.text = t /\ LayPass' = l
  BY <1>1, <1>3
<1> QED BY <1>6, <1>7 DEF LabelOK

\* A label is passed, and gets its place.
LEMMA LabelHere ==
  ASSUME PassOK, PathsOK, PlaceOK, ip \in Lines, Reads, prog' = prog, phase' = phase, pc' # "done",
         phase # 2, curPsect' = curPsect, ~Moves(Stm),
         NEW s \in Syms \ Assigned, LabelOK(s), IsLabel(prog.text, ip, s), sym[s].undef \in BOOLEAN,
         sym'[s].psect = PsectName(curPsect), sym'[s].ext = None,
         phase = 1 => sym'[s].undef = sym[s].undef /\ sym'[s].multi = sym[s].multi,
         phase = 0 => sym'[s].undef = FALSE /\ sym'[s].multi = (sym[s].multi \/ ~sym[s].undef)
  PROVE  LabelOK(s)'
<1>1. phase \in {0, 1} /\ (phase = 1 => prog.j)
  BY DEF PassOK
<1>2. LayPass = phase /\ LayPass' = phase
  BY <1>1 DEF LayPass
<1>3. PICK t : t = prog.text
  OBVIOUS
<1>4. PICK n : n = Len(path[phase]) + 1
  OBVIOUS
<1>5. Stands(t, path'[phase], n, curPsect) /\ curPsect \in Bases
  <2>1. curPsect' = IF Moves(Stm) THEN Leads(Stm) ELSE curPsect
    OBVIOUS
  <2>2. Stands(prog.text, path'[phase], Len(path[phase]) + 1, curPsect')
    BY <2>1, PathGrows
  <2> QED BY <1>3, <1>4, <2>2, HereNat
<1>6. ASSUME NEW q \in 0..2
      PROVE  OnPath(t, path'[q], s) = OnPath(t, path[q], s) \cup (IF q = phase THEN {n} ELSE {})
  <2>1. curPsect' = IF Moves(Stm) THEN Leads(Stm) ELSE curPsect
    OBVIOUS
  <2>2. OnPath(t, path'[q], s) = OnPath(t, path[q], s) \cup
                                   (IF q = phase /\ IsLabel(t, ip, s) THEN {Len(path[q]) + 1} ELSE {})
    BY <1>3, <2>1, LabelsPassed
  <2> QED BY <1>3, <1>4, <2>2
<1>7. /\ OnPath(t, path[0], s) # {} => ~sym[s].undef
      /\ \A h, k \in OnPath(t, path[0], s) : h # k => sym[s].multi
  BY <1>3 DEF LabelOK
<1>8. n \in OnPath(t, path'[phase], s)
  BY <1>1, <1>6
<1>9. OnPath(t, path'[0], s) # {} => ~sym'[s].undef
  <2>1. CASE phase = 0
    BY <2>1
  <2>2. CASE phase = 1
    <3>1. OnPath(t, path'[0], s) = OnPath(t, path[0], s)
      BY <1>6, <2>2
    <3> QED BY <1>7, <2>2, <3>1
  <2> QED BY <1>1, <2>1, <2>2
<1>10. \A h, k \in OnPath(t, path'[0], s) : h # k => sym'[s].multi
  <2>1. CASE phase = 0
    <3>1. OnPath(t, path'[0], s) = OnPath(t, path[0], s) \cup {n}
      BY <1>6, <2>1
    <3> QED BY <1>7, <2>1, <3>1
  <2>2. CASE phase = 1
    <3>1. OnPath(t, path'[0], s) = OnPath(t, path[0], s)
      BY <1>6, <2>2
    <3> QED BY <1>7, <2>2, <3>1
  <2> QED BY <1>1, <2>1, <2>2
<1>11. prog'.text = t
  BY <1>3
<1> QED BY <1>2, <1>5, <1>8, <1>9, <1>10, <1>11 DEF LabelOK

\* What a statement that is read leaves of what was said of those before.
SymStays(s) == sym'[s].val = sym[s].val /\ sym'[s].psect = sym[s].psect /\ sym'[s].ext = sym[s].ext
              /\ sym'[s].undef = sym[s].undef /\ sym'[s].multi = sym[s].multi
StatementRead == /\ pc = "pass" /\ ip \in Lines /\ Reads /\ prog' = prog /\ phase' = phase /\ pc' # "done"
           /\ curPsect' = IF Moves(Stm) THEN Leads(Stm) ELSE curPsect

LEMMA AssignedShape == prog' = prog => Lines' = Lines /\ Assigned' = Assigned
BY DEF Lines, Assigned

LEMMA LabelsStay ==
  ASSUME PassOK, PathsOK, LabelsOK, StatementRead, Stm.t # "label", \A s \in Syms \ Assigned : SymStays(s)
  PROVE  LabelsOK'
<1>1. Assigned' = Assigned
  BY AssignedShape DEF StatementRead
<1>2. ASSUME NEW s \in Syms \ Assigned PROVE LabelOK(s)'
  <2>1. ~IsLabel(prog.text, ip, s)
    BY DEF IsLabel, Stm
  <2>2. LabelOK(s)
    BY DEF LabelsOK
  <2>3. SymStays(s)
    OBVIOUS
  <2> QED BY <2>1, <2>2, <2>3, LabelStays DEF StatementRead, SymStays
<1> QED BY <1>1, <1>2 DEF LabelsOK

LEMMA RefersShape ==
  ASSUME NEW st \in Stmt, Refers(st)
  PROVE  /\ RefExpr(st) \in Expr /\ RefExpr(st).a.s \in Syms /\ st.t \in {"jp", "jr", "code"}
         /\ st.t # "code" => RefExpr(st) = st.e
         /\ st.t = "code" => /\ st.items \in Seq(Item) /\ Len(st.items) = 2 /\ st.items[2].w = 2
                             /\ RefExpr(st) = st.items[2].e
<1>1. RefExpr(st) \in Expr
  <2>1. CASE st.t = "code"
    <3>1. st.items \in Seq(Item) /\ Len(st.items) = 2 /\ st.items[2].w = 2
      BY <2>1, StmtShape DEF Refers
    <3>2. 2 \in 1..2
      OBVIOUS
    <3>3. st.items[2] \in Item
      BY <3>1, <3>2
    <3> QED BY <2>1, <3>1, <3>3, ItemShape DEF RefExpr
  <2>2. CASE st.t # "code"
    BY <2>2, StmtShape DEF RefExpr, Refers
  <2> QED BY <2>1, <2>2
<1>2. RefExpr(st).a \in Atom /\ RefExpr(st).a.k = "sym"
  BY <1>1, ExprShape DEF Refers
<1>3. RefExpr(st).a.s \in Syms
  BY <1>2, AtomShape
<1>4. st.t = "code" => st.items \in Seq(Item) /\ Len(st.items) = 2 /\ st.items[2].w = 2
  BY StmtShape DEF Refers
<1>5. st.t \in {"jp", "jr", "code"}
  BY DEF Refers
<1> QED BY <1>1, <1>3, <1>4, <1>5 DEF RefExpr

LEMMA SoundStays ==
  ASSUME PassOK, prog' = prog, NEW r, r.ip \in Lines,
         \A s \in Syms \ Assigned : sym'[s].val = sym[s].val /\ sym'[s].psect = sym[s].psect
                                    /\ sym'[s].ext = sym[s].ext /\ sym'[s].multi = sym[s].multi,
         LabelSound(prog.text[r.ip], r.at), RefSound(prog.text[r.ip], r)
  PROVE  LabelSound(prog.text[r.ip], r.at)' /\ RefSound(prog.text[r.ip], r)'
<1>1. PICK st \in Stmt : st = prog.text[r.ip]
  BY ProgramShape
<1>2. Assigned' = Assigned
  BY AssignedShape
<1>3. LabelSound(st, r.at)'
  <2>1. st.t = "label" => st.s \in Syms
    BY StmtShape
  <2> QED BY <1>1, <1>2, <2>1 DEF LabelSound
<1>4. RefSound(st, r)'
  <2>1. ASSUME Refers(st), RefExpr(st).a.s \notin Assigned PROVE Goes(r, SymValue(RefExpr(st).a.s)')
    <3>1. PICK s \in Syms \ Assigned : s = RefExpr(st).a.s
      BY <2>1, RefersShape
    <3>2. SymValue(s)' = SymValue(s)
      BY DEF SymValue
    <3>3. Goes(r, SymValue(s))
      BY <1>1, <2>1, <3>1 DEF RefSound
    <3> QED BY <3>1, <3>2, <3>3
  <2> QED BY <1>2, <2>1 DEF RefSound
<1>5. (prog.text[r.ip] = st)'
  BY <1>1
<1> QED BY <1>3, <1>4, <1>5

LEMMA VisitStays ==
  ASSUME PassOK, PathsOK, StatementRead, phase = 2, NEW r, r.ip \in Lines, VisitOK(r), numerror' = 0 => numerror = 0,
         \A s \in Syms \ Assigned : SymStays(s)
  PROVE  VisitOK(r)'
<1>1. prog' = prog
  BY DEF StatementRead
<1>2. numerror' = 0 => LabelSound(prog.text[r.ip], r.at)' /\ RefSound(prog.text[r.ip], r)'
  <2>1. ASSUME numerror' = 0 PROVE LabelSound(prog.text[r.ip], r.at) /\ RefSound(prog.text[r.ip], r)
    BY <2>1 DEF VisitOK
  <2>2. \A s \in Syms \ Assigned : sym'[s].val = sym[s].val /\ sym'[s].psect = sym[s].psect
                                    /\ sym'[s].ext = sym[s].ext /\ sym'[s].multi = sym[s].multi
    BY DEF SymStays
  <2> QED BY <1>1, <2>1, <2>2, SoundStays
<1>3. Met(r, path[2])
  BY DEF VisitOK
<1>4. PICK a : a = path[2]
  OBVIOUS
<1>5. PICK b : b = path'[2]
  OBVIOUS
<1>6. PICK n \in Nat : n = Len(a) /\ Len(b) = n + 1 /\ \A k \in 1..n : b[k] = a[k]
  BY <1>4, <1>5, PathGrows DEF StatementRead
<1>7. PICK k \in 1..n : a[k] = r.ip /\ Stands(prog.text, a, k, r.psect)
  BY <1>3, <1>4, <1>6 DEF Met
<1>8. Stands(prog.text, b, k, r.psect)
  <2>1. \A h \in 1..k : b[h] = a[h]
    BY <1>6
  <2> QED BY <1>7, <2>1, StandsStays
<1>9. Met(r, path[2])'
  <2>1. k \in 1..(n + 1) /\ b[k] = r.ip
    BY <1>6, <1>7
  <2> QED BY <1>1, <1>5, <1>6, <1>8, <2>1 DEF Met
<1> QED BY <1>2, <1>9 DEF VisitOK

LEMMA VisitNew ==
  ASSUME PassOK, PathsOK, StatementRead, phase = 2, ~Moves(Stm), NEW r, r.ip = ip, r.psect = curPsect,
         numerror' = 0 => LabelSound(prog.text[r.ip], r.at)' /\ RefSound(prog.text[r.ip], r)'
  PROVE  VisitOK(r)'
<1>1. PICK b : b = path'[2]
  OBVIOUS
<1>2. curPsect' = curPsect /\ prog' = prog
  BY DEF StatementRead
<1>3. PICK n \in Nat : Len(b) = n + 1 /\ b[n + 1] = ip /\ Stands(prog.text, b, n + 1, curPsect)
  BY <1>1, <1>2, PathGrows DEF StatementRead
<1>4. Met(r, path[2])'
  <2>1. n + 1 \in 1..(n + 1)
    OBVIOUS
  <2> QED BY <1>1, <1>2, <1>3, <2>1 DEF Met
<1> QED BY <1>4 DEF VisitOK

\* What is said of the visits, when none is made and when one is.
LEMMA LandQuiet ==
  ASSUME PassOK, RecordOK, LandInv, StatementRead, trace' = trace, LabelsOK',
         phase = 2 => (\A s \in Syms \ Assigned : SymStays(s)) /\ (numerror' = 0 => numerror = 0)
  PROVE  LandInv'
<1>1. PathsOK /\ TraceOK
  BY DEF LandInv
<1>2. PathsOK'
  BY <1>1, PathGrows DEF StatementRead
<1>3. Lines' = Lines /\ phase' = phase
  BY AssignedShape DEF StatementRead
<1>4. TraceOK'
  <2> SUFFICES ASSUME phase = 2
               PROVE  \A m \in 1..Len(trace') : trace'[m].ip \in Lines /\ VisitOK(trace[m])'
    BY <1>3 DEF TraceOK
  <2>1. PICK t : t = trace
    OBVIOUS
  <2>2. ASSUME NEW m \in 1..Len(t) PROVE trace'[m].ip \in Lines /\ VisitOK(trace[m])'
    <3>1. PICK r : r = t[m]
      OBVIOUS
    <3>2. r.ip \in Lines /\ VisitOK(r)
      BY <1>1, <2>1, <2>2, <3>1 DEF TraceOK
    <3>3. VisitOK(r)'
      BY <1>1, <3>2, VisitStays
    <3>4. (trace[m] = r)'
      BY <2>1, <3>1
    <3> QED BY <3>2, <3>3, <3>4
  <2> QED BY <2>1, <2>2
<1> QED BY <1>2, <1>4 DEF LandInv

LEMMA LandVisit ==
  ASSUME PassOK, PlaceOK, RecordOK, LandInv, StatementRead, LabelsOK', ~Moves(Stm),
         NEW f \in Seq(Fields), Visit(f),
         NEW r, r = [ip |-> ip, psect |-> curPsect, at |-> Here, fields |-> f],
         phase = 2 => /\ \A s \in Syms \ Assigned : SymStays(s)
                      /\ numerror' = 0 => /\ numerror = 0
                                          /\ LabelSound(prog.text[r.ip], r.at)'
                                          /\ RefSound(prog.text[r.ip], r)'
  PROVE  LandInv'
<1>1. PathsOK /\ TraceOK
  BY DEF LandInv
<1>2. PathsOK'
  BY <1>1, PathGrows DEF StatementRead
<1>3. Lines' = Lines /\ phase' = phase /\ ip \in Lines
  BY AssignedShape DEF StatementRead
<1>4. TraceOK'
  <2> SUFFICES ASSUME phase = 2
               PROVE  \A m \in 1..Len(trace') : trace'[m].ip \in Lines /\ VisitOK(trace[m])'
    BY <1>3 DEF TraceOK
  <2>1. PICK t \in Seq(Visits) : t = trace
    BY DEF RecordOK
  <2>2. trace' = Append(t, r) /\ r \in Visits
    BY <2>1, VisitStep
  <2>3. PICK n \in Nat : n = Len(t)
    BY <2>1
  <2>4. Len(trace') = n + 1 /\ trace'[n + 1] = r /\ \A m \in 1..n : trace'[m] = t[m]
    BY <2>1, <2>2, <2>3
  <2>5. ASSUME NEW m \in 1..n PROVE trace'[m].ip \in Lines /\ VisitOK(trace[m])'
    <3>1. PICK q : q = t[m]
      OBVIOUS
    <3>2. q.ip \in Lines /\ VisitOK(q)
      BY <1>1, <2>1, <2>3, <2>5, <3>1 DEF TraceOK
    <3>3. VisitOK(q)'
      BY <1>1, <3>2, VisitStays
    <3>4. (trace[m] = q)'
      BY <2>4, <3>1
    <3> QED BY <3>2, <3>3, <3>4
  <2>6. trace'[n + 1].ip \in Lines /\ VisitOK(trace[n + 1])'
    <3>1. r.ip = ip /\ r.psect = curPsect
      OBVIOUS
    <3>2. VisitOK(r)'
      BY <1>1, <3>1, VisitNew
    <3>3. (trace[n + 1] = r)'
      BY <2>4
    <3> QED BY <1>3, <3>1, <3>2, <3>3
  <2>7. \A m \in 1..(n + 1) : m \in 1..n \/ m = n + 1
    OBVIOUS
  <2>8. ASSUME NEW m \in 1..(n + 1) PROVE trace'[m].ip \in Lines /\ VisitOK(trace[m])'
    <3>1. CASE m \in 1..n
      BY <2>5, <3>1
    <3>2. CASE m = n + 1
      <4>1. (trace[m] = trace[n + 1])'
        BY <3>2
      <4> QED BY <2>6, <4>1
    <3> QED BY <2>7, <3>1, <3>2
  <2> QED BY <2>4, <2>8
<1> QED BY <1>2, <1>4 DEF LandInv

\* What a label statement makes of the table.
LEMMA LabelTable ==
  ASSUME TypeInv, Label
  PROVE  /\ phase = 2 => \A r \in Syms : SymStays(r)
         /\ \A r \in Syms \ {Stm.s} : SymStays(r)
         /\ phase # 2 => sym'[Stm.s].val = Here /\ sym'[Stm.s].ext = None /\ sym'[Stm.s].psect = PsectName(curPsect)
         /\ phase = 1 => sym'[Stm.s].undef = sym[Stm.s].undef /\ sym'[Stm.s].multi = sym[Stm.s].multi
         /\ phase = 0 => /\ sym'[Stm.s].undef = FALSE
                         /\ sym'[Stm.s].multi = (sym[Stm.s].multi \/ ~sym[Stm.s].undef)
         /\ Stm.s \in Syms /\ sym[Stm.s].undef \in BOOLEAN
<1>1. PassOK /\ PlaceOK /\ SymOK
  BY DEF TypeInv
<1>2. PICK s : s = Stm.s
  OBVIOUS
<1>3. PICK table : table = Defined(sym, s)
  OBVIOUS
<1>4. /\ pc = "pass" /\ ip \in Lines /\ Stm.t = "label"
      /\ sym' = IF phase = 2 THEN table
                ELSE [table EXCEPT ![s].val = Here, ![s].ext = None,
                                   ![s].psect = IF curPsect = Abs THEN None ELSE curPsect]
  <2>1. /\ pc = "pass" /\ ip \in Lines /\ Stm.t = "label"
        /\ sym' = IF phase = 2 THEN Defined(sym, Stm.s)
                  ELSE [Defined(sym, Stm.s) EXCEPT ![Stm.s].val = Here, ![Stm.s].ext = None,
                                     ![Stm.s].psect = IF curPsect = Abs THEN None ELSE curPsect]
    BY Zenon DEF Label, At
  <2> QED BY <1>2, <1>3, <2>1
<1>5. s \in Syms
  BY <1>1, <1>2, <1>4, StatementAt, StmtShape
<1>6. sym \in [Syms -> SymRec]
  BY <1>1 DEF SymOK
<1>7. /\ table \in [Syms -> SymRec]
      /\ \A r \in Syms : /\ table[r].val = sym[r].val
                         /\ table[r].psect = sym[r].psect
                         /\ table[r].ext = sym[r].ext
                         /\ (phase # 0 \/ r # s => table[r].undef = sym[r].undef /\ table[r].multi = sym[r].multi)
      /\ phase = 0 => table[s].undef = FALSE /\ table[s].multi = (sym[s].multi \/ ~sym[s].undef)
  <2>1. /\ Defined(sym, s) \in [Syms -> SymRec]
        /\ \A r \in Syms : /\ Defined(sym, s)[r].val = sym[r].val
                           /\ Defined(sym, s)[r].psect = sym[r].psect
                           /\ Defined(sym, s)[r].ext = sym[r].ext
                           /\ (phase # 0 \/ r # s =>
                                 /\ Defined(sym, s)[r].undef = sym[r].undef
                                 /\ Defined(sym, s)[r].multi = sym[r].multi)
        /\ phase = 0 => /\ Defined(sym, s)[s].undef = FALSE
                        /\ Defined(sym, s)[s].multi = (sym[s].multi \/ ~sym[s].undef)
    BY <1>5, <1>6, DefinedShape
  <2> QED BY <1>3, <2>1
<1>8. PICK p : p = PsectName(curPsect)
  OBVIOUS
<1>9. PICK h : h = Here
  OBVIOUS
<1>10. phase # 2 => sym' = [table EXCEPT ![s].val = h, ![s].ext = None, ![s].psect = p]
  BY <1>4, <1>8, <1>9 DEF PsectName
<1>11. PICK x \in SymRec : x = table[s]
  BY <1>5, <1>7
<1>12. PICK y : y = [x EXCEPT !.val = h, !.ext = None, !.psect = p]
  OBVIOUS
<1>13. y.val = h /\ y.ext = None /\ y.psect = p /\ y.undef = x.undef /\ y.multi = x.multi
  BY <1>12 DEF SymRec
<1>14. phase # 2 => sym' = [table EXCEPT ![s] = y]
  BY <1>5, <1>7, <1>10, <1>11, <1>12
<1>15. phase # 2 => sym'[s] = y /\ \A r \in Syms \ {s} : sym'[r] = table[r]
  BY <1>5, <1>7, <1>14
<1>16. phase = 2 => \A r \in Syms : SymStays(r)
  BY <1>4, <1>7 DEF SymStays
<1>17. \A r \in Syms \ {s} : SymStays(r)
  <2>1. CASE phase = 2
    BY <1>16, <2>1
  <2>2. CASE phase # 2
    <3>1. ASSUME NEW r \in Syms \ {s} PROVE SymStays(r)
      <4>1. sym'[r] = table[r] /\ r # s
        BY <1>15, <2>2
      <4> QED BY <1>7, <4>1 DEF SymStays
    <3> QED BY <3>1
  <2> QED BY <2>1, <2>2
<1>18. sym[s].undef \in BOOLEAN
  <2>1. sym[s] \in SymRec
    BY <1>5, <1>6
  <2> QED BY <2>1 DEF SymRec
<1>19. phase = 1 => phase # 2 /\ phase # 0
  OBVIOUS
<1>20. phase = 0 => phase # 2
  OBVIOUS
<1>21. phase # 2 => sym'[s].val = Here /\ sym'[s].ext = None /\ sym'[s].psect = PsectName(curPsect)
  BY <1>8, <1>9, <1>13, <1>15
<1>22. phase = 1 => sym'[s].undef = sym[s].undef /\ sym'[s].multi = sym[s].multi
  BY <1>5, <1>7, <1>11, <1>13, <1>15, <1>19
<1>23. phase = 0 => sym'[s].undef = FALSE /\ sym'[s].multi = (sym[s].multi \/ ~sym[s].undef)
  BY <1>5, <1>7, <1>11, <1>13, <1>15, <1>20
<1> QED BY <1>2, <1>5, <1>16, <1>17, <1>18, <1>21, <1>22, <1>23

LEMMA LabelLands == ASSUME TypeInv, LandInv, Label PROVE LandInv'
<1>1. PassOK /\ PlaceOK /\ SymOK /\ RecordOK /\ PathsOK /\ LabelsOK
  BY DEF TypeInv, LandInv
<1>2. /\ pc = "pass" /\ ip \in Lines /\ Stm.t = "label" /\ Visit(<<>>) /\ NextLine
      /\ Report(MultDef(Stm.s) + PhaseError(Stm.s), "pass") /\ curPsect' = curPsect
  BY Zenon DEF Label, At
<1>3. PICK s \in Syms : s = Stm.s
  BY <1>1, <1>2, StatementAt, StmtShape
<1>4. PICK x \in Nat : x = MultDef(s)
  BY DEF MultDef, CountIf
<1>5. PICK y \in Nat : y = PhaseError(s)
  BY DEF PhaseError, CountIf
<1>6. PICK n \in Nat : n = x + y
  OBVIOUS
<1>7. pc' \in {"pass", "failed"} /\ (phase = 2 /\ numerror' = 0 => numerror = 0 /\ n = 0)
  <2>1. Report(n, "pass")
    BY <1>2, <1>3, <1>4, <1>5, <1>6
  <2> QED BY <1>1, <2>1, ReportShape
<1>8. ~Moves(Stm) /\ ~Refers(Stm)
  BY <1>2 DEF Moves, Refers
<1>9. StatementRead
  BY <1>2, <1>7, <1>8 DEF StatementRead, NextLine
<1>10. LabelsOK'
  <2>1. Assigned' = Assigned
    BY <1>9, AssignedShape DEF StatementRead
  <2>2. ASSUME NEW r \in Syms \ Assigned PROVE LabelOK(r)'
    <3>1. LabelOK(r)
      BY <1>1 DEF LabelsOK
    <3>2. IsLabel(prog.text, ip, r) <=> r = s
      BY <1>2, <1>3 DEF IsLabel, Stm
    <3>3. CASE r = s /\ phase # 2
      <4>1. /\ sym'[r].psect = PsectName(curPsect) /\ sym'[r].ext = None
            /\ phase = 1 => sym'[r].undef = sym[r].undef /\ sym'[r].multi = sym[r].multi
            /\ phase = 0 => sym'[r].undef = FALSE /\ sym'[r].multi = (sym[r].multi \/ ~sym[r].undef)
            /\ sym[r].undef \in BOOLEAN
        BY <1>3, <3>3, LabelTable
      <4>2. ip \in Lines /\ Reads /\ prog' = prog /\ phase' = phase /\ pc' # "done"
        BY <1>9 DEF StatementRead
      <4> QED BY <1>1, <1>2, <1>8, <3>1, <3>2, <3>3, <4>1, <4>2, LabelHere
    <3>4. CASE r # s \/ phase = 2
      <4>1. SymStays(r)
        BY <1>3, <3>4, LabelTable
      <4>2. ip \in Lines /\ Reads /\ prog' = prog /\ phase' = phase /\ pc' # "done"
            /\ curPsect' = IF Moves(Stm) THEN Leads(Stm) ELSE curPsect
        BY <1>9 DEF StatementRead
      <4>3. ~IsLabel(prog.text, ip, r) \/ phase = 2
        BY <3>2, <3>4
      <4>4. /\ sym'[r].psect = sym[r].psect /\ sym'[r].ext = sym[r].ext
            /\ sym'[r].undef = sym[r].undef /\ sym'[r].multi = sym[r].multi
        BY <4>1 DEF SymStays
      <4> QED BY <1>1, <3>1, <4>2, <4>3, <4>4, LabelStays
    <3> QED BY <3>3, <3>4
  <2> QED BY <2>1, <2>2 DEF LabelsOK
<1>11. <<>> \in Seq(Fields)
  OBVIOUS
<1>12. PICK f \in Seq(Fields) : f = <<>>
  BY <1>11
<1>13. PICK r : r = [ip |-> ip, psect |-> curPsect, at |-> Here, fields |-> f]
  OBVIOUS
<1>14. r.ip = ip /\ r.at = Here
  BY <1>13
<1>15. phase = 2 => \A q \in Syms \ Assigned : SymStays(q)
  BY LabelTable
<1>16. ASSUME phase = 2, numerror' = 0
       PROVE  numerror = 0 /\ LabelSound(prog.text[r.ip], r.at)' /\ RefSound(prog.text[r.ip], r)'
  <2>1. numerror = 0 /\ x = 0 /\ y = 0
    BY <1>6, <1>7, <1>16
  <2>2. ~sym[s].multi /\ sym[s].val = Here
    BY <1>4, <1>5, <1>16, <2>1 DEF MultDef, PhaseError, CountIf
  <2>3. sym'[s].multi = sym[s].multi /\ sym'[s].val = sym[s].val
    BY <1>16, LabelTable DEF SymStays
  <2>4. PICK st : st = Stm
    OBVIOUS
  <2>5. (prog.text[r.ip] = st)'
    BY <1>9, <1>14, <2>4 DEF StatementRead, Stm
  <2>6. LabelSound(st, r.at)'
    BY <1>3, <1>14, <2>2, <2>3, <2>4 DEF LabelSound
  <2>7. RefSound(st, r)'
    BY <1>8, <2>4 DEF RefSound
  <2> QED BY <2>1, <2>5, <2>6, <2>7
<1>17. Visit(f)
  BY <1>2, <1>12
<1> QED BY <1>1, <1>8, <1>9, <1>10, <1>13, <1>15, <1>16, <1>17, LandVisit

\* A statement that is no label, changes no label, and meets no place.
LEMMA LandAlong ==
  ASSUME TypeInv, LandInv, StatementRead, Stm.t # "label", trace' = trace,
         \A s \in Syms \ Assigned : SymStays(s), phase = 2 /\ numerror' = 0 => numerror = 0
  PROVE  LandInv'
<1>1. PassOK /\ RecordOK /\ PathsOK /\ LabelsOK
  BY DEF TypeInv, LandInv
<1>2. LabelsOK'
  BY <1>1, LabelsStay
<1> QED BY <1>1, <1>2, LandQuiet

LEMMA EvaluateStays ==
  ASSUME TypeInv, NEW e \in Expr, NEW stray, NEW more \in Nat, Evaluate(e, stray, more)
  PROVE  /\ \A s \in Syms : SymStays(s)
         /\ pc' # "done" /\ (phase = 2 /\ numerror' = 0 => numerror = 0 /\ more = 0)
<1>1. PassOK /\ SymOK
  BY DEF TypeInv
<1>2. /\ pc' \in {"pass", "failed"}
      /\ phase = 2 /\ numerror' = 0 => numerror = 0 /\ more = 0
      /\ \A s \in Syms : /\ sym'[s].val = sym[s].val /\ sym'[s].psect = sym[s].psect
                         /\ sym'[s].ext = sym[s].ext /\ sym'[s].undef = sym[s].undef
                         /\ sym'[s].multi = sym[s].multi
  BY <1>1, EvaluateStep
<1> QED BY <1>2 DEF SymStays

LEMMA StatementNow == ASSUME TypeInv, ip \in Lines PROVE Stm \in Stmt
BY StatementAt DEF TypeInv

LEMMA AssignLands == ASSUME TypeInv, LandInv, Assign PROVE LandInv'
<1>1. PassOK /\ SymOK
  BY DEF TypeInv
<1>2. /\ pc = "pass" /\ ip \in Lines /\ Stm.t \in {"equ", "defl"} /\ NextLine
      /\ curPsect' = curPsect /\ trace' = trace
  BY Zenon DEF Assign
<1>3. PICK s : s = Stm.s
  OBVIOUS
<1>4. PICK table : table = IF Stm.t = "equ" THEN Defined(sym, s) ELSE [sym EXCEPT ![s].known = TRUE]
  OBVIOUS
<1>5. PICK stray \in Strays :
        LET v == EvalExpr(Stm.e, stray)
        IN /\ sym' = [Mentioned(table, Mentions(Stm.e)) EXCEPT
                        ![s].val = v.val, ![s].psect = v.psect, ![s].ext = v.ext, ![s].undef = FALSE]
           /\ Report((IF Stm.t = "equ" THEN MultDef(s) ELSE 0) + ExprErrors(Stm.e, stray), "pass")
  <2>1. \E stray \in Strays :
          LET v == EvalExpr(Stm.e, stray)
              tb == IF Stm.t = "equ" THEN Defined(sym, Stm.s) ELSE [sym EXCEPT ![Stm.s].known = TRUE]
          IN /\ sym' = [Mentioned(tb, Mentions(Stm.e)) EXCEPT
                        ![Stm.s].val = v.val, ![Stm.s].psect = v.psect, ![Stm.s].ext = v.ext,
                        ![Stm.s].undef = FALSE]
             /\ Report((IF Stm.t = "equ" THEN MultDef(Stm.s) ELSE 0) + ExprErrors(Stm.e, stray), "pass")
    BY Zenon DEF Assign
  <2> QED BY <1>3, <1>4, <2>1, Zenon
<1>6. s \in Syms /\ Stm.e \in Expr
  BY <1>2, <1>3, StatementNow, StmtShape
<1>7. PICK x \in Nat : x = ExprErrors(Stm.e, stray)
  BY <1>6, ErrorsNat
<1>8. PICK y \in Nat : y = IF Stm.t = "equ" THEN MultDef(s) ELSE 0
  BY DEF MultDef, CountIf
<1>9. pc' \in {"pass", "failed"} /\ (phase = 2 /\ numerror' = 0 => numerror = 0)
  <2>1. PICK n \in Nat : n = y + x
    OBVIOUS
  <2>2. Report(n, "pass")
    BY <1>5, <1>7, <1>8, <2>1
  <2> QED BY <1>1, <2>2, ReportShape
<1>10. StatementRead
  <2>1. ~Moves(Stm)
    BY <1>2 DEF Moves
  <2> QED BY <1>2, <1>9, <2>1 DEF StatementRead, NextLine
<1>11. s \in Assigned
  BY <1>2, <1>3 DEF Assigned, Stm
<1>12. sym \in [Syms -> SymRec] /\ phase \in 0..2
  BY <1>1 DEF SymOK, PassOK
<1>13. /\ table \in [Syms -> SymRec]
       /\ \A r \in Syms \ {s} : /\ table[r].val = sym[r].val /\ table[r].psect = sym[r].psect
                                /\ table[r].ext = sym[r].ext /\ table[r].undef = sym[r].undef
                                /\ table[r].multi = sym[r].multi
  <2>1. CASE Stm.t = "equ"
    <3>1. /\ Defined(sym, s) \in [Syms -> SymRec]
          /\ \A r \in Syms : /\ Defined(sym, s)[r].val = sym[r].val
                             /\ Defined(sym, s)[r].psect = sym[r].psect
                             /\ Defined(sym, s)[r].ext = sym[r].ext
                             /\ (phase # 0 \/ r # s =>
                                   /\ Defined(sym, s)[r].undef = sym[r].undef
                                   /\ Defined(sym, s)[r].multi = sym[r].multi)
          /\ phase = 0 => /\ Defined(sym, s)[s].undef = FALSE
                          /\ Defined(sym, s)[s].multi = (sym[s].multi \/ ~sym[s].undef)
      BY <1>6, <1>12, DefinedShape
    <3> QED BY <1>4, <2>1, <3>1
  <2>2. CASE Stm.t # "equ"
    <3>1. table = [sym EXCEPT ![s].known = TRUE]
      BY <1>4, <2>2
    <3>2. table \in [Syms -> SymRec]
      BY <1>6, <1>12, <3>1 DEF SymRec
    <3>3. \A r \in Syms \ {s} : table[r] = sym[r]
      BY <1>6, <1>12, <3>1
    <3> QED BY <3>2, <3>3
  <2> QED BY <2>1, <2>2
<1>14. PICK tb : tb = Mentioned(table, Mentions(Stm.e))
  OBVIOUS
<1>15. /\ tb \in [Syms -> SymRec]
       /\ \A r \in Syms : /\ tb[r].val = table[r].val /\ tb[r].psect = table[r].psect
                          /\ tb[r].ext = table[r].ext /\ tb[r].undef = table[r].undef
                          /\ tb[r].multi = table[r].multi
  <2>1. PICK N : N = Mentions(Stm.e)
    OBVIOUS
  <2>2. /\ Mentioned(table, N) \in [Syms -> SymRec]
        /\ \A r \in Syms : /\ Mentioned(table, N)[r].val = table[r].val
                           /\ Mentioned(table, N)[r].psect = table[r].psect
                           /\ Mentioned(table, N)[r].ext = table[r].ext
                           /\ Mentioned(table, N)[r].undef = table[r].undef
                           /\ Mentioned(table, N)[r].multi = table[r].multi
    BY <1>12, <1>13, MentionedShape
  <2> QED BY <1>14, <2>1, <2>2
<1>16. \A r \in Syms \ {s} : sym'[r] = tb[r]
  <2>1. PICK v : v = EvalExpr(Stm.e, stray)
    OBVIOUS
  <2>2. sym' = [tb EXCEPT ![s].val = v.val, ![s].psect = v.psect, ![s].ext = v.ext, ![s].undef = FALSE]
    BY <1>5, <1>14, <2>1
  <2> QED BY <1>6, <1>15, <2>2
<1>17. \A r \in Syms \ Assigned : SymStays(r)
  <2>1. ASSUME NEW r \in Syms \ Assigned PROVE SymStays(r)
    <3>1. r \in Syms \ {s}
      BY <1>11
    <3> QED BY <1>13, <1>15, <1>16, <3>1 DEF SymStays
  <2> QED BY <2>1
<1> QED BY <1>2, <1>9, <1>10, <1>17, LandAlong

LEMMA GlobalLands == ASSUME TypeInv, LandInv, Global PROVE LandInv'
<1>1. PassOK /\ SymOK
  BY DEF TypeInv
<1>2. /\ pc = "pass" /\ ip \in Lines /\ Stm.t = "global" /\ NextLine /\ pc' = pc
      /\ curPsect' = curPsect /\ trace' = trace /\ numerror' = numerror
      /\ sym' = [sym EXCEPT ![Stm.s].known = TRUE, ![Stm.s].glob = TRUE]
  BY Zenon DEF Global, At
<1>3. StatementRead
  <2>1. ~Moves(Stm)
    BY <1>2 DEF Moves
  <2> QED BY <1>2, <2>1 DEF StatementRead, NextLine
<1>4. PICK s \in Syms : s = Stm.s
  BY <1>2, StatementNow, StmtShape
<1>5. sym \in [Syms -> SymRec]
  BY <1>1 DEF SymOK
<1>6. PICK x \in SymRec : x = sym[s]
  BY <1>4, <1>5
<1>7. PICK y : y = [x EXCEPT !.known = TRUE, !.glob = TRUE]
  OBVIOUS
<1>8. y.val = x.val /\ y.ext = x.ext /\ y.psect = x.psect /\ y.undef = x.undef /\ y.multi = x.multi
  BY <1>7 DEF SymRec
<1>9. sym' = [sym EXCEPT ![s] = y]
  BY <1>2, <1>4, <1>5, <1>6, <1>7
<1>10. ASSUME NEW r \in Syms PROVE SymStays(r)
  <2>1. sym'[r] = IF r = s THEN y ELSE sym[r]
    BY <1>5, <1>9
  <2> QED BY <1>6, <1>8, <2>1 DEF SymStays
<1> QED BY <1>2, <1>3, <1>10, LandAlong

LEMMA EndcLands == ASSUME TypeInv, LandInv, Endc PROVE LandInv'
<1>1. /\ pc = "pass" /\ ip \in Lines /\ Stm.t = "endc" /\ NextLine /\ pc' = pc
      /\ curPsect' = curPsect /\ trace' = trace /\ numerror' = numerror /\ sym' = sym
  BY Zenon DEF Endc, At, tabVars
<1>2. StatementRead
  <2>1. ~Moves(Stm)
    BY <1>1 DEF Moves
  <2> QED BY <1>1, <2>1 DEF StatementRead, NextLine
<1>3. \A r \in Syms : SymStays(r)
  BY <1>1 DEF SymStays
<1> QED BY <1>1, <1>2, <1>3, LandAlong

LEMMA PsectLands == ASSUME TypeInv, LandInv, Psect PROVE LandInv'
<1>1. /\ pc = "pass" /\ ip \in Lines /\ Stm.t = "psect" /\ NextLine /\ pc' = pc
      /\ curPsect' = Stm.p /\ trace' = trace /\ numerror' = numerror /\ sym' = sym
  BY Zenon DEF Psect, At, tabVars
<1>2. StatementRead
  <2>1. Moves(Stm) /\ Leads(Stm) = Stm.p
    BY <1>1 DEF Moves, Leads
  <2> QED BY <1>1, <2>1 DEF StatementRead, NextLine
<1>3. \A r \in Syms : SymStays(r)
  BY <1>1 DEF SymStays
<1> QED BY <1>1, <1>2, <1>3, LandAlong

LEMMA DefsLands == ASSUME TypeInv, LandInv, Defs PROVE LandInv'
<1>1. /\ pc = "pass" /\ ip \in Lines /\ Stm.t = "defs" /\ NextLine /\ curPsect' = curPsect /\ trace' = trace
      /\ \E stray \in Strays : Evaluate(Stm.e, stray, NotPositiveAbs(EvalExpr(Stm.e, stray)))
  BY Zenon DEF Defs, At
<1>2. PICK stray \in Strays : Evaluate(Stm.e, stray, NotPositiveAbs(EvalExpr(Stm.e, stray)))
  BY <1>1
<1>3. Stm.e \in Expr
  BY <1>1, StatementNow, StmtShape
<1>4. PICK n \in Nat : n = NotPositiveAbs(EvalExpr(Stm.e, stray))
  BY DEF NotPositiveAbs, CountIf
<1>5. Evaluate(Stm.e, stray, n)
  BY <1>2, <1>4
<1>6. (\A s \in Syms : SymStays(s)) /\ pc' # "done" /\ (phase = 2 /\ numerror' = 0 => numerror = 0)
  BY <1>3, <1>5, EvaluateStays
<1>7. StatementRead
  <2>1. ~Moves(Stm)
    BY <1>1 DEF Moves
  <2> QED BY <1>1, <1>6, <2>1 DEF StatementRead, NextLine
<1> QED BY <1>1, <1>6, <1>7, LandAlong

LEMMA OrgLands == ASSUME TypeInv, LandInv, Org PROVE LandInv'
<1>1. /\ pc = "pass" /\ ip \in Lines /\ Stm.t = "org" /\ NextLine /\ curPsect' = Abs /\ trace' = trace
      /\ \E stray \in Strays : Evaluate(Stm.e, stray, NotPositiveAbs(EvalExpr(Stm.e, stray)))
  BY Zenon DEF Org, At
<1>2. PICK stray \in Strays : Evaluate(Stm.e, stray, NotPositiveAbs(EvalExpr(Stm.e, stray)))
  BY <1>1
<1>3. Stm.e \in Expr
  BY <1>1, StatementNow, StmtShape
<1>4. PICK n \in Nat : n = NotPositiveAbs(EvalExpr(Stm.e, stray))
  BY DEF NotPositiveAbs, CountIf
<1>5. Evaluate(Stm.e, stray, n)
  BY <1>2, <1>4
<1>6. (\A s \in Syms : SymStays(s)) /\ pc' # "done" /\ (phase = 2 /\ numerror' = 0 => numerror = 0)
  BY <1>3, <1>5, EvaluateStays
<1>7. StatementRead
  <2>1. Moves(Stm) /\ Leads(Stm) = Abs
    BY <1>1 DEF Moves, Leads
  <2> QED BY <1>1, <1>6, <2>1 DEF StatementRead, NextLine
<1> QED BY <1>1, <1>6, <1>7, LandAlong

LEMMA CondLands == ASSUME TypeInv, LandInv, Cond PROVE LandInv'
<1>1. /\ pc = "pass" /\ ip \in Lines /\ Stm.t = "cond" /\ Reads /\ prog' = prog /\ phase' = phase
      /\ curPsect' = curPsect /\ trace' = trace
  BY Zenon DEF Cond, At
<1>2. PICK stray \in Strays :
        LET v == EvalExpr(Stm.e, stray)
            skip == v.val = 0
            more == CountIf(Rel(v)) + (IF skip /\ Skipped.nest > 0 THEN 2 ELSE 0)
        IN /\ ip' = IF ~skip THEN ip + 1
                    ELSE IF Skipped.nest > 0 THEN Len(prog.text) + 1 ELSE Skipped.at + 1
           /\ nInput' = IF skip /\ (Skipped.nest > 0 \/ Skipped.n > Len(prog.text) - ip)
                        THEN 1 ELSE nInput
           /\ Evaluate(Stm.e, stray, more)
  BY Zenon DEF Cond
<1>3. Stm.e \in Expr
  BY <1>1, StatementNow, StmtShape
<1>4. PICK v : v = EvalExpr(Stm.e, stray)
  OBVIOUS
<1>5. PICK n \in Nat : n = CountIf(Rel(v)) + (IF v.val = 0 /\ Skipped.nest > 0 THEN 2 ELSE 0)
  BY DEF CountIf
<1>6. Evaluate(Stm.e, stray, n)
  BY <1>2, <1>4, <1>5
<1>7. (\A s \in Syms : SymStays(s)) /\ pc' # "done" /\ (phase = 2 /\ numerror' = 0 => numerror = 0)
  BY <1>3, <1>6, EvaluateStays
<1>8. StatementRead
  <2>1. ~Moves(Stm)
    BY <1>1 DEF Moves
  <2> QED BY <1>1, <1>7, <2>1 DEF StatementRead
<1> QED BY <1>1, <1>7, <1>8, LandAlong

LEMMA EndLands == ASSUME TypeInv, LandInv, End PROVE LandInv'
<1>1. PassOK /\ SymOK
  BY DEF TypeInv
<1>2. /\ pc = "pass" /\ ip \in Lines /\ Stm.t \in {"end", "start"} /\ NextLine
      /\ curPsect' = curPsect /\ trace' = trace
  BY Zenon DEF End
<1>3. pc' # "done" /\ (phase = 2 /\ numerror' = 0 => numerror = 0) /\ \A s \in Syms : SymStays(s)
  <2>1. CASE Stm.t = "end"
    <3>1. pc' = "over" /\ UNCHANGED <<sym, numerror>>
      BY <2>1, Zenon DEF End
    <3> QED BY <3>1 DEF SymStays
  <2>2. CASE Stm.t # "end"
    <3>1. PICK stray \in Strays : /\ sym' = Mentioned(sym, Mentions(Stm.e))
                                  /\ Report(ExprErrors(Stm.e, stray), "over")
      BY <2>2, Zenon DEF End
    <3>2. Stm.e \in Expr
      BY <1>2, <2>2, StatementNow, StmtShape
    <3>3. PICK n \in Nat : n = ExprErrors(Stm.e, stray)
      BY <3>2, ErrorsNat
    <3>4. pc' \in {"over", "failed"} /\ (phase = 2 /\ numerror' = 0 => numerror = 0)
      <4>1. Report(n, "over")
        BY <3>1, <3>3
      <4> QED BY <1>1, <4>1, ReportShape
    <3>5. \A s \in Syms : SymStays(s)
      <4>1. sym \in [Syms -> SymRec] /\ phase \in 0..2
        BY <1>1 DEF SymOK, PassOK
      <4>2. PICK N : sym' = Mentioned(sym, N)
        BY <3>1
      <4> QED BY <4>1, <4>2, MentionedShape DEF SymStays
    <3> QED BY <3>4, <3>5
  <2> QED BY <2>1, <2>2
<1>4. StatementRead
  <2>1. ~Moves(Stm)
    BY <1>2 DEF Moves
  <2> QED BY <1>2, <1>3, <2>1 DEF StatementRead, NextLine
<1> QED BY <1>2, <1>3, <1>4, LandAlong

\* The value of a symbol that is all of an expression.
LEMMA SymbolValue ==
  ASSUME NEW e, e.op = "one", e.a.k = "sym", NEW stray PROVE EvalExpr(e, stray) = SymValue(e.a.s)
BY DEF EvalExpr, AtomVal, SymValue

LEMMA ValueStays == ASSUME NEW s, SymStays(s) PROVE SymValue(s)' = SymValue(s)
BY DEF SymStays, SymValue

\* what fields f put at the current location goes to v
Toward(f, v) == f[2] = [w |-> 2, v |-> v] \/ (f[2] = Distance(v) /\ Near(v))

\* A statement that is no label is met, and puts what it puts.
LEMMA LandPuts ==
  ASSUME TypeInv, LandInv, StatementRead, ~Moves(Stm), Stm.t # "label", NEW f \in Seq(Fields), Visit(f),
         \A s \in Syms : SymStays(s),
         phase = 2 /\ numerror' = 0 =>
           numerror = 0 /\ (Refers(Stm) => Toward(f, SymValue(RefExpr(Stm).a.s)))
  PROVE  LandInv'
<1>1. PassOK /\ PlaceOK /\ RecordOK /\ PathsOK /\ LabelsOK
  BY DEF TypeInv, LandInv
<1>2. LabelsOK'
  BY <1>1, LabelsStay
<1>3. PICK r : r = [ip |-> ip, psect |-> curPsect, at |-> Here, fields |-> f]
  OBVIOUS
<1>4. r.ip = ip /\ r.at = Here /\ r.psect = curPsect /\ r.fields = f
  BY <1>3
<1>5. ASSUME phase = 2, numerror' = 0
      PROVE  numerror = 0 /\ LabelSound(prog.text[r.ip], r.at)' /\ RefSound(prog.text[r.ip], r)'
  <2>1. PICK st : st = Stm
    OBVIOUS
  <2>2. (prog.text[r.ip] = st)'
    BY <1>4, <2>1 DEF StatementRead, Stm
  <2>3. LabelSound(st, r.at)'
    BY <2>1 DEF LabelSound
  <2>4. RefSound(st, r)'
    <3>1. ASSUME Refers(st) PROVE Goes(r, SymValue(RefExpr(st).a.s)')
      <4>1. st \in Stmt
        BY <2>1, StatementNow DEF StatementRead
      <4>2. PICK s \in Syms : s = RefExpr(st).a.s
        BY <3>1, <4>1, RefersShape
      <4>3. PICK v : v = SymValue(s)
        OBVIOUS
      <4>4. Toward(f, v)
        BY <1>5, <2>1, <3>1, <4>2, <4>3
      <4>5. ASSUME f[2] = [w |-> 2, v |-> v] PROVE Goes(r, v)
        BY <1>4, <4>5 DEF Goes
      <4>6. ASSUME f[2] = Distance(v) /\ Near(v) PROVE Goes(r, v)
        <5>1. r.fields[2] = [w |-> 0, x |-> [k |-> "disp", x |-> (Span(v) - 2) % (2 * Reach)]]
          BY <1>4, <4>6 DEF Distance
        <5>2. r.fields[2].w = 0 /\ r.fields[2].x.x = (Span(v) - 2) % (2 * Reach)
          BY <5>1
        <5>3. Span(v) = Signed(v.val - r.at)
          BY <1>4 DEF Span
        <5>4. /\ Span(v) \in -(Reach - 2)..(Reach + 1) /\ v.ext = None
              /\ v.psect = r.psect \/ (v.psect = None /\ r.psect = Abs)
          BY <1>4, <4>6, Zenon DEF Near
        <5> QED BY <5>2, <5>3, <5>4, Zenon DEF Goes
      <4>7. Goes(r, v)
        BY <4>4, <4>5, <4>6 DEF Toward
      <4>8. SymValue(s)' = v
        BY <4>3, ValueStays
      <4> QED BY <4>2, <4>7, <4>8
    <3> QED BY <3>1 DEF RefSound
  <2> QED BY <1>5, <2>2, <2>3, <2>4
<1> QED BY <1>1, <1>2, <1>3, <1>5, LandVisit

LEMMA TmpLabelLands == ASSUME TypeInv, LandInv, TmpLabel PROVE LandInv'
<1>1. /\ pc = "pass" /\ ip \in Lines /\ Stm.t = "tmp" /\ Visit(<<>>) /\ NextLine
      /\ UNCHANGED <<curPsect, sym, numerror>>
  BY Zenon DEF TmpLabel, At
<1>2. pc' \in {"pass", "failed"}
  <2>1. CASE phase = 2
    <3>1. pc' = pc
      BY <2>1, Zenon DEF TmpLabel
    <3> QED BY <1>1, <3>1
  <2>2. CASE phase # 2
    <3>1. pc' = IF tmpPtr = MaxTmp THEN "failed" ELSE "pass"
      BY <2>2, Zenon DEF TmpLabel
    <3> QED BY <3>1
  <2> QED BY <2>1, <2>2
<1>3. ~Moves(Stm) /\ ~Refers(Stm)
  BY <1>1 DEF Moves, Refers
<1>4. StatementRead
  BY <1>1, <1>2, <1>3 DEF StatementRead, NextLine
<1>5. <<>> \in Seq(Fields)
  OBVIOUS
<1>6. PICK f \in Seq(Fields) : Visit(f)
  BY <1>1, <1>5
<1>7. \A s \in Syms : SymStays(s)
  BY <1>1 DEF SymStays
<1> QED BY <1>1, <1>3, <1>4, <1>6, <1>7, LandPuts

LEMMA JrLands == ASSUME TypeInv, LandInv, Jr PROVE LandInv'
<1>1. PassOK /\ PlaceOK /\ SymOK /\ TmpOK
  BY DEF TypeInv
<1>2. /\ pc = "pass" /\ ip \in Lines /\ Stm.t = "jr" /\ NextLine /\ curPsect' = curPsect
  BY Zenon DEF Jr, At
<1>3. PICK stray \in Strays :
        LET v == EvalExpr(Stm.e, stray)
        IN Emit(<<Opcode, Distance(v)>>) /\ Evaluate(Stm.e, stray, CountIf(~Near(v)))
  BY Zenon DEF Jr
<1>4. Stm.e \in Expr
  BY <1>2, StatementNow, StmtShape
<1>5. PICK v \in Value : v = EvalExpr(Stm.e, stray)
  BY <1>1, <1>4, ExprValue
<1>6. PICK f : f = <<Opcode, Distance(v)>>
  OBVIOUS
<1>7. f \in Seq(Fields) /\ f[2] = Distance(v)
  BY <1>1, <1>6, OpcodeShape, DistanceShape, Pair
<1>8. PICK n \in Nat : n = CountIf(~Near(v))
  BY DEF CountIf
<1>9. Emit(f) /\ Evaluate(Stm.e, stray, n)
  BY <1>3, <1>5, <1>6, <1>8
<1>10. (\A s \in Syms : SymStays(s)) /\ pc' # "done" /\ (phase = 2 /\ numerror' = 0 => numerror = 0 /\ n = 0)
  BY <1>4, <1>9, EvaluateStays
<1>11. ~Moves(Stm)
  BY <1>2 DEF Moves
<1>12. StatementRead
  BY <1>2, <1>10, <1>11 DEF StatementRead, NextLine
<1>13. Visit(f)
  BY <1>9, Zenon DEF Emit
<1>14. ASSUME phase = 2, numerror' = 0, Refers(Stm) PROVE Toward(f, SymValue(RefExpr(Stm).a.s))
  <2>1. Near(v)
    BY <1>8, <1>10, <1>14 DEF CountIf
  <2>2. RefExpr(Stm) = Stm.e /\ Stm.e.op = "one" /\ Stm.e.a.k = "sym"
    BY <1>2, <1>14 DEF Refers, RefExpr
  <2>3. v = SymValue(RefExpr(Stm).a.s)
    BY <1>5, <2>2, SymbolValue
  <2> QED BY <1>7, <2>1, <2>3 DEF Toward
<1> QED BY <1>2, <1>7, <1>10, <1>11, <1>12, <1>13, <1>14, LandPuts

LEMMA JpLands == ASSUME TypeInv, LandInv, Jp PROVE LandInv'
<1>1. PassOK /\ PlaceOK /\ SymOK /\ TmpOK
  BY DEF TypeInv
<1>2. /\ pc = "pass" /\ ip \in Lines /\ Stm.t = "jp" /\ NextLine /\ curPsect' = curPsect
  BY Zenon DEF Jp, At
<1>3. PICK stray \in Strays :
        LET v == EvalExpr(Stm.e, stray)
        IN \/ /\ Eligible /\ Branches(v)
              /\ jOptTab' = [jOptTab EXCEPT ![jOptIdx + 1] = TRUE]
              /\ Emit(<<Opcode, Distance(v)>>)
              /\ Evaluate(Stm.e, stray, CountIf(~Near(v)))
           \/ /\ ~(Eligible /\ Branches(v))
              /\ Emit(<<Opcode, [w |-> 2, v |-> v]>>)
              /\ Evaluate(Stm.e, stray, 0)
              /\ UNCHANGED jOptTab
  BY Zenon DEF Jp
<1>4. Stm.e \in Expr
  BY <1>2, StatementNow, StmtShape
<1>5. PICK v \in Value : v = EvalExpr(Stm.e, stray)
  BY <1>1, <1>4, ExprValue
<1>6. PICK f \in Seq(Fields), n \in Nat :
        Emit(f) /\ Evaluate(Stm.e, stray, n) /\ (n = 0 => Toward(f, v))
  <2>1. CASE Emit(<<Opcode, Distance(v)>>) /\ Evaluate(Stm.e, stray, CountIf(~Near(v)))
    <3>1. PICK f : f = <<Opcode, Distance(v)>>
      OBVIOUS
    <3>2. f \in Seq(Fields) /\ f[2] = Distance(v)
      BY <1>1, <3>1, OpcodeShape, DistanceShape, Pair
    <3>3. PICK n \in Nat : n = CountIf(~Near(v))
      BY DEF CountIf
    <3>4. n = 0 => Toward(f, v)
      BY <3>2, <3>3 DEF CountIf, Toward
    <3> QED BY <2>1, <3>1, <3>2, <3>3, <3>4
  <2>2. CASE Emit(<<Opcode, [w |-> 2, v |-> v]>>) /\ Evaluate(Stm.e, stray, 0)
    <3>1. PICK f : f = <<Opcode, [w |-> 2, v |-> v]>>
      OBVIOUS
    <3>2. f \in Seq(Fields) /\ f[2] = [w |-> 2, v |-> v]
      BY <1>1, <3>1, OpcodeShape, AddressShape, Pair
    <3>3. Toward(f, v) /\ 0 \in Nat
      BY <3>2 DEF Toward
    <3> QED BY <2>2, <3>1, <3>2, <3>3
  <2> QED BY <1>3, <1>5, <2>1, <2>2
<1>7. (\A s \in Syms : SymStays(s)) /\ pc' # "done" /\ (phase = 2 /\ numerror' = 0 => numerror = 0 /\ n = 0)
  BY <1>4, <1>6, EvaluateStays
<1>8. ~Moves(Stm)
  BY <1>2 DEF Moves
<1>9. StatementRead
  BY <1>2, <1>7, <1>8 DEF StatementRead, NextLine
<1>10. Visit(f)
  BY <1>6, Zenon DEF Emit
<1>11. ASSUME phase = 2, numerror' = 0, Refers(Stm) PROVE Toward(f, SymValue(RefExpr(Stm).a.s))
  <2>1. RefExpr(Stm) = Stm.e /\ Stm.e.op = "one" /\ Stm.e.a.k = "sym"
    BY <1>2, <1>11 DEF Refers, RefExpr
  <2>2. v = SymValue(RefExpr(Stm).a.s)
    BY <1>5, <2>1, SymbolValue
  <2> QED BY <1>6, <1>7, <1>11, <2>2
<1> QED BY <1>2, <1>7, <1>8, <1>9, <1>10, <1>11, LandPuts

LEMMA CodeLands == ASSUME TypeInv, LandInv, Code PROVE LandInv'
<1>1. PassOK /\ PlaceOK /\ SymOK /\ TmpOK
  BY DEF TypeInv
<1>2. /\ pc = "pass" /\ ip \in Lines /\ Stm.t \in {"code", "bad"} /\ NextLine /\ curPsect' = curPsect
  BY Zenon DEF Code
<1>3. PICK stray \in Strays :
        LET items == Stm.items
        IN /\ sym' = Mentioned(sym, UNION {IF items[i].w = 0 THEN {} ELSE Mentions(items[i].e) :
                                           i \in DOMAIN items})
           /\ Report(ItemErrors(items, stray, CountIf(Stm.t = "bad")), "pass")
           /\ Emit([i \in DOMAIN items |-> Field(items[i], stray)])
  BY Zenon DEF Code
<1>4. PICK items \in Seq(Item) : items = Stm.items
  BY <1>2, StatementNow, StmtShape
<1>5. PICK f : f = [i \in DOMAIN items |-> Field(items[i], stray)]
  OBVIOUS
<1>6. f \in Seq(Fields)
  <2>1. \A i \in 1..Len(items) : items[i] \in Item
    OBVIOUS
  <2>2. \A i \in 1..Len(items) : Field(items[i], stray) \in Fields
    BY <1>1, <2>1, FieldIn
  <2>3. DOMAIN items = 1..Len(items) /\ Len(items) \in Nat
    OBVIOUS
  <2> QED BY <1>5, <2>2, <2>3
<1>7. PICK more \in Nat : more = CountIf(Stm.t = "bad")
  BY DEF CountIf
<1>8. PICK n \in Nat : n = ItemErrors(items, stray, more)
  BY MoreErrors
<1>9. Emit(f) /\ Report(n, "pass")
  BY <1>3, <1>4, <1>5, <1>7, <1>8
<1>10. PICK N : sym' = Mentioned(sym, N)
  BY <1>3
<1>11. pc' \in {"pass", "failed"} /\ (phase = 2 /\ numerror' = 0 => numerror = 0)
  BY <1>1, <1>9, ReportShape
<1>12. \A s \in Syms : SymStays(s)
  <2>1. sym \in [Syms -> SymRec] /\ phase \in 0..2
    BY <1>1 DEF SymOK, PassOK
  <2> QED BY <1>10, <2>1, MentionedShape DEF SymStays
<1>13. ~Moves(Stm) /\ Stm.t # "label"
  BY <1>2 DEF Moves
<1>14. StatementRead
  BY <1>2, <1>11, <1>13 DEF StatementRead, NextLine
<1>15. Visit(f)
  BY <1>9, Zenon DEF Emit
<1>16. ASSUME Refers(Stm) PROVE Toward(f, SymValue(RefExpr(Stm).a.s))
  <2>1. PICK st \in Stmt : st = Stm
    BY <1>2, StatementNow
  <2>2. st.t = "code"
    BY <1>2, <1>16, <2>1 DEF Refers
  <2>3. Len(items) = 2 /\ items[2].w = 2 /\ RefExpr(st) = items[2].e
    BY <1>4, <1>16, <2>1, <2>2 DEF Refers, RefExpr
  <2>4. PICK e : e = items[2].e
    OBVIOUS
  <2>5. e.op = "one" /\ e.a.k = "sym"
    BY <1>16, <2>1, <2>3, <2>4 DEF Refers
  <2>6. f[2] = Field(items[2], stray)
    <3>1. 2 \in DOMAIN items
      BY <2>3
    <3> QED BY <1>5, <3>1
  <2>7. Field(items[2], stray) = [w |-> 2, v |-> EvalExpr(e, stray)]
    BY <2>3, <2>4 DEF Field
  <2>8. EvalExpr(e, stray) = SymValue(e.a.s)
    BY <2>5, SymbolValue
  <2> QED BY <2>1, <2>3, <2>4, <2>6, <2>7, <2>8 DEF Toward
<1> QED BY <1>6, <1>11, <1>12, <1>13, <1>14, <1>15, <1>16, LandPuts

\* No statement is read.
LEMMA LandSame ==
  ASSUME LandInv, UNCHANGED <<prog, phase, path, curPsect, sym, numerror, trace>>, pc' = "done" => phase = 2
  PROVE  LandInv'
<1>1. PathsOK'
  BY PathSame DEF LandInv
<1>2. Lines' = Lines /\ Assigned' = Assigned
  BY AssignedShape
<1>3. LabelsOK'
  <2>1. ASSUME NEW s \in Syms \ Assigned PROVE LabelOK(s)'
    <3>1. LabelOK(s)
      BY DEF LandInv, LabelsOK
    <3>2. LayPass' = LayPass
      BY DEF LayPass
    <3> QED BY <3>1, <3>2 DEF LabelOK
  <2> QED BY <1>2, <2>1 DEF LabelsOK
<1>4. TraceOK'
  <2> SUFFICES ASSUME phase = 2, NEW m \in 1..Len(trace)
               PROVE  trace[m].ip \in Lines /\ VisitOK(trace[m])'
    BY <1>2 DEF TraceOK
  <2>1. PICK r : r = trace[m]
    OBVIOUS
  <2>2. r.ip \in Lines /\ Met(r, path[2])
        /\ (numerror = 0 => LabelSound(prog.text[r.ip], r.at) /\ RefSound(prog.text[r.ip], r))
    BY <2>1 DEF LandInv, TraceOK, VisitOK
  <2>3. Met(r, path[2])'
    BY <2>2 DEF Met
  <2>4. numerror' = 0 => LabelSound(prog.text[r.ip], r.at)' /\ RefSound(prog.text[r.ip], r)'
    BY <1>2, <2>2 DEF LabelSound, RefSound, SymValue
  <2>5. VisitOK(r)'
    BY <2>3, <2>4 DEF VisitOK
  <2>6. (trace[m] = r)'
    BY <2>1
  <2> QED BY <2>1, <2>2, <2>5, <2>6
<1> QED BY <1>1, <1>3, <1>4 DEF LandInv

\* A pass that has read nothing.
LEMMA NothingRead ==
  /\ Len(<<>>) = 0
  /\ \A t : Stands(t, <<>>, 0, Abs)
  /\ \A t, s : OnPath(t, <<>>, s) = {}
<1>1. Len(<<>>) = 0 /\ 1..0 = {} /\ 0 \in 0..0 /\ \A j \in 0..0 : j = 0
  OBVIOUS
<1>2. \A h \in (0 + 1)..0 : FALSE
  OBVIOUS
<1>3. \A t : Stands(t, <<>>, 0, Abs)
  BY <1>1, <1>2 DEF Stands
<1>4. \A t, s : OnPath(t, <<>>, s) = {}
  BY <1>1 DEF OnPath
<1> QED BY <1>1, <1>3, <1>4

LEMMA NextPassLands == ASSUME TypeInv, LandInv, NextPass PROVE LandInv'
<1>1. PassOK /\ RecordOK /\ PathsOK /\ LabelsOK
  BY DEF TypeInv, LandInv
<1>2. /\ phase < 2 /\ pc' = "pass" /\ curPsect' = Abs
      /\ phase' = IF phase = 0 /\ prog.j THEN 1 ELSE 2
      /\ UNCHANGED <<prog, sym, numerror, trace, path>>
  BY Zenon DEF NextPass
<1>3. phase \in 0..2 /\ (phase = 1 => prog.j) /\ prog.j \in BOOLEAN
  BY <1>1, ProgramShape DEF PassOK
<1>4. phase' \in 0..2 /\ phase' > phase
  BY <1>2, <1>3
<1>5. \A q \in 0..2 : q > phase => path[q] = <<>>
  BY <1>1 DEF PathsOK
<1>6. PathsOK'
  <2>1. \A q \in 0..2 : q > phase' => path'[q] = <<>>
    BY <1>2, <1>3, <1>4, <1>5
  <2>2. path'[phase'] = <<>>
    BY <1>2, <1>4, <1>5
  <2>3. Len(path'[phase']) = 0
    BY <2>2, NothingRead
  <2>4. Stands(prog'.text, path'[phase'], Len(path'[phase']), curPsect')
    BY <1>2, <2>2, <2>3, NothingRead
  <2>5. \A k \in 1..Len(path'[phase']) : path'[phase'][k] \in Lines'
    BY <2>3
  <2> QED BY <1>2, <2>1, <2>4, <2>5 DEF PathsOK
<1>7. LabelsOK'
  <2>1. Assigned' = Assigned
    BY <1>2, AssignedShape
  <2>2. LayPass' = LayPass \/ path[LayPass'] = <<>>
    <3>1. CASE phase = 0 /\ prog.j
      <4>1. phase' = 1 /\ prog'.j
        BY <1>2, <3>1
      <4>2. LayPass' = 1
        BY <4>1 DEF LayPass
      <4>3. 1 \in 0..2 /\ 1 > 0
        OBVIOUS
      <4> QED BY <1>5, <3>1, <4>2, <4>3
    <3>2. CASE phase = 0 /\ ~prog.j
      <4>1. LayPass' = 0 /\ LayPass = 0
        BY <1>2, <3>2 DEF LayPass
      <4> QED BY <4>1
    <3>3. CASE phase = 1
      <4>1. phase' = 2
        BY <1>2, <3>3
      <4>2. LayPass' = 1 /\ LayPass = 1
        BY <1>2, <1>3, <3>3, <4>1 DEF LayPass
      <4> QED BY <4>2
    <3> QED BY <1>2, <1>3, <3>1, <3>2, <3>3
  <2>3. ASSUME NEW s \in Syms \ Assigned PROVE LabelOK(s)'
    <3>1. LabelOK(s)
      BY <1>1 DEF LabelsOK
    <3>2. PICK l : l = LayPass'
      OBVIOUS
    <3>3. OnPath(prog.text, path[l], s) # {} => l = LayPass
      BY <2>2, <3>2, NothingRead
    <3>4. /\ OnPath(prog.text, path[l], s) # {} =>
               /\ sym[s].ext = None
               /\ \E k \in OnPath(prog.text, path[l], s) :
                    \E p \in Bases : Stands(prog.text, path[l], k, p) /\ sym[s].psect = PsectName(p)
          /\ OnPath(prog.text, path[0], s) # {} => ~sym[s].undef
          /\ \A h, k \in OnPath(prog.text, path[0], s) : h # k => sym[s].multi
      BY <3>1, <3>3 DEF LabelOK
    <3> QED BY <1>2, <3>2, <3>4 DEF LabelOK
  <2> QED BY <2>1, <2>3 DEF LabelsOK
<1>8. TraceOK'
  <2>1. trace' = <<>>
    BY <1>1, <1>2 DEF RecordOK
  <2>2. \A m \in 1..Len(trace') : FALSE
    BY <2>1, NothingRead
  <2> QED BY <2>2 DEF TraceOK
<1> QED BY <1>6, <1>7, <1>8 DEF LandInv

LEMMA InitLand == ASSUME Init PROVE LandInv
<1>1. prog \in Programs /\ pc = "pass" /\ phase = 0 /\ curPsect = Abs /\ trace = <<>> /\ path = [p \in 0..2 |-> <<>>]
  BY Zenon DEF Init
<1>2. \A q \in 0..2 : path[q] = <<>>
  BY <1>1
<1>3. 0 \in 0..2 /\ 1 \in 0..2 /\ phase \in 0..2
  BY <1>1
<1>4. path[phase] = <<>> /\ Len(path[phase]) = 0
  BY <1>2, <1>3, NothingRead
<1>5. PathsOK
  <2>1. Stands(prog.text, path[phase], Len(path[phase]), curPsect)
    BY <1>1, <1>4, NothingRead
  <2>2. \A k \in 1..Len(path[phase]) : path[phase][k] \in Lines
    BY <1>4
  <2> QED BY <1>1, <1>2, <2>1, <2>2 DEF PathsOK
<1>6. LabelsOK
  <2>1. LayPass \in {0, 1}
    BY DEF LayPass
  <2>2. path[LayPass] = <<>> /\ path[0] = <<>>
    BY <1>2, <1>3, <2>1
  <2>3. \A s : OnPath(prog.text, path[LayPass], s) = {} /\ OnPath(prog.text, path[0], s) = {}
    BY <2>2, NothingRead
  <2> QED BY <2>3 DEF LabelsOK, LabelOK
<1>7. TraceOK
  BY <1>1 DEF TraceOK
<1> QED BY <1>5, <1>6, <1>7 DEF LandInv

LEMMA StepLand == ASSUME Inv, LandInv, [Next]_vars PROVE LandInv'
<1>1. TypeInv
  BY DEF Inv
<1>2. CASE OpenFile \/ EndOfFile \/ Finish \/ Ended \/ UNCHANGED vars
  <2>1. CASE OpenFile
    <3>1. pc' = pc /\ pc = "pass" /\ UNCHANGED <<prog, phase, path, curPsect, sym, numerror, trace>>
      BY <2>1, Zenon DEF OpenFile, tabVars
    <3> QED BY <3>1, LandSame
  <2>2. CASE EndOfFile
    <3>1. pc' = "over" /\ UNCHANGED <<prog, phase, path, curPsect, sym, numerror, trace>>
      BY <2>2, Zenon DEF EndOfFile, tabVars
    <3> QED BY <3>1, LandSame
  <2>3. CASE Finish
    <3>1. phase = 2 /\ UNCHANGED <<prog, phase, path, curPsect, sym, numerror, trace>>
      BY <2>3, Zenon DEF Finish, tabVars
    <3> QED BY <3>1, LandSame
  <2>4. CASE Ended \/ UNCHANGED vars
    <3>1. UNCHANGED <<pc, prog, phase, path, curPsect, sym, numerror, trace>>
      BY <2>4 DEF Ended, vars, tabVars
    <3>2. pc' = "done" => phase = 2
      BY <3>1 DEF LandInv, PathsOK
    <3> QED BY <3>1, <3>2, LandSame
  <2> QED BY <1>2, <2>1, <2>2, <2>3, <2>4, Zenon
<1>3. CASE Label
  BY <1>1, <1>3, LabelLands
<1>4. CASE Assign
  BY <1>1, <1>4, AssignLands
<1>5. CASE Global
  BY <1>1, <1>5, GlobalLands
<1>6. CASE TmpLabel
  BY <1>1, <1>6, TmpLabelLands
<1>7. CASE Code
  BY <1>1, <1>7, CodeLands
<1>8. CASE Jp
  BY <1>1, <1>8, JpLands
<1>9. CASE Jr
  BY <1>1, <1>9, JrLands
<1>10. CASE Defs
  BY <1>1, <1>10, DefsLands
<1>11. CASE Org
  BY <1>1, <1>11, OrgLands
<1>12. CASE Psect
  BY <1>1, <1>12, PsectLands
<1>13. CASE Cond
  BY <1>1, <1>13, CondLands
<1>14. CASE Endc
  BY <1>1, <1>14, EndcLands
<1>15. CASE End
  BY <1>1, <1>15, EndLands
<1>16. CASE NextPass
  BY <1>1, <1>16, NextPassLands
<1> QED BY <1>2, <1>3, <1>4, <1>5, <1>6, <1>7, <1>8, <1>9, <1>10, <1>11, <1>12, <1>13, <1>14, <1>15, <1>16,
           Zenon DEF Next

\* Arithmetic modulo m.
LEMMA NoMultiple == ASSUME NEW m \in Nat \ {0}, NEW k \in Int, m * k < m, m * k > -m PROVE k = 0
<1>1. k >= 1 => m * (k - 1) >= 0
  OBVIOUS
<1>2. k <= -1 => m * (-k - 1) >= 0
  OBVIOUS
<1>3. m * (k - 1) = m * k - m /\ m * (-k - 1) = -(m * k) - m
  OBVIOUS
<1> QED BY <1>1, <1>2, <1>3

LEMMA Multiples == ASSUME NEW x \in Int, NEW m \in Nat \ {0} PROVE \E k \in Int : x = m * k + (x % m)
<1>1. x = m * (x \div m) + (x % m) /\ x \div m \in Int
  OBVIOUS
<1> QED BY <1>1

LEMMA Remains ==
  ASSUME NEW m \in Nat \ {0}, NEW k \in Int, NEW r \in 0..(m - 1), NEW x \in Int, x = m * k + r
  PROVE  x % m = r
<1>1. PICK y \in 0..(m - 1) : y = x % m
  OBVIOUS
<1>2. PICK l \in Int : x = m * l + y
  BY <1>1, Multiples
<1>3. m * (l - k) = m * l - m * k
  OBVIOUS
<1>4. m * (l - k) = r - y
  BY <1>2, <1>3
<1>5. PICK d \in Int : d = l - k
  OBVIOUS
<1>6. m * d < m /\ m * d > -m
  BY <1>4, <1>5
<1>7. d = 0
  BY <1>6, NoMultiple
<1>8. m * d = 0
  BY <1>7
<1> QED BY <1>1, <1>4, <1>5, <1>8

LEMMA SameRest == ASSUME NEW m \in Nat \ {0}, NEW k \in Int, NEW x \in Int PROVE (x + m * k) % m = x % m
<1>1. PICK r \in 0..(m - 1) : r = x % m
  OBVIOUS
<1>2. PICK l \in Int : x = m * l + r
  BY <1>1, Multiples
<1>3. m * (l + k) = m * l + m * k
  OBVIOUS
<1>4. PICK j \in Int : j = l + k
  OBVIOUS
<1>5. PICK y \in Int : y = x + m * k
  OBVIOUS
<1>6. y = m * j + r
  BY <1>2, <1>3, <1>4, <1>5
<1>7. y % m = r
  BY <1>6, Remains
<1> QED BY <1>1, <1>5, <1>7

\* What a number of half as many values comes back as, from m values.
LEMMA Back ==
  ASSUME NEW h \in Nat \ {0}, NEW y \in Int, y >= -h, y < h
  PROVE  (((y % (2 * h)) + h) % (2 * h)) - h = y
<1>1. PICK m \in Nat \ {0} : m = 2 * h
  OBVIOUS
<1>2. PICK k \in Int : y = m * k + (y % m)
  BY <1>1, Multiples
<1>3. PICK z \in Int : z = -k
  OBVIOUS
<1>4. PICK u \in Int : u = y + h
  OBVIOUS
<1>5. m * z = -(m * k)
  BY <1>3
<1>6. PICK r \in Int : r = y % m
  OBVIOUS
<1>7. r + h = u + m * z
  BY <1>2, <1>4, <1>5, <1>6
<1>8. (r + h) % m = u % m
  BY <1>7, SameRest
<1>9. u \in 0..(m - 1) /\ 0 \in Int /\ u = m * 0 + u
  BY <1>1, <1>4
<1>10. u % m = u
  BY <1>9, Remains
<1> QED BY <1>1, <1>4, <1>6, <1>8, <1>10

\* A distance from a place leads to what it was computed from, modulo the address space.
LEMMA There == ASSUME NEW a \in Int, NEW v \in Int PROVE (a + Signed(v - a)) % (2 * Half) = v % (2 * Half)
<1>1. PICK m \in Nat \ {0} : m = 2 * Half
  BY Sizes
<1>2. Half \in Nat
  BY Sizes
<1>3. PICK x \in Int : x = v - a + Half
  BY <1>2
<1>4. PICK k \in Int : x = m * k + (x % m)
  BY <1>1, Multiples
<1>5. PICK z \in Int : z = -k
  OBVIOUS
<1>6. m * z = -(m * k)
  BY <1>5
<1>7. PICK r \in Int : r = x % m
  OBVIOUS
<1>8. Signed(v - a) = r - Half
  BY <1>1, <1>3, <1>7 DEF Signed
<1>9. PICK s \in Int : s = Signed(v - a)
  BY <1>2, <1>8
<1>10. a + s = v + m * z
  BY <1>2, <1>3, <1>4, <1>6, <1>7, <1>8, <1>9
<1>11. (v + m * z) % m = v % m
  BY SameRest
<1> QED BY <1>1, <1>9, <1>10, <1>11

LEMMA GoesLands ==
  ASSUME NEW r \in Visits, NEW v, v.val \in Int, v.ext = None, NEW p \in Bases, v.psect = PsectName(p), Goes(r, v)
  PROVE  Landing(r) = [psect |-> p, ext |-> None, at |-> v.val % (2 * Half)]
<1>1. p # None /\ r.psect \in Bases /\ r.psect # None /\ r.at \in Int
  BY Names DEF Visits
<1>2. PICK f : f = r.fields[2]
  OBVIOUS
<1>3. CASE f = [w |-> 2, v |-> v]
  <2>1. f.w = 2 /\ f.v = v
    BY <1>3
  <2>2. Landing(r) = [psect |-> IF v.psect = None THEN Abs ELSE v.psect, ext |-> v.ext, at |-> v.val % (2 * Half)]
    BY <1>2, <2>1 DEF Landing
  <2>3. p = IF v.psect = None THEN Abs ELSE v.psect
    BY <1>1 DEF PsectName
  <2> QED BY <2>2, <2>3
<1>4. CASE /\ f.w = 0
           /\ f.x.x = (Signed(v.val - r.at) - 2) % (2 * Reach)
           /\ Signed(v.val - r.at) \in -(Reach - 2)..(Reach + 1) /\ v.ext = None
           /\ v.psect = r.psect \/ (v.psect = None /\ r.psect = Abs)
  <2>1. PICK s \in Int : s = Signed(v.val - r.at)
    BY <1>4, Sizes
  <2>2. PICK y \in Int : y = s - 2
    OBVIOUS
  <2>3. Reach \in Nat \ {0} /\ y >= -Reach /\ y < Reach
    BY <1>4, <2>1, <2>2, Sizes
  <2>4. (((y % (2 * Reach)) + Reach) % (2 * Reach)) - Reach = y
    BY <2>3, Back
  <2>5. f.x.x = y % (2 * Reach)
    BY <1>4, <2>1, <2>2
  <2>6. PICK d : d = ((f.x.x + Reach) % (2 * Reach)) - Reach
    OBVIOUS
  <2>7. d = y
    BY <2>4, <2>5, <2>6
  <2>8. Landing(r) = [psect |-> r.psect, ext |-> None, at |-> (r.at + 2 + d) % (2 * Half)]
    BY <1>2, <1>4, <2>6 DEF Landing
  <2>9. r.at + 2 + d = r.at + s
    BY <1>1, <2>2, <2>7
  <2>10. (r.at + s) % (2 * Half) = v.val % (2 * Half)
    BY <1>1, <2>1, There
  <2>11. p = r.psect
    BY <1>1, <1>4 DEF PsectName
  <2> QED BY <2>8, <2>9, <2>10, <2>11
<1> QED BY <1>2, <1>3, <1>4 DEF Goes

\* What a trace entry refers to by a name is what its statement refers to.
LEMMA ReferenceIs ==
  ASSUME NEW n \in RefersTo({"sym"}), NEW st, st = prog.text[trace[n].ip]
  PROVE  Refers(st) /\ Reference(n) = RefExpr(st) /\ n \in DOMAIN trace
<1>1. n \in Jumps \cup Words /\ Reference(n).op = "one" /\ Reference(n).a.k = "sym"
  BY DEF RefersTo
<1>2. CASE n \in Words
  <2>1. st.t = "code" /\ Len(st.items) = 2 /\ st.items[2].w = 2 /\ n \in DOMAIN trace
    BY <1>2 DEF Words
  <2>2. Reference(n) = st.items[2].e
    BY <1>2 DEF Reference
  <2> QED BY <1>1, <2>1, <2>2 DEF Refers, RefExpr
<1>3. CASE n \notin Words
  <2>1. st.t \in {"jp", "jr"} /\ n \in DOMAIN trace
    BY <1>1, <1>3 DEF Jumps
  <2>2. Reference(n) = st.e
    BY <1>3 DEF Reference
  <2> QED BY <1>1, <2>1, <2>2 DEF Refers, RefExpr
<1> QED BY <1>2, <1>3

LEMMA LandAll == ASSUME Inv, LandInv PROVE LabelsLand
<1> SUFFICES ASSUME pc = "done", numerror = 0, SamePath,
                    NEW n \in RefersTo({"sym"}), NEW m \in DOMAIN trace, Labelled(m, "label"),
                    prog.text[trace[m].ip].s = Reference(n).a.s, Reference(n).a.s \notin Assigned
             PROVE  Landing(trace[n]) = Place(trace[m])
  BY Zenon DEF LabelsLand, NamedLand
<1>1. PassOK /\ SymOK /\ RecordOK /\ phase = 2
  BY DEF Inv, TypeInv, LandInv, PathsOK
<1>2. trace \in Seq(Visits) /\ DOMAIN trace = 1..Len(trace) /\ n \in DOMAIN trace
  BY <1>1, ReferenceIs DEF RecordOK
<1>3. PICK r \in Visits : r = trace[n]
  BY <1>2
<1>4. PICK q \in Visits : q = trace[m]
  BY <1>2
<1>5. /\ r.ip \in Lines /\ q.ip \in Lines /\ Met(q, path[2])
      /\ LabelSound(prog.text[q.ip], q.at) /\ RefSound(prog.text[r.ip], r)
  BY <1>1, <1>2, <1>3, <1>4 DEF LandInv, TraceOK, VisitOK
<1>6. PICK st \in Stmt : st = prog.text[r.ip]
  BY <1>1, <1>5, ProgramShape
<1>7. Refers(st) /\ Reference(n) = RefExpr(st)
  BY <1>3, <1>6, ReferenceIs
<1>8. PICK s \in Syms : s = Reference(n).a.s
  BY <1>7, RefersShape
<1>9. Goes(r, SymValue(s))
  BY <1>5, <1>6, <1>7, <1>8 DEF RefSound
<1>10. IsLabel(prog.text, q.ip, s)
  BY <1>4, <1>8 DEF IsLabel, Labelled
<1>11. ~sym[s].multi /\ sym[s].val = q.at
  BY <1>5, <1>8, <1>10 DEF LabelSound, IsLabel
<1>12. path[LayPass] = path[2] /\ path[0] = path[2]
  <2>1. path[2] = path[0] /\ (prog.j => path[1] = path[0])
    BY DEF SamePath
  <2>2. LayPass = IF prog.j THEN 1 ELSE 0
    BY <1>1 DEF LayPass
  <2> QED BY <2>1, <2>2
<1>13. PICK t : t = path[2]
  OBVIOUS
<1>14. PICK k \in 1..Len(t) : t[k] = q.ip /\ Stands(prog.text, t, k, q.psect)
  BY <1>5, <1>13 DEF Met
<1>15. k \in OnPath(prog.text, t, s)
  BY <1>10, <1>14 DEF OnPath
<1>16. LabelOK(s)
  BY <1>8 DEF LandInv, LabelsOK
<1>17. /\ sym[s].ext = None
       /\ \E h \in OnPath(prog.text, t, s) :
            \E p \in Bases : Stands(prog.text, t, h, p) /\ sym[s].psect = PsectName(p)
       /\ \A g, h \in OnPath(prog.text, t, s) : g # h => sym[s].multi
  BY <1>12, <1>13, <1>15, <1>16 DEF LabelOK
<1>18. PICK p \in Bases : Stands(prog.text, t, k, p) /\ sym[s].psect = PsectName(p)
  BY <1>11, <1>15, <1>17
<1>19. p = q.psect
  <2>1. t \in Seq(Nat)
    BY <1>1, <1>13 DEF PassOK
  <2>2. k \in Nat
    BY <2>1
  <2> QED BY <1>14, <1>18, <2>2, StandsUnique
<1>20. PICK v : v = SymValue(s)
  OBVIOUS
<1>21. v.val = q.at /\ v.ext = None /\ v.psect = PsectName(p) /\ v.val \in Int
  <2>1. q.at \in Int
    BY DEF Visits
  <2> QED BY <1>11, <1>17, <1>18, <1>20, <2>1 DEF SymValue
<1>22. Landing(r) = [psect |-> p, ext |-> None, at |-> v.val % (2 * Half)]
  BY <1>9, <1>20, <1>21, GoesLands
<1>23. Place(q) = [psect |-> q.psect, ext |-> None, at |-> q.at % (2 * Half)]
  BY DEF Place
<1> QED BY <1>3, <1>4, <1>19, <1>21, <1>22, <1>23

\* Always, for every program, reach of a branch and address space: when zas has ended with no
\* error and its passes read the same statements, each jump, branch and address of a label goes
\* to the psect and offset at which the last pass met the label.
THEOREM LabelsReached == Spec => []LabelsLand
<1>1. Init => Inv /\ LandInv
  BY InitInv, InitLand
<1>2. Inv /\ LandInv /\ [Next]_vars => (Inv /\ LandInv)'
  BY StepInv, StepLand
<1>3. Inv /\ LandInv => LabelsLand
  BY LandAll
<1> QED BY <1>1, <1>2, <1>3, PTL DEF Spec
=============================================================================
