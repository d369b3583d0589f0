------------------------------ MODULE ZcProofs ------------------------------
(* What is proved of the compiler driver, for all command lines and disks. *)
EXTENDS Zc, TLAPS, FiniteSetTheorems, WellFoundedInduction

-----------------------------------------------------------------------------
(* Induction over the natural numbers, for the recursive functions of Zc *)

\* A set of natural numbers has a smallest element.
LEMMA Least == ASSUME NEW S, S \subseteq Nat, S # {}
               PROVE  \E x \in S : \A y \in S : x <= y
<1> DEFINE T == {1..n : n \in S}
<1>0. \A n \in S : n \in Nat /\ 1..n \in FiniteSubsetsOf(Int) /\ 1..n \in T
  BY FS_Interval DEF FiniteSubsetsOf
<1>1. IsWellFoundedOn(StrictSubsetOrdering(Int), FiniteSubsetsOf(Int))
  BY FS_StrictSubsetOrderingWellFounded
<1>2. T \subseteq FiniteSubsetsOf(Int) /\ T # {}
  BY <1>0
<1> HIDE DEF T
<1>3. PICK t \in T : \A y \in T : <<y, t>> \notin StrictSubsetOrdering(Int)
  BY <1>1, <1>2, WFMin
<1>4. PICK x \in S : t = 1..x
  BY <1>3 DEF T
<1>5. ASSUME NEW y \in S, y < x PROVE FALSE
  <2>1. 1..y \in T /\ x \in Nat /\ y \in Nat
    BY <1>0, <1>5
  <2>2. 1..y \subseteq 1..x /\ x \in 1..x /\ x \notin 1..y
    BY <1>5, <2>1
  <2>3. <<1..y, 1..x>> \in StrictSubsetOrdering(Int)
    BY <2>1, <2>2 DEF StrictSubsetOrdering
  <2> QED BY <1>3, <1>4, <2>1, <2>3
<1>6. \A y \in S : x <= y
  BY <1>5
<1> QED BY <1>6

\* What holds of 0, and of n + 1 when it holds of n, holds of every natural number.
LEMMA Induct == ASSUME NEW S, 0 \in S, \A n \in S : n + 1 \in S PROVE Nat \subseteq S
<1> SUFFICES ASSUME Nat \ S # {} PROVE FALSE
  OBVIOUS
<1>1. PICK x \in Nat \ S : \A y \in Nat \ S : x <= y
  BY Least
<1>2. x # 0 /\ x - 1 \in Nat
  BY <1>1
<1>3. x - 1 \in S
  BY <1>1, <1>2
<1> QED BY <1>1, <1>3

-----------------------------------------------------------------------------
(* Those *)

\* one more element
Grown(q, S, e, n) == IF q[n] \in S THEN Append(e, q[n]) ELSE e

\* f is the function that Those counts up with, as far as m
UpTo(q, S, f, m) ==
  /\ f = [n \in 0..m |-> f[n]]
  /\ f[0] = <<>>
  /\ \A n \in Nat : n < m => f[n + 1] = Grown(q, S, f[n], n + 1)

\* The function exists.
LEMMA UpToExists == ASSUME NEW S, NEW q PROVE \A m \in Nat : \E f : UpTo(q, S, f, m)
<1> DEFINE P == {m \in Nat : \E f : UpTo(q, S, f, m)}
<1>1. 0 \in P
  <2> DEFINE f == [n \in 0..0 |-> <<>>]
  <2>1. UpTo(q, S, f, 0)
    BY DEF UpTo
  <2> QED BY <2>1
<1>2. ASSUME NEW m \in P PROVE m + 1 \in P
  <2>1. PICK f : UpTo(q, S, f, m)
    OBVIOUS
  <2> DEFINE g == [n \in 0..(m + 1) |-> IF n <= m THEN f[n] ELSE Grown(q, S, f[m], m + 1)]
  <2>2. g[0] = <<>> /\ g = [n \in 0..(m + 1) |-> g[n]]
    BY <2>1 DEF UpTo
  <2>3. ASSUME NEW n \in Nat, n < m + 1 PROVE g[n + 1] = Grown(q, S, g[n], n + 1)
    <3>1. m \in Nat /\ n \in 0..(m + 1) /\ n + 1 \in 0..(m + 1) /\ n <= m
      BY <2>3
    <3>2. g[n] = f[n]
      BY <3>1
    <3>3. CASE n = m
      BY <3>1, <3>2, <3>3
    <3>4. CASE n < m
      <4>1. g[n + 1] = f[n + 1]
        BY <3>1, <3>4
      <4> QED BY <2>1, <3>2, <3>4, <4>1 DEF UpTo
    <3> QED BY <3>1, <3>3, <3>4
  <2> HIDE DEF g
  <2>4. UpTo(q, S, g, m + 1)
    BY <2>2, <2>3 DEF UpTo
  <2> QED BY <2>4
<1> HIDE DEF P
<1>3. Nat \subseteq P
  BY <1>1, <1>2, Induct
<1> QED BY <1>3 DEF P

\* There is only one: two agree as far as both go.
LEMMA UpToUnique ==
  ASSUME NEW S, NEW q, NEW f, NEW g, NEW m \in Nat, NEW k \in Nat, m <= k,
         UpTo(q, S, f, m), UpTo(q, S, g, k)
  PROVE  \A n \in 0..m : f[n] = g[n]
<1> DEFINE P == {n \in Nat : n <= m => f[n] = g[n]}
<1>1. 0 \in P
  BY DEF UpTo
<1>2. ASSUME NEW n \in P PROVE n + 1 \in P
  <2>1. n \in Nat /\ (n <= m => f[n] = g[n])
    OBVIOUS
  <2>2. ASSUME n + 1 <= m PROVE f[n + 1] = g[n + 1]
    <3>1. n < m /\ n < k /\ f[n] = g[n]
      BY <2>1, <2>2
    <3>2. f[n + 1] = Grown(q, S, f[n], n + 1)
      BY <2>1, <3>1 DEF UpTo
    <3>3. g[n + 1] = Grown(q, S, g[n], n + 1)
      BY <2>1, <3>1 DEF UpTo
    <3> QED BY <3>1, <3>2, <3>3
  <2> QED BY <2>1, <2>2
<1> HIDE DEF P
<1>3. Nat \subseteq P
  BY <1>1, <1>2, Induct
<1> QED BY <1>3 DEF P

\* What Those is.
LEMMA ThoseIs ==
  ASSUME NEW S, NEW q, Len(q) \in Nat, NEW f, UpTo(q, S, f, Len(q))
  PROVE  Those(q, S) = f[Len(q)]
<1> DEFINE Is(g) == g = [n \in 0..Len(q) |-> IF n = 0 THEN <<>>
                           ELSE IF q[n] \in S THEN Append(g[n - 1], q[n]) ELSE g[n - 1]]
<1>1. Is(f)
  <2>1. ASSUME NEW n \in 0..Len(q), n # 0
        PROVE  f[n] = IF q[n] \in S THEN Append(f[n - 1], q[n]) ELSE f[n - 1]
    <3>1. PICK k \in Nat : n = k + 1 /\ n - 1 = k /\ k < Len(q)
      <4>1. n - 1 \in Nat /\ n = (n - 1) + 1 /\ n - 1 < Len(q)
        BY <2>1
      <4> QED BY <4>1
    <3> QED BY <3>1 DEF UpTo, Grown
  <2>2. f[0] = <<>> /\ f = [n \in 0..Len(q) |-> f[n]]
    BY DEF UpTo
  <2> QED BY <2>1, <2>2
<1>2. ASSUME NEW g, Is(g) PROVE UpTo(q, S, g, Len(q))
  <2>1. g[0] = <<>> /\ g = [n \in 0..Len(q) |-> g[n]]
    BY <1>2
  <2>2. ASSUME NEW k \in Nat, k < Len(q) PROVE g[k + 1] = Grown(q, S, g[k], k + 1)
    <3>1. k + 1 \in 0..Len(q) /\ k + 1 # 0 /\ (k + 1) - 1 = k
      BY <2>2
    <3>2. g[k + 1] = IF k + 1 = 0 THEN <<>>
                     ELSE IF q[k + 1] \in S THEN Append(g[(k + 1) - 1], q[k + 1]) ELSE g[(k + 1) - 1]
      BY <1>2, <3>1
    <3> QED BY <3>1, <3>2 DEF Grown
  <2> QED BY <2>1, <2>2 DEF UpTo
<1>3. PICK g : Is(g) /\ Those(q, S) = g[Len(q)]
  BY <1>1, Zenon DEF Those
<1>4. UpTo(q, S, g, Len(q))
  BY <1>2, <1>3
<1>5. f[Len(q)] = g[Len(q)]
  BY <1>4, UpToUnique
<1> QED BY <1>3, <1>5

\* Of an empty sequence nothing.
LEMMA ThoseEmpty == ASSUME NEW S PROVE Those(<<>>, S) = <<>>
<1>1. PICK f : UpTo(<<>>, S, f, 0)
  BY UpToExists
<1>2. Those(<<>>, S) = f[Len(<<>>)]
  BY <1>1, ThoseIs
<1> QED BY <1>1, <1>2 DEF UpTo

\* With one more element: one more, or as before.
LEMMA ThoseAppend ==
  ASSUME NEW X, NEW S, NEW q \in Seq(X), NEW e \in X
  PROVE  Those(Append(q, e), S) = IF e \in S THEN Append(Those(q, S), e) ELSE Those(q, S)
<1>2. PICK m \in Nat : m = Len(q)
  OBVIOUS
<1>0. PICK r : r = Append(q, e) /\ Len(r) = m + 1 /\ m = Len(q)
  <2>1. Len(Append(q, e)) = m + 1
    BY <1>2
  <2> QED BY <1>2, <2>1
<1>1. PICK f : UpTo(r, S, f, m + 1)
  <2>1. m + 1 \in Nat
    OBVIOUS
  <2> QED BY <2>1, UpToExists
<1> DEFINE g == [n \in 0..m |-> f[n]]
<1>3. UpTo(q, S, g, m)
  <2>1. g[0] = <<>> /\ g = [n \in 0..m |-> g[n]]
    BY <1>1 DEF UpTo
  <2>2. ASSUME NEW n \in Nat, n < m PROVE g[n + 1] = Grown(q, S, g[n], n + 1)
    <3>1. n + 1 \in 0..m /\ n \in 0..m /\ r[n + 1] = q[n + 1] /\ n < m + 1
      BY <1>0, <2>2
    <3>2. f[n + 1] = Grown(r, S, f[n], n + 1)
      BY <1>1, <3>1 DEF UpTo
    <3> QED BY <3>1, <3>2 DEF Grown
  <2> HIDE DEF g
  <2> QED BY <2>1, <2>2 DEF UpTo
<1>4. Those(q, S) = g[m]
  BY <1>0, <1>3, ThoseIs
<1>5. Those(r, S) = f[m + 1]
  <2>1. m + 1 \in Nat
    OBVIOUS
  <2> QED BY <1>0, <1>1, <2>1, ThoseIs
<1>6. f[m + 1] = Grown(r, S, f[m], m + 1) /\ r[m + 1] = e
  BY <1>0, <1>1 DEF UpTo
<1> QED BY <1>0, <1>4, <1>5, <1>6 DEF Grown

\* A sequence of elements that are in the set and in the sequence.
Part(t, q, S, X) == /\ t \in Seq(S \cap X)
                    /\ \A k \in DOMAIN t : \E i \in DOMAIN q : q[i] = t[k]
LEMMA ThoseSeq == ASSUME NEW X, NEW S, NEW q \in Seq(X) PROVE Part(Those(q, S), q, S, X)
<1>1. PICK f : UpTo(q, S, f, Len(q))
  <2>1. Len(q) \in Nat
    OBVIOUS
  <2> QED BY <2>1, UpToExists
<1> DEFINE Fine(t) == Part(t, q, S, X)
           P == {n \in Nat : n <= Len(q) => Fine(f[n])}
<1>2. 0 \in P
  BY <1>1 DEF UpTo, Part
<1>3. ASSUME NEW n \in P PROVE n + 1 \in P
  <2>1. n \in Nat /\ (n <= Len(q) => Fine(f[n]))
    OBVIOUS
  <2> HIDE DEF Fine, Part
  <2>2. ASSUME n + 1 <= Len(q) PROVE Fine(f[n + 1])
    <3>1. n < Len(q) /\ Fine(f[n]) /\ n + 1 \in DOMAIN q
      BY <2>1, <2>2
    <3>2. f[n + 1] = IF q[n + 1] \in S THEN Append(f[n], q[n + 1]) ELSE f[n]
      BY <1>1, <2>1, <3>1 DEF UpTo, Grown
    <3>3. CASE q[n + 1] \in S
      <4>1. PICK t, e : t = f[n] /\ e = q[n + 1] /\ e \in S \cap X /\ f[n + 1] = Append(t, e)
        BY <3>1, <3>2, <3>3
      <4>2. t \in Seq(S \cap X) /\ \A k \in DOMAIN t : \E i \in DOMAIN q : q[i] = t[k]
        BY <3>1, <4>1 DEF Fine, Part
      <4>3. Append(t, e) \in Seq(S \cap X) /\ \A k \in DOMAIN Append(t, e) : (k \in DOMAIN t /\ Append(t, e)[k] = t[k]) \/ Append(t, e)[k] = e
        BY <4>1, <4>2
      <4> QED BY <3>1, <4>1, <4>2, <4>3 DEF Fine, Part
    <3> QED BY <3>1, <3>2, <3>3
  <2> QED BY <2>1, <2>2
<1> HIDE DEF P
<1>4. Len(q) \in P
  BY <1>2, <1>3, Induct
<1>5. Those(q, S) = f[Len(q)]
  BY <1>1, ThoseIs
<1> QED BY <1>4, <1>5 DEF P

\* Every element of the sequence that is in the set.
LEMMA ThoseAll ==
  ASSUME NEW X, NEW S, NEW q \in Seq(X), NEW i \in DOMAIN q, q[i] \in S
  PROVE  \E k \in DOMAIN Those(q, S) : Those(q, S)[k] = q[i]
<1>1. PICK f : UpTo(q, S, f, Len(q))
  <2>1. Len(q) \in Nat
    OBVIOUS
  <2> QED BY <2>1, UpToExists
<1> DEFINE Has(t) == t \in Seq(X) /\ \E k \in DOMAIN t : t[k] = q[i]
           P == {n \in Nat : n <= Len(q) => f[n] \in Seq(X) /\ (i <= n => Has(f[n]))}
<1>2. 0 \in P
  BY <1>1 DEF UpTo
<1>3. ASSUME NEW n \in P PROVE n + 1 \in P
  <2>1. n \in Nat /\ (n <= Len(q) => f[n] \in Seq(X) /\ (i <= n => Has(f[n])))
    OBVIOUS
  <2> HIDE DEF P
  <2>2. ASSUME n + 1 <= Len(q) PROVE f[n + 1] \in Seq(X) /\ (i <= n + 1 => Has(f[n + 1]))
    <3>1. n < Len(q) /\ f[n] \in Seq(X) /\ (i <= n => Has(f[n])) /\ n + 1 \in DOMAIN q
      BY <2>1, <2>2
    <3>2. f[n + 1] = IF q[n + 1] \in S THEN Append(f[n], q[n + 1]) ELSE f[n]
      BY <1>1, <2>1, <3>1 DEF UpTo, Grown
    <3>3. CASE q[n + 1] \in S
      <4>1. PICK t \in Seq(X), e \in X : t = f[n] /\ e = q[n + 1] /\ f[n + 1] = Append(t, e)
        BY <3>1, <3>2, <3>3
      <4>2. Append(t, e) \in Seq(X) /\ Append(t, e)[Len(t) + 1] = e /\ Len(t) + 1 \in DOMAIN Append(t, e)
            /\ \A k \in DOMAIN t : k \in DOMAIN Append(t, e) /\ Append(t, e)[k] = t[k]
        OBVIOUS
      <4>3. i <= n + 1 => i <= n \/ i = n + 1
        BY <2>1
      <4>4. ASSUME i <= n PROVE Has(f[n + 1])
        <5>1. PICK k \in DOMAIN t : t[k] = q[i]
          BY <3>1, <4>1, <4>4
        <5> QED BY <4>1, <4>2, <5>1
      <4>5. i = n + 1 => Has(f[n + 1])
        BY <4>1, <4>2
      <4> QED BY <4>1, <4>2, <4>3, <4>4, <4>5
    <3>4. CASE q[n + 1] \notin S
      <4>1. i <= n + 1 => i <= n \/ i = n + 1
        BY <2>1
      <4>2. i # n + 1
        BY <3>4
      <4> QED BY <3>1, <3>2, <3>4, <4>1, <4>2
    <3> QED BY <3>3, <3>4
  <2> QED BY <2>1, <2>2 DEF P
<1> HIDE DEF P
<1>4. Len(q) \in P
  BY <1>2, <1>3, Induct
<1>5. Those(q, S) = f[Len(q)]
  BY <1>1, ThoseIs
<1> QED BY <1>4, <1>5 DEF P

-----------------------------------------------------------------------------
(* What the command line and the disk have to be for the files to come out right *)

Given   == {argv[i].val : i \in {j \in DOMAIN argv : argv[j].o = "file"}}
OutAsked == {argv[i].val : i \in {j \in DOMAIN argv : argv[j].o = "Oname"}}

\* what zc may write for a source, besides its temporary files
MadeFor(g) == {Here(g, "obj")}
                \cup (IF g.ext = "c" THEN {WithExt(g, "i"), Here(g, "p1"), Here(g, "as")} ELSE {})

\* No file has the name of a temporary file or of one that is made of a source; only one
\* source has a name that gives the same object (directories and extensions are left out of
\* it); the listing has a name of its own.
NamesApart ==
  /\ \A f \in Given \cup OutAsked : f.dir # "tmp"
  /\ \A g \in Given : IsSource(g) => MadeFor(g) \cap (Given \cup OutAsked) = {}
  /\ \A f, g \in Given : IsSource(f) /\ IsSource(g) /\ Here(f, "obj") = Here(g, "obj") => f = g
  /\ \A i, j \in DOMAIN argv :
       argv[i].o = "CR" /\ argv[j].o \in {"file", "Oname"} => argv[j].val.base # argv[i].val

\* No temporary file of another run is there; assembler sources and start-up files that are
\* what their names say are the originals.
DiskFits ==
  /\ \A f \in DOMAIN start : f.dir # "tmp"
  /\ \A f \in Given \cap DOMAIN start :
       f.ext = "as" /\ start[f].kind \in {"as", "opt"} => start[f] = Content("as", f)
  /\ \A i \in DOMAIN targets :
       targets[i].crt \in DOMAIN start /\ start[targets[i].crt].kind \in {"obj", "objopt"} =>
         start[targets[i].crt] = Content("obj", targets[i].crt)

\* Not with -EM, nor with --ASMLIST but without -O (README).
OptionsFit == ~genDeps /\ (asmlst => optimize)

Fit == NamesApart /\ DiskFits /\ OptionsFit

-----------------------------------------------------------------------------
(* The inductive invariant: what main has made of the arguments *)

FileArgs == [o : {"file"}, val : Name]
LibArgs  == [o : {"L"}, val : STRING]
CFiles   == [dir : STRING, base : STRING, ext : {"c"}]
Seen     == SubSeq(argv, 1, argi - 1)
SeenFiles == Those(Seen, FileArgs)
SeenLibs == Those(Seen, LibArgs)
ObjOf(f) == IF IsSource(f) THEN Here(f, "obj") ELSE f
Placed   == IF build = 0 THEN <<>> ELSE <<Lib(targets[build].clib)>>

ObjsSeen ==
  /\ Len(objs) = Len(SeenFiles) + 1
  /\ objs[1] = IF build = 0 THEN None ELSE targets[build].crt
  /\ \A i \in DOMAIN SeenFiles : objs[i + 1] = ObjOf(SeenFiles[i].val)
LibsSeen == libs = [i \in DOMAIN SeenLibs |-> Lib(SeenLibs[i].val)] \o Placed
SourcesSeen ==
  /\ \A k \in DOMAIN c_as : c_as[k] \in Given /\ IsSource(c_as[k])
  /\ \A i \in DOMAIN SeenFiles :
       IsSource(SeenFiles[i].val) => \E k \in DOMAIN c_as : c_as[k] = SeenFiles[i].val
  /\ c_as # <<>> => single = Here(c_as[Len(c_as)], "obj")
OptionsSeen ==
  /\ pc \in {"args", "source", "cpp", "p1", "cgen", "optim", "zas", "asm", "link"} =>
       outfile = None \/ outfile \in OutAsked
  /\ xref => \E i \in DOMAIN argv : argv[i].o = "CR" /\ argv[i].val = xrname
  /\ nfiles < argi

Early == {"source", "cpp", "p1", "cgen", "optim", "zas", "asm", "link"}
Late  == {"objtohex", "single", "xref"}
stops == keepi \/ keepp1 \/ keepas

\* where doit is, and what the options have to do with it
Stages ==
  /\ pc = "args" => build = 0 /\ src = 1
  /\ build = 0 => fs = start /\ pc \in {"args", "exit"}
  /\ build = 0 /\ pc = "exit" => nerrs # 0
  /\ build # 0 => argi = Len(argv) + 1
  /\ pc \in {"cpp", "p1", "cgen", "optim", "zas", "asm"} => src <= Len(c_as)
  /\ pc \in {"cpp", "p1", "cgen", "optim", "zas"} => s.ext = "c"
  /\ pc = "asm" => s.ext = "as" /\ ~stops
  /\ pc \in {"p1", "cgen", "optim", "zas"} => ~keepi
  /\ pc \in {"cgen", "optim", "zas"} => ~keepp1
  /\ pc = "optim" => optimize
  /\ pc = "zas" => ~keepas
  /\ pc \in {"link", "objtohex", "single", "xref"} => ~stops
  /\ pc \in {"link", "objtohex", "single"} => ~keep
  /\ pc \in Late \cup {"link"} \/ (pc = "exit" /\ build # 0) => src = Len(c_as) + 1
  /\ pc = "link" => nerrs = 0
  /\ pc = "objtohex" => hex

-----------------------------------------------------------------------------
(* The inductive invariant: the files *)

\* the place of f among what is made of the sources
Outputs == UNION {MadeFor(c_as[k]) : k \in DOMAIN c_as}

\* before link nothing else is touched, and no program is new
OthersKept ==
  pc \in Early =>
    \A f \in DOMAIN fs \cup DOMAIN start :
      f.dir # "tmp" /\ f \notin Outputs =>
        f \in DOMAIN fs /\ f \in DOMAIN start /\ fs[f] = start[f]
NoNewProgram ==
  pc \in Early =>
    \A f \in DOMAIN fs : fs[f].kind = "com" => f \in DOMAIN start /\ fs[f] = start[f]

\* what a source has become when doit is through with it
Result(f) == IF f.ext = "c" THEN Kept(f) ELSE [name |-> Here(f, "obj"), kind |-> "obj"]
HasResult(f) == Exists(Result(f).name) /\ fs[Result(f).name] = Content(Result(f).kind, f)
ResultsThere ==
  nerrs = 0 /\ ~dryRun /\ (pc \in Early \cup {"xref"} \/ (pc = "exit" /\ build # 0))
    /\ (pc \in {"xref", "exit"} => stops \/ keep) =>
    \A k \in DOMAIN c_as : k < src /\ (c_as[k].ext = "c" \/ ~stops) => HasResult(c_as[k])

\* the cross reference names the C sources that p1 has been through
Crossed == IF pc \in {"cgen", "optim", "zas"} THEN src ELSE src - 1
CrossThere ==
  /\ build # 0 /\ Exists(crtmp) => xref /\ \E q : fs[crtmp] = Content("crf", q)
  /\ nerrs = 0 /\ ~dryRun /\ xref /\ ~keepi /\ pc \in Early \cup Late =>
       Exists(crtmp) /\ fs[crtmp] = Content("crf", Those(SubSeq(c_as, 1, Crossed), CFiles))

\* what link makes of the object files
Parts == <<Content("obj", targets[build].crt)>>
           \o [i \in DOMAIN Sources |-> Made(Sources[i].val)]
LinkedThere ==
  /\ pc = "objtohex" /\ ~dryRun =>
       Exists(l_dot_obj) /\ fs[l_dot_obj] = [kind |-> "rel", of |-> Parts, libs |-> libs]
  /\ pc \in {"single", "xref", "exit"} /\ build # 0 /\ nerrs = 0 /\ ~dryRun /\ ~stops /\ ~keep =>
       Holds(outfile, "com")
ListingThere ==
  pc = "exit" /\ build # 0 /\ nerrs = 0 /\ ~dryRun /\ ~stops /\ xref /\ xrname # "" =>
    Exists(Listing) /\ fs[Listing] = Content("listing", CSources)
\* the program's name is none of a temporary file, of what the stages make, or of the listing
OutApart(f) == f.dir # "tmp" /\ f \notin Outputs /\ (xref /\ xrname # "" => f # Listing)
OutNamed ==
  pc \in {"objtohex", "single"} \/ (pc = "xref" /\ ~keep /\ nerrs = 0) =>
    outfile = Output /\ OutApart(outfile)

\* the temporary files that are there
TempsThere ==
  /\ build # 0 /\ ~dryRun /\ pc \in Late \cup {"link", "exit"} =>
       {tmpf1, tmpf2, tmpf3} \cap DOMAIN fs = {}
  /\ build # 0 /\ Exists(l_dot_obj) /\ ~dryRun => pc = "objtohex" \/ nerrs # 0
  /\ pc \in Early => ~Exists(l_dot_obj)
  /\ pc = "exit" /\ Exists(crtmp) /\ ~dryRun => xrname = "" \/ stops

FilesRight ==
  /\ OthersKept /\ NoNewProgram /\ ResultsThere /\ CrossThere /\ LinkedThere /\ ListingThere
  /\ OutNamed /\ TempsThere /\ BuiltFromSources /\ InputsKept

ZInv == Fit /\ build # 0 => FilesRight

-----------------------------------------------------------------------------
(* Operators *)

\* A file put: there with its content, and no other touched.
LEMMA PutFacts ==
  ASSUME NEW F, NEW f, NEW c
  PROVE  /\ DOMAIN Put(F, f, c) = DOMAIN F \cup {f}
         /\ Put(F, f, c)[f] = c
         /\ \A n \in DOMAIN F : n # f => Put(F, f, c)[n] = F[n]
BY DEF Put

\* Files removed.
LEMMA RmFacts ==
  ASSUME NEW F, NEW gone
  PROVE  /\ dryRun => Rm(F, gone) = F
         /\ ~dryRun => /\ DOMAIN Rm(F, gone) = DOMAIN F \ gone
                       /\ \A n \in DOMAIN F \ gone : Rm(F, gone)[n] = F[n]
BY DEF Rm

\* What a program may have done: all that it promises, or nothing, or junk.
LEMMA RunFacts ==
  ASSUME NEW good, NEW out, NEW made, NEW r \in Run(good, out, made)
  PROVE  /\ r = [ok |-> r.ok, files |-> r.files] /\ r.ok \in BOOLEAN
         /\ dryRun => r.ok /\ r.files = fs
         /\ ~dryRun /\ r.ok => good /\ r.files = Put(fs, out, made)
         /\ ~dryRun /\ ~r.ok => r.files = fs \/ r.files = Put(fs, out, Junk)
         /\ r.files = fs \/ \E c : r.files = Put(fs, out, c)
<1>1. CASE dryRun
  <2>1. r = [ok |-> TRUE, files |-> fs]
    BY <1>1 DEF Run
  <2> QED BY <1>1, <2>1
<1>2. CASE ~dryRun
  <2>1. \/ good /\ r = [ok |-> TRUE, files |-> Put(fs, out, made)]
        \/ r \in [ok : {FALSE}, files : {fs, Put(fs, out, Junk)}]
    BY <1>2, Zenon DEF Run
  <2>2. CASE good /\ r = [ok |-> TRUE, files |-> Put(fs, out, made)]
    <3>1. r.ok /\ r.files = Put(fs, out, made)
      BY <2>2
    <3> QED BY <1>2, <2>2, <3>1
  <2>3. CASE r \in [ok : {FALSE}, files : {fs, Put(fs, out, Junk)}]
    <3>1. ~r.ok /\ r.ok \in BOOLEAN /\ (r.files = fs \/ r.files = Put(fs, out, Junk))
      BY <2>3
    <3>2. r = [ok |-> r.ok, files |-> r.files]
      BY <2>3
    <3> QED BY <1>2, <3>1, <3>2
  <2> QED BY <2>1, <2>2, <2>3
<1> QED BY <1>1, <1>2

\* Nothing but files with names is left.
LEMMA RunNames ==
  ASSUME DOMAIN fs \subseteq Name, NEW good, NEW out \in Name, NEW made, NEW r \in Run(good, out, made)
  PROVE  DOMAIN r.files \subseteq Name
<1>1. r.files = fs \/ \E c : r.files = Put(fs, out, c)
  BY RunFacts
<1>2. CASE r.files = fs
  BY <1>2
<1>3. CASE \E c : r.files = Put(fs, out, c)
  <2>1. PICK c : r.files = Put(fs, out, c)
    BY <1>3
  <2>2. DOMAIN Put(fs, out, c) = DOMAIN fs \cup {out}
    BY PutFacts
  <2> QED BY <2>1, <2>2
<1> QED BY <1>1, <1>2, <1>3

LEMMA RmNames ==
  ASSUME NEW F, NEW gone, DOMAIN F \subseteq Name PROVE DOMAIN Rm(F, gone) \subseteq Name
<1>1. DOMAIN Rm(F, gone) \subseteq DOMAIN F
  BY DEF Rm
<1> QED BY <1>1

\* The names that the stages make are names.
LEMMA NamesAreNames ==
  /\ \A d, b, e \in STRING : File(d, b, e) \in Name
  /\ \A f \in Name : \A e \in STRING : Here(f, e) \in Name /\ WithExt(f, e) \in Name
  /\ {tmpf1, tmpf2, tmpf3, l_dot_obj, crtmp, None} \subseteq Name
  /\ \A i \in 1..9 : targets[i].crt \in Name /\ targets[i].clib \in STRING /\ targets[i].ext \in STRING
  /\ Len(targets) = 9
  /\ \A n \in STRING : Lib(n) \in Name
<1>1. \A d, b, e \in STRING : File(d, b, e) \in Name
  BY DEF File, Name
<1>2. \A f \in Name : \A e \in STRING : Here(f, e) \in Name /\ WithExt(f, e) \in Name
  BY Literals DEF File, Name, Here, WithExt
<1>3. {tmpf1, tmpf2, tmpf3, l_dot_obj, crtmp, None} \subseteq Name
  <2>1. \A e \in {"ct1", "ct2", "ct3", "obj", "xin"} : Tmp(e) \in Name
    BY <1>1, Literals DEF Tmp
  <2>2. None \in Name
    BY <1>1, Literals DEF None
  <2> QED BY <2>1, <2>2 DEF tmpf1, tmpf2, tmpf3, l_dot_obj, crtmp
<1>4. \A n \in STRING : Lib(n) \in Name /\ Crt(n) \in Name
  BY <1>1, Literals DEF Lib, Crt
<1> DEFINE Fine(t) == /\ t.ext \in {"com", ""} /\ t.clib \in {"280c", "c", "corig", "cuzi"}
                      /\ \E n \in {"c280cpm", "crtcpm", "zcrtcpm", "n280cpm", "nrtcpm", "crtuzi",
                                  "r280cpm", "rrtcpm"} : t.crt = Crt(n)
           Good(i) == Fine(targets[i])
<1>5. Len(targets) = 9
  BY DEF targets
<1>6. Good(1) /\ Good(2) /\ Good(3) /\ Good(4) /\ Good(5) /\ Good(6) /\ Good(7) /\ Good(8) /\ Good(9)
  <2>1. Good(1)
    BY Zenon DEF targets, Target
  <2>2. Good(2)
    BY Zenon DEF targets, Target
  <2>3. Good(3)
    BY Zenon DEF targets, Target
  <2>4. Good(4)
    BY Zenon DEF targets, Target
  <2>5. Good(5)
    BY Zenon DEF targets, Target
  <2>6. Good(6)
    BY Zenon DEF targets, Target
  <2>7. Good(7)
    BY Zenon DEF targets, Target
  <2>8. Good(8)
    BY Zenon DEF targets, Target
  <2>9. Good(9)
    BY Zenon DEF targets, Target
  <2> QED BY <2>1, <2>2, <2>3, <2>4, <2>5, <2>6, <2>7, <2>8, <2>9
<1> HIDE DEF Good
<1>7. \A i \in 1..9 : Good(i)
  BY <1>6
<1>8. \A i \in 1..9 : targets[i].crt \in Name /\ targets[i].clib \in STRING /\ targets[i].ext \in STRING
  <2> TAKE i \in 1..9
  <2>1. targets[i].clib \in STRING
    BY <1>7, Literals DEF Good
  <2>2. targets[i].ext \in STRING
    BY <1>7, Literals DEF Good
  <2>3. PICK n \in STRING : targets[i].crt = Crt(n)
    BY <1>7, Literals DEF Good
  <2> QED BY <1>4, <2>1, <2>2, <2>3
<1> QED BY <1>1, <1>2, <1>3, <1>4, <1>5, <1>8

\* With the argument that main has dealt with, the file and library arguments seen.
LEMMA SeenNext ==
  ASSUME argv \in Seq(Arg), argi \in 1..Len(argv), argv' = argv, argi' = argi + 1
  PROVE  /\ SeenFiles' = IF argv[argi].o = "file" THEN Append(SeenFiles, argv[argi]) ELSE SeenFiles
         /\ SeenLibs' = IF argv[argi].o = "L" THEN Append(SeenLibs, argv[argi]) ELSE SeenLibs
         /\ argv[argi] \in Arg
<1>1. Seen' = Append(Seen, argv[argi]) /\ Seen \in Seq(Arg) /\ argv[argi] \in Arg
  <2>1. Seen' = SubSeq(argv, 1, argi)
    BY DEF Seen
  <2>2. SubSeq(argv, 1, argi) = Append(SubSeq(argv, 1, argi - 1), argv[argi])
    OBVIOUS
  <2>3. SubSeq(argv, 1, argi - 1) \in Seq(Arg) /\ argv[argi] \in Arg
    OBVIOUS
  <2> QED BY <2>1, <2>2, <2>3 DEF Seen
<1>2. argv[argi].o = "file" <=> argv[argi] \in FileArgs
  BY <1>1 DEF Arg, FileArgs
<1>3. argv[argi].o = "L" <=> argv[argi] \in LibArgs
  BY <1>1 DEF Arg, LibArgs
<1>4. PICK q \in Seq(Arg), e \in Arg : q = Seen /\ e = argv[argi]
  BY <1>1
<1>5. /\ Those(Append(q, e), FileArgs) = IF e \in FileArgs THEN Append(Those(q, FileArgs), e) ELSE Those(q, FileArgs)
      /\ Those(Append(q, e), LibArgs) = IF e \in LibArgs THEN Append(Those(q, LibArgs), e) ELSE Those(q, LibArgs)
  BY ThoseAppend
<1>6. SeenFiles' = Those(Append(q, e), FileArgs) /\ SeenLibs' = Those(Append(q, e), LibArgs)
  BY <1>1, <1>4 DEF SeenFiles, SeenLibs
<1> QED BY <1>1, <1>2, <1>3, <1>4, <1>5, <1>6 DEF SeenFiles, SeenLibs

\* The arguments seen are arguments of their kind.
LEMMA SeenTyped ==
  ASSUME argv \in Seq(Arg), argi \in 1..(Len(argv) + 1)
  PROVE  /\ SeenFiles \in Seq(FileArgs) /\ SeenLibs \in Seq(LibArgs)
         /\ \A i \in DOMAIN SeenFiles : SeenFiles[i].val \in Given
<1>1. Seen \in Seq(Arg) /\ \A i \in DOMAIN Seen : i \in DOMAIN argv /\ Seen[i] = argv[i]
  BY DEF Seen
<1>0. PICK q \in Seq(Arg) : q = Seen
  BY <1>1
<1>2. /\ SeenFiles \in Seq(FileArgs \cap Arg)
      /\ \A k \in DOMAIN SeenFiles : \E i \in DOMAIN Seen : Seen[i] = SeenFiles[k]
  <2>1. Part(Those(q, FileArgs), q, FileArgs, Arg)
    BY ThoseSeq
  <2> QED BY <1>0, <2>1 DEF SeenFiles, Part
<1>3. SeenLibs \in Seq(LibArgs \cap Arg)
  <2>1. Part(Those(q, LibArgs), q, LibArgs, Arg)
    BY ThoseSeq
  <2> QED BY <1>0, <2>1 DEF SeenLibs, Part
<1>4. \A i \in DOMAIN SeenFiles : SeenFiles[i].val \in Given
  <2> TAKE k \in DOMAIN SeenFiles
  <2>1. PICK i \in DOMAIN argv : argv[i] = SeenFiles[k]
    BY <1>1, <1>2
  <2>2. SeenFiles[k].o = "file"
    BY <1>2 DEF FileArgs
  <2> QED BY <2>1, <2>2 DEF Given
<1> QED BY <1>2, <1>3, <1>4

-----------------------------------------------------------------------------
(* The arguments and the stages: an invariant without the files' contents *)

PInv == TypeOK /\ ObjsSeen /\ LibsSeen /\ SourcesSeen /\ OptionsSeen /\ Stages

LEMMA InitInv == Init => PInv
<1> SUFFICES ASSUME Init PROVE PInv
  OBVIOUS
<1>0. argv \in Seq(Arg) /\ DOMAIN fs \subseteq Name
  <2>1. argv \in Commands /\ fs \in Disks
    BY DEF Init
  <2> QED BY <2>1, ZcAssumption
<1>1. Seen = <<>>
  <2>1. argi = 1
    BY DEF Init
  <2>2. SubSeq(argv, 1, 1 - 1) = <<>>
    BY <1>0
  <2> QED BY <2>1, <2>2 DEF Seen
<1>2. SeenFiles = <<>> /\ SeenLibs = <<>>
  BY <1>1, ThoseEmpty DEF SeenFiles, SeenLibs
<1>3. TypeOK
  <2>1. None \in Name /\ Len(targets) = 9
    BY NamesAreNames
  <2>2. {"", "z80", "none"} \subseteq STRING
    BY Literals
  <2>3. argi = 1 /\ pc = "args" /\ flags = {} /\ objs = <<None>> /\ libs = <<>> /\ c_as = <<>> /\ nfiles = 0
        /\ single = None /\ outfile = None /\ build = 0 /\ src = 1 /\ nerrs = 0 /\ start = fs
    BY DEF Init
  <2>4. target = "" /\ processor = "z80" /\ xrname = "none"
    BY DEF Init
  <2>5. objs \in Seq(Name) \ {<<>>}
    BY <2>1, <2>3
  <2>6. libs \in Seq(Name) /\ c_as \in Seq(Name) /\ src \in 1..(Len(c_as) + 1)
    BY <2>3
  <2>7. argi \in 1..(Len(argv) + 1) /\ nfiles \in 0..Len(argv) /\ build \in 0..Len(targets) /\ nerrs \in Nat
    BY <1>0, <2>1, <2>3
  <2>8. pc \in Pcs /\ flags \subseteq Flags
    BY <2>3 DEF Pcs
  <2> QED BY <1>0, <2>1, <2>2, <2>3, <2>4, <2>5, <2>6, <2>7, <2>8 DEF TypeOK
<1>4. ObjsSeen /\ LibsSeen
  <2>1. objs = <<None>> /\ libs = <<>> /\ build = 0
    BY DEF Init
  <2> QED BY <1>2, <2>1 DEF ObjsSeen, LibsSeen, Placed
<1>5. SourcesSeen
  <2>1. c_as = <<>>
    BY DEF Init
  <2> QED BY <1>2, <2>1 DEF SourcesSeen
<1>6. OptionsSeen /\ Stages
  <2>1. nfiles < argi
    <3>1. nfiles = 0 /\ argi = 1
      BY DEF Init
    <3> QED BY <3>1
  <2> QED BY <2>1 DEF Init, OptionsSeen, Stages, xref, Late
<1> QED BY <1>3, <1>4, <1>5, <1>6 DEF PInv

\* What depends on the argument lists only.
LEMMA ListsKept ==
  ASSUME ObjsSeen, LibsSeen, SourcesSeen, UNCHANGED <<opts, argi, list, build>>
  PROVE  (ObjsSeen /\ LibsSeen /\ SourcesSeen)'
BY DEF ObjsSeen, LibsSeen, SourcesSeen, SeenFiles, SeenLibs, Seen, Placed, opts, list, Given

\* An argument that is not a file or a library adds nothing to the lists.
LEMMA OptionLists ==
  ASSUME PInv, argi \in 1..Len(argv), argv[argi].o \notin {"file", "L"},
         argv' = argv, argi' = argi + 1, UNCHANGED <<list, build>>
  PROVE  (ObjsSeen /\ LibsSeen /\ SourcesSeen)'
<1>1. SeenFiles' = SeenFiles /\ SeenLibs' = SeenLibs
  BY SeenNext DEF PInv, TypeOK
<1> QED BY <1>1 DEF PInv, ObjsSeen, LibsSeen, SourcesSeen, Placed, list, Given

\* What is seen of the options, while main reads the arguments.
LEMMA ReadingArgs ==
  ASSUME PInv, pc = "args", argi \in 1..Len(argv), argi' = argi + 1,
         UNCHANGED <<argv, pc, build, src, nerrs, fs, start>>,
         nfiles' \in {nfiles, nfiles + 1}, outfile' = None \/ outfile' \in OutAsked,
         xref' => \E i \in DOMAIN argv : argv[i].o = "CR" /\ argv[i].val = xrname'
  PROVE  (OptionsSeen /\ Stages)'
<1>1. nfiles' < argi'
  <2>1. nfiles < argi /\ nfiles \in Nat /\ argi \in Nat
    BY DEF PInv, OptionsSeen, TypeOK
  <2> QED BY <2>1
<1>2. OutAsked' = OutAsked
  BY DEF OutAsked
<1>3. OptionsSeen'
  BY <1>1, <1>2 DEF OptionsSeen, xref
<1>4. Stages'
  BY DEF PInv, Stages, Late
<1> QED BY <1>3, <1>4

LEMMA OptionInv == PInv /\ Option => PInv'
<1> SUFFICES ASSUME PInv, Option PROVE PInv'
  OBVIOUS
<1>1. /\ argi \in 1..Len(argv) /\ argv[argi] \in Arg /\ argv[argi].o \in {"flag", "Z"} /\ argv \in Seq(Arg)
      /\ pc = "args"
  BY DEF PInv, TypeOK, Option, Arguing
<1>2. (ObjsSeen /\ LibsSeen /\ SourcesSeen)'
  BY <1>1, OptionLists DEF Option, NextArg
<1>3. TypeOK'
  <2>1. (argv[argi].o = "flag" => val \in Flags) /\ (argv[argi].o = "Z" => val \in STRING)
    BY <1>1 DEF Arg, val
  <2>2. flags' \subseteq Flags /\ processor' \in STRING
    BY <2>1 DEF Option, PInv, TypeOK
  <2> QED BY <1>1, <2>2 DEF Option, NextArg, PInv, TypeOK, list
<1>4. (OptionsSeen /\ Stages)'
  <2>1. UNCHANGED <<outfile, xrname, nfiles>> /\ UNCHANGED <<argv, pc, build, src, nerrs, fs, start>> /\ argi' = argi + 1
    BY DEF Option, NextArg, list
  <2>2. (outfile = None \/ outfile \in OutAsked)
        /\ (xref => \E i \in DOMAIN argv : argv[i].o = "CR" /\ argv[i].val = xrname)
    BY <1>1 DEF PInv, OptionsSeen
  <2> QED BY <1>1, <2>1, <2>2, ReadingArgs DEF xref
<1> QED BY <1>2, <1>3, <1>4 DEF PInv

LEMMA FirstOptionInv == PInv /\ FirstOption => PInv'
<1> SUFFICES ASSUME PInv, FirstOption PROVE PInv'
  OBVIOUS
<1>1. /\ argi \in 1..Len(argv) /\ argv[argi] \in Arg /\ argv[argi].o \in {"A", "CR", "Oname"} /\ argv \in Seq(Arg)
      /\ pc = "args"
  <2>1. Arguing({"A", "CR", "Oname"})
    BY DEF FirstOption
  <2>2. argv \in Seq(Arg) /\ argi \in 1..(Len(argv) + 1)
    BY DEF PInv, TypeOK
  <2> QED BY <2>1, <2>2 DEF Arguing
<1>2. (ObjsSeen /\ LibsSeen /\ SourcesSeen)'
  BY <1>1, OptionLists DEF FirstOption, NextArg
<1>3. TypeOK'
  <2>1. (argv[argi].o \in {"A", "CR"} => val \in STRING) /\ (argv[argi].o = "Oname" => val \in Name)
    BY <1>1 DEF Arg, val
  <2>2. target' \in STRING /\ xrname' \in STRING /\ outfile' \in Name
    <3>1. target \in STRING /\ xrname \in STRING /\ outfile \in Name /\ "TOP" \in STRING
      BY Literals DEF PInv, TypeOK
    <3>2. target' \in {val, "TOP", target} /\ (argv[argi].o # "A" => target' = target)
      BY DEF FirstOption
    <3>3. xrname' \in {val, xrname} /\ (argv[argi].o # "CR" => xrname' = xrname)
      BY DEF FirstOption
    <3>4. outfile' \in {val, outfile} /\ (argv[argi].o # "Oname" => outfile' = outfile)
      BY DEF FirstOption
    <3> QED BY <2>1, <3>1, <3>2, <3>3, <3>4
  <2>3. UNCHANGED <<flags, processor, list, argv, pc, build, src, nerrs, fs, start>> /\ argi' = argi + 1
    BY DEF FirstOption, NextArg
  <2> QED BY <1>1, <2>2, <2>3 DEF PInv, TypeOK, list
<1>4. (OptionsSeen /\ Stages)'
  <2>1. outfile' = None \/ outfile' \in OutAsked
    <3>1. outfile' = outfile \/ (argv[argi].o = "Oname" /\ outfile' = argv[argi].val)
      BY DEF FirstOption, val
    <3>2. outfile = None \/ outfile \in OutAsked
      BY <1>1 DEF PInv, OptionsSeen
    <3>3. argv[argi].o = "Oname" => argv[argi].val \in OutAsked
      BY <1>1 DEF OutAsked
    <3> QED BY <3>1, <3>2, <3>3
  <2>2. xref' => \E i \in DOMAIN argv : argv[i].o = "CR" /\ argv[i].val = xrname'
    <3>1. xrname' = xrname \/ (argv[argi].o = "CR" /\ xrname' = argv[argi].val)
      BY DEF FirstOption, val
    <3>2. xref => \E i \in DOMAIN argv : argv[i].o = "CR" /\ argv[i].val = xrname
      BY DEF PInv, OptionsSeen
    <3>3. argi \in DOMAIN argv
      BY <1>1
    <3> QED BY <3>1, <3>2, <3>3 DEF xref
  <2>3. UNCHANGED nfiles /\ UNCHANGED <<argv, pc, build, src, nerrs, fs, start>> /\ argi' = argi + 1
    BY DEF FirstOption, NextArg, list
  <2> QED BY <1>1, <2>1, <2>2, <2>3, ReadingArgs
<1> QED BY <1>2, <1>3, <1>4 DEF PInv

LEMMA LibOptionInv == PInv /\ LibOption => PInv'
<1> SUFFICES ASSUME PInv, LibOption PROVE PInv'
  OBVIOUS
<1>1. argi \in 1..Len(argv) /\ argv[argi] \in Arg /\ argv[argi].o = "L" /\ argv \in Seq(Arg) /\ pc = "args"
  <2>1. Arguing({"L"})
    BY DEF LibOption
  <2>2. argv \in Seq(Arg) /\ argi \in 1..(Len(argv) + 1)
    BY DEF PInv, TypeOK
  <2> QED BY <2>1, <2>2 DEF Arguing
<1>2. /\ UNCHANGED <<flags, target, processor, xrname, objs, c_as, nfiles, single, outfile>>
      /\ UNCHANGED <<argv, pc, build, src, nerrs, fs, start>>
      /\ argi' = argi + 1 /\ libs' = Append(libs, Lib(argv[argi].val))
  BY DEF LibOption, NextArg, val
<1>3. TypeOK'
  <2>1. argv[argi].val \in STRING
    BY <1>1 DEF Arg
  <2>2. Lib(argv[argi].val) \in Name
    BY <2>1, NamesAreNames
  <2>3. libs' \in Seq(Name)
    BY <1>2, <2>2 DEF PInv, TypeOK
  <2> QED BY <1>1, <1>2, <2>3 DEF PInv, TypeOK
<1>4. SeenFiles' = SeenFiles /\ SeenLibs' = Append(SeenLibs, argv[argi])
  BY <1>1, <1>2, SeenNext
<1>5. (ObjsSeen /\ SourcesSeen)'
  BY <1>2, <1>4 DEF PInv, ObjsSeen, SourcesSeen, Given
<1>6. LibsSeen'
  <2>1. build = 0 /\ Placed = <<>> /\ Placed' = <<>>
    BY <1>1, <1>2 DEF PInv, Stages, Placed
  <2>2. SeenLibs \in Seq(LibArgs)
    BY <1>1, SeenTyped DEF PInv, TypeOK
  <2>3. PICK q \in Seq(LibArgs), e \in Arg : q = SeenLibs /\ e = argv[argi]
    BY <1>1, <2>2
  <2>4. libs = [i \in DOMAIN q |-> Lib(q[i].val)]
    BY <2>1, <2>3 DEF PInv, LibsSeen
  <2>5. e \in LibArgs
    BY <1>1, <2>3 DEF Arg, LibArgs
  <2>6. Append([i \in DOMAIN q |-> Lib(q[i].val)], Lib(e.val)) = [i \in DOMAIN Append(q, e) |-> Lib(Append(q, e)[i].val)]
    BY <2>5
  <2>7. libs' = [i \in DOMAIN SeenLibs' |-> Lib(SeenLibs'[i].val)]
    BY <1>2, <1>4, <2>3, <2>4, <2>6
  <2> QED BY <2>1, <2>7 DEF LibsSeen
<1>7. (OptionsSeen /\ Stages)'
  <2>1. (outfile = None \/ outfile \in OutAsked)
        /\ (xref => \E i \in DOMAIN argv : argv[i].o = "CR" /\ argv[i].val = xrname)
    BY <1>1 DEF PInv, OptionsSeen
  <2> QED BY <1>1, <1>2, <2>1, ReadingArgs DEF xref
<1> QED BY <1>3, <1>5, <1>6, <1>7 DEF PInv

LEMMA FileArgInv == PInv /\ FileArg => PInv'
<1> SUFFICES ASSUME PInv, FileArg PROVE PInv'
  OBVIOUS
<1>1. argi \in 1..Len(argv) /\ argv[argi] \in Arg /\ argv[argi].o = "file" /\ argv \in Seq(Arg) /\ pc = "args"
  <2>1. Arguing({"file"})
    BY DEF FileArg
  <2>2. argv \in Seq(Arg) /\ argi \in 1..(Len(argv) + 1)
    BY DEF PInv, TypeOK
  <2> QED BY <2>1, <2>2 DEF Arguing
<1>0. PICK v : v = argv[argi].val
  OBVIOUS
<1>2. /\ UNCHANGED <<flags, target, processor, xrname, libs, outfile>>
      /\ UNCHANGED <<argv, pc, build, src, nerrs, fs, start>>
      /\ argi' = argi + 1 /\ nfiles' = nfiles + 1 /\ objs' = Append(objs, ObjOf(v))
      /\ c_as' = (IF IsSource(v) THEN Append(c_as, v) ELSE c_as)
      /\ single' = (IF IsSource(v) THEN Here(v, "obj") ELSE single)
  <2>1. CASE IsSource(val)
    BY <1>0, <2>1 DEF FileArg, NextArg, val, ObjOf
  <2>2. CASE ~IsSource(val)
    BY <1>0, <2>2 DEF FileArg, NextArg, val, ObjOf
  <2> QED BY <2>1, <2>2
<1>3. v \in Name /\ v \in Given
  <2>1. v \in Name
    BY <1>0, <1>1 DEF Arg
  <2> QED BY <1>0, <1>1, <2>1 DEF Given
<1>4. TypeOK'
  <2>1. Here(v, "obj") \in Name /\ ObjOf(v) \in Name
    BY <1>3, NamesAreNames, Literals DEF ObjOf
  <2>2. objs' \in Seq(Name) \ {<<>>} /\ c_as' \in Seq(Name) /\ single' \in Name
    <3>1. objs \in Seq(Name) \ {<<>>} /\ c_as \in Seq(Name) /\ single \in Name
      BY DEF PInv, TypeOK
    <3>2. Append(objs, ObjOf(v)) \in Seq(Name) \ {<<>>} /\ Append(c_as, v) \in Seq(Name)
      BY <1>3, <2>1, <3>1
    <3> QED BY <1>2, <2>1, <3>1, <3>2
  <2>3. src = 1 /\ src' \in 1..(Len(c_as') + 1)
    BY <1>1, <1>2, <2>2 DEF PInv, Stages
  <2>4. nfiles' \in 0..Len(argv)
    <3>1. nfiles < argi /\ nfiles \in Nat /\ argi \in 1..Len(argv) /\ Len(argv) \in Nat
      BY <1>1 DEF PInv, OptionsSeen, TypeOK
    <3> QED BY <1>2, <3>1
  <2> QED BY <1>1, <1>2, <2>2, <2>3, <2>4 DEF PInv, TypeOK
<1>5. SeenFiles' = Append(SeenFiles, argv[argi]) /\ SeenLibs' = SeenLibs
  BY <1>1, <1>2, SeenNext
<1>6. PICK q \in Seq(FileArgs), e \in FileArgs :
        q = SeenFiles /\ e = argv[argi] /\ e.val = v /\ SeenFiles' = Append(q, e)
  <2>1. argv[argi] \in FileArgs
    BY <1>1 DEF Arg, FileArgs
  <2>2. SeenFiles \in Seq(FileArgs)
    BY <1>1, SeenTyped DEF PInv, TypeOK
  <2> QED BY <1>0, <1>5, <2>1, <2>2
<1>7. ObjsSeen'
  <2>1. Len(objs) = Len(q) + 1 /\ objs \in Seq(Name) /\ objs[1] = None /\ build = 0
    BY <1>1, <1>6 DEF PInv, ObjsSeen, TypeOK, Stages
  <2>2. \A i \in DOMAIN q : objs[i + 1] = ObjOf(q[i].val)
    BY <1>6 DEF PInv, ObjsSeen
  <2>3. PICK w : w = ObjOf(v)
    OBVIOUS
  <2>4. Len(Append(objs, w)) = Len(Append(q, e)) + 1 /\ Append(objs, w)[1] = None
    BY <2>1
  <2>5. ASSUME NEW i \in DOMAIN Append(q, e) PROVE Append(objs, w)[i + 1] = ObjOf(Append(q, e)[i].val)
    <3>1. CASE i = Len(q) + 1
      <4>1. Append(q, e)[i] = e /\ Append(objs, w)[i + 1] = w
        BY <2>1, <3>1
      <4>2. Append(q, e)[i].val = v
        BY <1>6, <4>1
      <4> QED BY <2>3, <4>1, <4>2
    <3>2. CASE i \in DOMAIN q
      <4>1. Append(q, e)[i] = q[i] /\ Append(objs, w)[i + 1] = objs[i + 1]
        BY <2>1, <3>2
      <4> QED BY <2>2, <3>2, <4>1
    <3>3. i = Len(q) + 1 \/ i \in DOMAIN q
      OBVIOUS
    <3> QED BY <3>1, <3>2, <3>3
  <2>6. objs' = Append(objs, w) /\ SeenFiles' = Append(q, e) /\ build' = 0
    BY <1>2, <1>6, <2>1, <2>3
  <2> QED BY <2>4, <2>5, <2>6 DEF ObjsSeen
<1>8. LibsSeen'
  BY <1>2, <1>5 DEF PInv, LibsSeen, Placed
<1>9. SourcesSeen'
  <2>1. Given' = Given
    BY <1>2 DEF Given
  <2>2. c_as \in Seq(Name) /\ \A k \in DOMAIN c_as : c_as[k] \in Given /\ IsSource(c_as[k])
    BY DEF PInv, TypeOK, SourcesSeen
  <2>3. \A k \in DOMAIN c_as' : c_as'[k] \in Given /\ IsSource(c_as'[k])
    BY <1>2, <1>3, <2>2
  <2>4. \A i \in DOMAIN q : IsSource(q[i].val) => \E k \in DOMAIN c_as : c_as[k] = q[i].val
    BY <1>6 DEF PInv, SourcesSeen
  <2>5. \A k \in DOMAIN c_as : k \in DOMAIN c_as' /\ c_as'[k] = c_as[k]
    BY <1>2, <1>3, <2>2
  <2>6. ASSUME NEW i \in DOMAIN Append(q, e), IsSource(Append(q, e)[i].val)
        PROVE  \E k \in DOMAIN c_as' : c_as'[k] = Append(q, e)[i].val
    <3>1. CASE i = Len(q) + 1
      <4>1. Append(q, e)[i].val = v
        <5>1. Append(q, e)[i] = e
          BY <3>1
        <5> QED BY <1>6, <5>1
      <4>2. c_as' = Append(c_as, v)
        BY <1>2, <2>6, <4>1
      <4>3. Len(c_as) + 1 \in DOMAIN c_as' /\ c_as'[Len(c_as) + 1] = v
        BY <1>3, <2>2, <4>2
      <4> QED BY <4>1, <4>3
    <3>2. CASE i \in DOMAIN q
      <4>1. Append(q, e)[i] = q[i]
        BY <3>2
      <4> QED BY <2>4, <2>5, <2>6, <3>2, <4>1
    <3> QED BY <3>1, <3>2
  <2>7. c_as' # <<>> => single' = Here(c_as'[Len(c_as')], "obj")
    <3>1. CASE IsSource(v)
      BY <1>2, <1>3, <2>2, <3>1
    <3>2. CASE ~IsSource(v)
      BY <1>2, <3>2 DEF PInv, SourcesSeen
    <3> QED BY <3>1, <3>2
  <2> QED BY <1>6, <2>1, <2>3, <2>6, <2>7 DEF SourcesSeen
<1>10. (OptionsSeen /\ Stages)'
  <2>1. (outfile = None \/ outfile \in OutAsked)
        /\ (xref => \E i \in DOMAIN argv : argv[i].o = "CR" /\ argv[i].val = xrname)
    BY <1>1 DEF PInv, OptionsSeen
  <2> QED BY <1>1, <1>2, <2>1, ReadingArgs DEF xref
<1> QED BY <1>4, <1>7, <1>8, <1>9, <1>10 DEF PInv

\* error() and usage() end a run before anything is written.
LEMMA QuitInv == ASSUME PInv, pc = "args", Quit PROVE PInv'
<1>1. (ObjsSeen /\ LibsSeen /\ SourcesSeen)'
  BY ListsKept DEF PInv, Quit
<1>2. TypeOK'
  BY DEF Quit, PInv, TypeOK, opts, list, Pcs
<1>3. OptionsSeen'
  BY DEF Quit, PInv, OptionsSeen, opts, list, xref
<1>4. Stages'
  <2>1. build = 0 /\ src = 1 /\ fs = start
    BY DEF PInv, Stages
  <2> QED BY <2>1 DEF Quit, Stages, Late
<1> QED BY <1>1, <1>2, <1>3, <1>4 DEF PInv

\* setTarget finds the first of the entries that match.
LEMMA FirstFound == ASSUME Found # {} PROVE Min(Found) \in 1..9 /\ Min(Found) \in Found
<1>1. Found \subseteq 1..9
  BY NamesAreNames DEF Found, From, NWILD
<1>2. PICK x \in Found : \A y \in Found : x <= y
  <2>1. Found \subseteq Nat
    BY <1>1
  <2> QED BY <2>1, Least
<1>3. Min(Found) \in Found
  BY <1>2 DEF Min
<1> QED BY <1>1, <1>3

LEMMA SetTargetInv == PInv /\ SetTarget => PInv'
<1> SUFFICES ASSUME PInv, SetTarget PROVE PInv'
  OBVIOUS
<1>0. pc = "args" /\ argi > Len(argv) /\ argv \in Seq(Arg) /\ argi \in 1..(Len(argv) + 1)
  BY DEF SetTarget, PInv, TypeOK
<1>1. CASE Found = {}
  <2>1. Quit
    BY <1>1 DEF SetTarget
  <2> QED BY <1>0, <2>1, QuitInv
<1>2. CASE Found # {}
  <2>1. /\ build' = Min(Found)
        /\ objs' = [objs EXCEPT ![1] = targets[build'].crt]
        /\ libs' = Append(libs, Lib(targets[build'].clib))
        /\ pc' = "source"
        /\ fs' = IF xref THEN Put(fs, crtmp, Content("crf", <<>>)) ELSE fs
        /\ UNCHANGED <<opts, argi, c_as, nfiles, single, outfile, src, nerrs, start>>
    BY <1>2, Zenon DEF SetTarget
  <2>2. build' \in 1..9 /\ build = 0 /\ src = 1
    BY <1>0, <1>2, <2>1, FirstFound DEF PInv, Stages
  <2>30. PICK b \in 1..9 : b = build'
    BY <2>2
  <2>3. PICK t : b = build' /\ t = targets[b]
    BY <2>30
  <2>4. t.crt \in Name /\ Lib(t.clib) \in Name
    BY <2>3, NamesAreNames
  <2>5. objs \in Seq(Name) /\ objs # <<>> /\ libs \in Seq(Name)
    BY DEF PInv, TypeOK
  <2>6. objs' \in Seq(Name) \ {<<>>} /\ objs' = [objs EXCEPT ![1] = t.crt] /\ libs' = Append(libs, Lib(t.clib))
    BY <2>1, <2>3, <2>4, <2>5
  <2>7. libs' \in Seq(Name)
    BY <2>4, <2>5, <2>6
  <2>8. DOMAIN fs' \subseteq Name
    <3>1. DOMAIN fs \subseteq Name
      BY DEF PInv, TypeOK
    <3>2. crtmp \in Name
      BY NamesAreNames
    <3>3. PICK c : c = Content("crf", <<>>)
      OBVIOUS
    <3>4. DOMAIN Put(fs, crtmp, c) = DOMAIN fs \cup {crtmp}
      BY PutFacts
    <3>5. fs' = fs \/ fs' = Put(fs, crtmp, c)
      BY <2>1, <3>3
    <3> QED BY <3>1, <3>2, <3>4, <3>5
  <2>9. TypeOK'
    <3>1. build' \in 0..Len(targets)
      BY <2>2, NamesAreNames
    <3> QED BY <2>1, <2>6, <2>7, <2>8, <3>1 DEF PInv, TypeOK, opts, Pcs
  <2>10. SeenFiles' = SeenFiles /\ SeenLibs' = SeenLibs /\ Given' = Given /\ OutAsked' = OutAsked
    BY <2>1 DEF SeenFiles, SeenLibs, Seen, Given, OutAsked, opts
  <2>11. ObjsSeen'
    <3>1. Len(objs) = Len(SeenFiles) + 1 /\ \A i \in DOMAIN SeenFiles : objs[i + 1] = ObjOf(SeenFiles[i].val)
      BY DEF PInv, ObjsSeen
    <3>2. SeenFiles \in Seq(FileArgs)
      BY <1>0, SeenTyped
    <3>3. Len(objs') = Len(objs) /\ objs'[1] = t.crt /\ \A i \in DOMAIN SeenFiles : objs'[i + 1] = objs[i + 1]
      BY <2>5, <2>6, <3>1, <3>2
    <3> QED BY <2>2, <2>3, <2>10, <3>1, <3>3 DEF ObjsSeen
  <2>12. LibsSeen'
    <3>1. libs = [i \in DOMAIN SeenLibs |-> Lib(SeenLibs[i].val)] \o <<>>
      BY <2>2 DEF PInv, LibsSeen, Placed
    <3>2. SeenLibs \in Seq(LibArgs)
      BY <1>0, SeenTyped
    <3>3. PICK q : q = [i \in DOMAIN SeenLibs |-> Lib(SeenLibs[i].val)]
      OBVIOUS
    <3>4. q \in Seq({Lib(SeenLibs[i].val) : i \in DOMAIN SeenLibs})
      BY <3>2, <3>3
    <3>5. PICK w : w = Lib(t.clib)
      OBVIOUS
    <3>6. libs = q /\ Append(q, w) = q \o <<w>>
      BY <3>1, <3>3, <3>4
    <3>7. Placed' = <<w>>
      BY <2>2, <2>3, <3>5 DEF Placed
    <3> QED BY <2>6, <2>10, <3>3, <3>5, <3>6, <3>7 DEF LibsSeen
  <2>13. SourcesSeen'
    BY <2>1, <2>10 DEF PInv, SourcesSeen
  <2>14. OptionsSeen'
    <3>1. nfiles < argi /\ (outfile = None \/ outfile \in OutAsked)
          /\ (xref => \E i \in DOMAIN argv : argv[i].o = "CR" /\ argv[i].val = xrname)
      BY <1>0 DEF PInv, OptionsSeen
    <3> QED BY <2>1, <2>10, <3>1 DEF OptionsSeen, opts, xref
  <2>15. Stages'
    <3>1. argi = Len(argv) + 1
      BY <1>0
    <3>2. build' # 0
      BY <2>2
    <3> QED BY <2>1, <3>1, <3>2 DEF Stages, Late, opts
  <2> QED BY <2>9, <2>11, <2>12, <2>13, <2>14, <2>15 DEF PInv
<1> QED BY <1>1, <1>2

\* What doit leaves alone.
doitKeeps == <<opts, argi, list, build, start>>

\* From the steps of doit: what an invariant of the options needs besides types.
LEMMA DoitInv ==
  ASSUME PInv, build # 0, UNCHANGED doitKeeps, pc' \in Pcs, outfile' \in Name,
         src' \in 1..(Len(c_as) + 1), nerrs' \in Nat, DOMAIN fs' \subseteq Name,
         outfile' = outfile \/ pc' \notin Early,
         pc \in Early \/ pc' \notin Early, pc' # "args", Stages'
  PROVE  PInv'
<1>1. UNCHANGED <<opts, argi, list, build, start>>
  BY DEF doitKeeps
<1>2. (ObjsSeen /\ LibsSeen /\ SourcesSeen)'
  BY <1>1, ListsKept DEF PInv
<1>3. TypeOK'
  BY <1>1 DEF PInv, TypeOK, opts, list
<1>4. OptionsSeen'
  BY <1>1 DEF PInv, OptionsSeen, opts, list, xref, Early, OutAsked
<1> QED BY <1>2, <1>3, <1>4 DEF PInv

\* the flags stay
LEMMA FlagsKept ==
  ASSUME UNCHANGED doitKeeps
  PROVE  /\ UNCHANGED <<keepi, keepp1, keepas, keep, optimize, asmlst, dryRun, genDeps, xref, stops, hex>>
         /\ UNCHANGED <<c_as, build, flags, xrname, argv, argi, objs, libs, nfiles, single, start>>
BY DEF doitKeeps, opts, list, keepi, keepp1, keepas, keep, optimize, asmlst, dryRun, genDeps, xref, stops, hex, Set

Stagings == {"cpp", "p1", "cgen", "optim", "zas", "asm"}

\* A stage goes on to the one that follows, or to the next source.
GoesOn == /\ pc' \in {"p1", "cgen", "optim", "zas"} /\ src' = src /\ s.ext = "c" /\ ~keepi
          /\ pc' # "p1" => ~keepp1
          /\ pc' = "optim" => optimize
          /\ pc' = "zas" => ~keepas
NextOne == pc' = "source" /\ src' = src + 1
Staged == /\ pc \in Stagings /\ nerrs' \in {nerrs, nerrs + 1} /\ DOMAIN fs' \subseteq Name
          /\ UNCHANGED <<opts, argi, list, outfile, build, start>>
          /\ GoesOn \/ NextOne

LEMMA StageInv == ASSUME PInv, Staged PROVE PInv' /\ UNCHANGED doitKeeps /\ build # 0
<1>1. UNCHANGED doitKeeps /\ UNCHANGED outfile
  BY DEF Staged, doitKeeps
<1>2. /\ UNCHANGED <<keepi, keepp1, keepas, keep, optimize, stops, hex>>
      /\ UNCHANGED <<c_as, build, argv, argi>>
  BY <1>1, FlagsKept
<1>3. build # 0 /\ src <= Len(c_as) /\ src \in Nat /\ argi = Len(argv) + 1 /\ Len(c_as) \in Nat /\ src >= 1
  BY DEF PInv, Stages, Staged, Stagings, TypeOK
<1>4. NextOne \/ (GoesOn /\ s' = s)
  BY <1>2 DEF Staged, GoesOn, s
<1>5. src' \in 1..(Len(c_as) + 1)
  BY <1>3, <1>4 DEF NextOne, GoesOn
<1>6. nerrs' \in Nat
  BY DEF PInv, TypeOK, Staged
<1>7. pc' \in Pcs \cap Early /\ pc \in Early /\ pc' # "args"
  BY <1>4 DEF Pcs, Early, Stagings, Staged, GoesOn, NextOne
<1>8. Stages'
  <2>1. CASE NextOne
    BY <1>2, <1>3, <2>1 DEF Stages, Late, NextOne
  <2>2. CASE GoesOn /\ s' = s
    BY <1>2, <1>3, <2>2 DEF Stages, Late, GoesOn
  <2> QED BY <1>4, <2>1, <2>2
<1>9. outfile' \in Name /\ DOMAIN fs' \subseteq Name
  BY <1>1 DEF PInv, TypeOK, Staged
<1> QED BY <1>1, <1>3, <1>5, <1>6, <1>7, <1>8, <1>9, DoitInv DEF Pcs

\* A source that a stage works on.
LEMMA SourceIs ==
  ASSUME PInv, src <= Len(c_as)
  PROVE  s \in Name /\ s \in Given /\ IsSource(s)
<1>1. src \in DOMAIN c_as /\ c_as \in Seq(Name)
  BY DEF PInv, TypeOK
<1>2. c_as[src] \in Name /\ c_as[src] \in Given /\ IsSource(c_as[src])
  BY <1>1 DEF PInv, SourcesSeen
<1> QED BY <1>2 DEF s

\* What each stage writes has a name.
LEMMA StageNames ==
  ASSUME PInv, s \in Name
  PROVE  /\ \A e \in {"i", "p1", "as", "obj"} : Here(s, e) \in Name /\ WithExt(s, e) \in Name
         /\ CgenOut \in Name /\ OptimOut \in Name /\ CppArgs[2] \in Name
         /\ DOMAIN fs \subseteq Name
<1>1. \A e \in {"i", "p1", "as", "obj"} : Here(s, e) \in Name /\ WithExt(s, e) \in Name
  <2>1. {"i", "p1", "as", "obj"} \subseteq STRING
    BY Literals
  <2> QED BY <2>1, NamesAreNames
<1>2. CgenOut \in Name /\ OptimOut \in Name
  BY <1>1, NamesAreNames DEF CgenOut, OptimOut
<1>3. CppArgs[2] \in Name
  <2>1. PICK o : o = IF genDeps THEN File(".deps", s.base, "d") ELSE IF keepi THEN WithExt(s, "i") ELSE tmpf1
    OBVIOUS
  <2>2. o \in Name
    <3>1. s.base \in STRING /\ {".deps", "d"} \subseteq STRING
      BY Literals DEF Name
    <3>2. File(".deps", s.base, "d") \in Name
      BY <3>1, NamesAreNames
    <3> QED BY <1>1, <2>1, <3>2, NamesAreNames
  <2>3. CppArgs = (IF genDeps THEN <<Last(libs)>> ELSE <<>>) \o <<s, o>>
    BY <2>1 DEF CppArgs
  <2>4. CppArgs[2] = IF genDeps THEN s ELSE o
    <3>1. PICK x, y : x = s /\ y = Last(libs)
      OBVIOUS
    <3>2. (<<y>> \o <<x, o>>)[2] = x /\ (<<>> \o <<x, o>>)[2] = o
      OBVIOUS
    <3> QED BY <2>3, <3>1, <3>2
  <2> QED BY <2>2, <2>4
<1> QED BY <1>1, <1>2, <1>3 DEF PInv, TypeOK

\* Each stage: what it has run, and where it goes on.
Counted(r) == nerrs' = (IF r.ok THEN nerrs ELSE nerrs + 1)
ListsStay  == UNCHANGED <<opts, argi, list, outfile, build, start>>
CppRan(r) ==
  /\ r \in Run(Exists(CppArgs[1]), CppArgs[2], Content(IF genDeps THEN "deps" ELSE "i", CppArgs[1]))
  /\ fs' = r.files /\ Counted(r) /\ ListsStay
  /\ \/ r.ok /\ ~keepi /\ pc' = "p1" /\ src' = src
     \/ (r.ok => keepi) /\ NextOne
Pass1Ran(r) ==
  /\ r \in Run(Holds(tmpf1, "i") /\ fs[tmpf1].of.ext = "c",
               IF keepp1 THEN Here(s, "p1") ELSE tmpf2, Content("p1", fs[tmpf1].of))
  /\ fs' = IF xref /\ ~dryRun /\ crtmp \in DOMAIN r.files
           THEN [r.files EXCEPT ![crtmp].of = Append(@, s)] ELSE r.files
  /\ Counted(r) /\ ListsStay
  /\ \/ r.ok /\ ~keepp1 /\ pc' = "cgen" /\ src' = src
     \/ (r.ok => keepp1) /\ NextOne
CgenRan(r) ==
  /\ r \in Run(Holds(tmpf2, "p1"), CgenOut, Content("as", fs[tmpf2].of))
  /\ fs' = r.files /\ Counted(r) /\ ListsStay
  /\ \/ r.ok /\ optimize /\ pc' = "optim" /\ src' = src
     \/ r.ok /\ ~optimize /\ ~keepas /\ pc' = "zas" /\ src' = src
     \/ (r.ok => keepas /\ ~optimize) /\ NextOne
OptimRan(r) ==
  /\ r \in Run(Holds(tmpf1, "as"), OptimOut, Content("opt", fs[tmpf1].of))
  /\ fs' = r.files /\ Counted(r) /\ ListsStay
  /\ \/ r.ok /\ ~keepas /\ pc' = "zas" /\ src' = src
     \/ (r.ok => keepas) /\ NextOne
ZasRan(r) ==
  /\ r \in Run(IsAsm(ZasIn), Here(s, "obj"), Assembled(ZasIn))
  /\ fs' = (IF asmlst THEN Rm(r.files, {ZasIn}) ELSE r.files)
  /\ Counted(r) /\ ListsStay /\ NextOne
AssembleRan(r) ==
  /\ r \in Run(IsAsm(s), Here(s, "obj"), Assembled(s))
  /\ fs' = r.files /\ Counted(r) /\ ListsStay /\ NextOne

LEMMA CppStep == ASSUME Cpp PROVE \E r : CppRan(r)
<1>1. PICK r \in Run(Exists(CppArgs[1]), CppArgs[2], Content(IF genDeps THEN "deps" ELSE "i", CppArgs[1])) :
        Stage(r, keepi, "p1")
  BY DEF Cpp
<1>2. CppRan(r)
  BY <1>1 DEF CppRan, Stage, Doexec, Counted, ListsStay, NextOne, NextSource
<1> QED BY <1>2

\* p1 adds to the cross reference data: crtmp only, and only if it is there
LEMMA Pass1Step == ASSUME Pass1 PROVE \E r : Pass1Ran(r)
<1> DEFINE crossed(files) ==
             IF xref /\ ~dryRun /\ crtmp \in DOMAIN files
             THEN [files EXCEPT ![crtmp].of = Append(@, s)] ELSE files
<1>1. PICK r \in Run(Holds(tmpf1, "i") /\ fs[tmpf1].of.ext = "c",
                     IF keepp1 THEN Here(s, "p1") ELSE tmpf2, Content("p1", fs[tmpf1].of)) :
        Stage([r EXCEPT !.files = crossed(@)], keepp1, "cgen")
  BY DEF Pass1
<1>2. r = [ok |-> r.ok, files |-> r.files]
  BY RunFacts
<1>3. PICK F : F = crossed(r.files)
  OBVIOUS
<1> HIDE DEF crossed
<1>4. [r EXCEPT !.files = crossed(r.files)] = [ok |-> r.ok, files |-> F]
  BY <1>2, <1>3
<1>50. PICK e : e = [ok |-> r.ok, files |-> F]
  OBVIOUS
<1>5. e = [ok |-> r.ok, files |-> F] /\ e.ok = r.ok /\ e.files = F
  BY <1>50
<1>6. Stage(e, keepp1, "cgen")
  BY <1>1, <1>4, <1>5
<1>7. fs' = F /\ Counted(r) /\ ListsStay /\ \/ r.ok /\ ~keepp1 /\ pc' = "cgen" /\ src' = src
                                            \/ (r.ok => keepp1) /\ NextOne
  BY <1>5, <1>6 DEF Stage, Doexec, Counted, ListsStay, NextOne, NextSource
<1>8. Pass1Ran(r)
  BY <1>1, <1>3, <1>7 DEF Pass1Ran, crossed
<1> QED BY <1>8

LEMMA CgenStep == ASSUME Cgen PROVE \E r : CgenRan(r)
<1>1. PICK r \in Run(Holds(tmpf2, "p1"), CgenOut, Content("as", fs[tmpf2].of)) :
        Stage(r, keepas /\ ~optimize, IF optimize THEN "optim" ELSE "zas")
  BY DEF Cgen
<1>2. CgenRan(r)
  BY <1>1 DEF CgenRan, Stage, Doexec, Counted, ListsStay, NextOne, NextSource
<1> QED BY <1>2

LEMMA OptimStep == ASSUME Optim PROVE \E r : OptimRan(r)
<1>1. PICK r \in Run(Holds(tmpf1, "as"), OptimOut, Content("opt", fs[tmpf1].of)) :
        Stage(r, keepas, "zas")
  BY DEF Optim
<1>2. OptimRan(r)
  BY <1>1 DEF OptimRan, Stage, Doexec, Counted, ListsStay, NextOne, NextSource
<1> QED BY <1>2

\* zas's input goes when there is a listing
LEMMA ZasStep == ASSUME Zas PROVE \E r : ZasRan(r)
<1>1. PICK r \in Run(IsAsm(ZasIn), Here(s, "obj"), Assembled(ZasIn)) :
        Stage([r EXCEPT !.files = IF asmlst THEN Rm(@, {ZasIn}) ELSE @], TRUE, "source")
  BY DEF Zas
<1>2. r = [ok |-> r.ok, files |-> r.files]
  BY RunFacts
<1>3. PICK F : F = IF asmlst THEN Rm(r.files, {ZasIn}) ELSE r.files
  OBVIOUS
<1>4. [r EXCEPT !.files = IF asmlst THEN Rm(@, {ZasIn}) ELSE @] = [ok |-> r.ok, files |-> F]
  BY <1>2, <1>3
<1>50. PICK e : e = [ok |-> r.ok, files |-> F]
  OBVIOUS
<1>5. e = [ok |-> r.ok, files |-> F] /\ e.ok = r.ok /\ e.files = F
  BY <1>50
<1>6. Stage(e, TRUE, "source")
  BY <1>1, <1>4, <1>5
<1>7. fs' = F /\ Counted(r) /\ ListsStay /\ NextOne
  BY <1>5, <1>6 DEF Stage, Doexec, Counted, ListsStay, NextOne, NextSource
<1>8. ZasRan(r)
  BY <1>1, <1>3, <1>7 DEF ZasRan
<1> QED BY <1>8

LEMMA AssembleStep == ASSUME Assemble PROVE \E r : AssembleRan(r)
<1>1. PICK r \in Run(IsAsm(s), Here(s, "obj"), Assembled(s)) : Stage(r, TRUE, "source")
  BY DEF Assemble
<1>2. AssembleRan(r)
  BY <1>1 DEF AssembleRan, Stage, Doexec, Counted, ListsStay, NextOne, NextSource
<1> QED BY <1>2

LEMMA CppInv == ASSUME PInv, NEW r, CppRan(r) , pc = "cpp" PROVE Staged
<1>1. src <= Len(c_as) /\ s.ext = "c"
  BY DEF PInv, Stages
<1>2. DOMAIN r.files \subseteq Name
  BY <1>1, SourceIs, StageNames, RunNames DEF CppRan
<1> QED BY <1>1, <1>2 DEF CppRan, Staged, Stagings, GoesOn, Counted, ListsStay

LEMMA Pass1Inv == ASSUME PInv, NEW r, Pass1Ran(r), pc = "p1" PROVE Staged
<1>1. src <= Len(c_as) /\ s.ext = "c" /\ ~keepi
  BY DEF PInv, Stages
<1>2. DOMAIN r.files \subseteq Name
  <2>1. PICK out : out = IF keepp1 THEN Here(s, "p1") ELSE tmpf2
    OBVIOUS
  <2>2. out \in Name
    BY <1>1, <2>1, SourceIs, StageNames, NamesAreNames
  <2> QED BY <1>1, <2>1, <2>2, SourceIs, StageNames, RunNames DEF Pass1Ran
<1>3. DOMAIN fs' \subseteq Name
  <2>1. DOMAIN fs' = DOMAIN r.files
    BY DEF Pass1Ran
  <2> QED BY <1>2, <2>1
<1> QED BY <1>1, <1>3 DEF Pass1Ran, Staged, Stagings, GoesOn, Counted, ListsStay

LEMMA CgenInv == ASSUME PInv, NEW r, CgenRan(r), pc = "cgen" PROVE Staged
<1>1. src <= Len(c_as) /\ s.ext = "c" /\ ~keepi /\ ~keepp1
  BY DEF PInv, Stages
<1>2. DOMAIN r.files \subseteq Name
  BY <1>1, SourceIs, StageNames, RunNames DEF CgenRan
<1> QED BY <1>1, <1>2 DEF CgenRan, Staged, Stagings, GoesOn, Counted, ListsStay

LEMMA OptimInv == ASSUME PInv, NEW r, OptimRan(r), pc = "optim" PROVE Staged
<1>1. src <= Len(c_as) /\ s.ext = "c" /\ ~keepi /\ ~keepp1
  BY DEF PInv, Stages
<1>2. DOMAIN r.files \subseteq Name
  BY <1>1, SourceIs, StageNames, RunNames DEF OptimRan
<1> QED BY <1>1, <1>2 DEF OptimRan, Staged, Stagings, GoesOn, Counted, ListsStay

LEMMA ZasInv == ASSUME PInv, NEW r, ZasRan(r), pc = "zas" PROVE Staged
<1>1. src <= Len(c_as)
  BY DEF PInv, Stages
<1>2. DOMAIN r.files \subseteq Name
  BY <1>1, SourceIs, StageNames, RunNames DEF ZasRan
<1>3. DOMAIN fs' \subseteq Name
  <2>1. DOMAIN Rm(r.files, {ZasIn}) \subseteq Name
    BY <1>2, RmNames
  <2> QED BY <1>2, <2>1 DEF ZasRan
<1> QED BY <1>3 DEF ZasRan, Staged, Stagings, Counted, ListsStay

LEMMA AssembleInv == ASSUME PInv, NEW r, AssembleRan(r), pc = "asm" PROVE Staged
<1>1. src <= Len(c_as)
  BY DEF PInv, Stages
<1>2. DOMAIN r.files \subseteq Name
  BY <1>1, SourceIs, StageNames, RunNames DEF AssembleRan
<1> QED BY <1>2 DEF AssembleRan, Staged, Stagings, Counted, ListsStay

LEMMA DispatchInv == PInv /\ Dispatch => PInv' /\ UNCHANGED doitKeeps /\ build # 0
<1> SUFFICES ASSUME PInv, Dispatch PROVE PInv' /\ UNCHANGED doitKeeps /\ build # 0
  OBVIOUS
<1>1. pc = "source" /\ src <= Len(c_as) /\ UNCHANGED <<doitKeeps, outfile, nerrs, fs>>
  BY DEF Dispatch, doitKeeps
<1>2. UNCHANGED <<keepi, keepp1, keepas, keep, optimize, stops, hex>> /\ UNCHANGED <<c_as, build, argv, argi>>
  BY <1>1, FlagsKept
<1>3. build # 0 /\ src \in Nat /\ argi = Len(argv) + 1 /\ Len(c_as) \in Nat /\ src >= 1
  BY <1>1 DEF PInv, Stages, TypeOK
<1>4. \/ s.ext = "c" /\ pc' = "cpp" /\ src' = src
      \/ s.ext # "c" /\ stops /\ src' = src + 1 /\ pc' = "source"
      \/ s.ext # "c" /\ ~stops /\ src' = src /\ pc' = "asm"
  BY <1>1 DEF Dispatch, NextSource, stops
<1>5. s.ext \in {"c", "as"}
  BY <1>1, SourceIs DEF IsSource
<1>6. src' \in 1..(Len(c_as) + 1)
  BY <1>1, <1>3, <1>4
<1>7. Stages'
  <2>1. CASE s.ext = "c" /\ pc' = "cpp" /\ src' = src
    <3>1. s' = s
      BY <1>2, <2>1 DEF s
    <3> QED BY <1>1, <1>2, <1>3, <2>1, <3>1 DEF Stages, Late
  <2>2. CASE src' = src + 1 /\ pc' = "source"
    BY <1>1, <1>2, <1>3, <2>2 DEF Stages, Late
  <2>3. CASE s.ext # "c" /\ ~stops /\ src' = src /\ pc' = "asm"
    <3>1. s' = s
      BY <1>2, <2>3 DEF s
    <3> QED BY <1>1, <1>2, <1>3, <1>5, <2>3, <3>1 DEF Stages, Late
  <2> QED BY <1>4, <2>1, <2>2, <2>3
<1>8. outfile' \in Name /\ DOMAIN fs' \subseteq Name /\ nerrs' \in Nat
  BY <1>1 DEF PInv, TypeOK
<1> QED BY <1>1, <1>3, <1>4, <1>6, <1>7, <1>8, DoitInv DEF Pcs, Early

LEMMA CleanupInv == PInv /\ Cleanup => PInv' /\ UNCHANGED doitKeeps /\ build # 0
<1> SUFFICES ASSUME PInv, Cleanup PROVE PInv' /\ UNCHANGED doitKeeps /\ build # 0
  OBVIOUS
<1>1. pc = "source" /\ src > Len(c_as) /\ UNCHANGED <<doitKeeps, outfile, nerrs, src>>
  BY DEF Cleanup, doitKeeps
<1>2. UNCHANGED <<keepi, keepp1, keepas, keep, optimize, stops, hex>> /\ UNCHANGED <<c_as, build, argv, argi>>
  BY <1>1, FlagsKept
<1>3. build # 0 /\ src = Len(c_as) + 1 /\ argi = Len(argv) + 1 /\ Len(c_as) \in Nat
  BY <1>1 DEF PInv, Stages, TypeOK
<1>4. pc' = IF stops THEN "exit" ELSE IF keep \/ nerrs # 0 THEN "xref" ELSE "link"
  BY <1>1 DEF Cleanup, stops
<1>5. DOMAIN fs' \subseteq Name
  <2>1. fs' = Rm(fs, {tmpf1, tmpf2, tmpf3}) /\ DOMAIN fs \subseteq Name
    BY <1>1 DEF Cleanup, PInv, TypeOK
  <2> QED BY <2>1, RmNames
<1>6. Stages'
  BY <1>1, <1>2, <1>3, <1>4 DEF Stages, Late
<1>7. outfile' \in Name /\ nerrs' \in Nat /\ src' \in 1..(Len(c_as) + 1)
  <2>1. src' = src /\ outfile' = outfile /\ nerrs' = nerrs /\ src \in 1..(Len(c_as) + 1)
    BY <1>1 DEF PInv, TypeOK
  <2> QED BY <2>1 DEF PInv, TypeOK
<1> QED BY <1>1, <1>3, <1>4, <1>5, <1>6, <1>7, DoitInv DEF Pcs, Early

\* What the program is called.
LEMMA OutputNamed == ASSUME PInv, build # 0 PROVE Output \in Name /\ LinkOutput \in Name
<1>1. build \in 1..9 /\ outfile \in Name /\ objs \in Seq(Name)
  BY NamesAreNames DEF PInv, TypeOK
<1>2. PICK b \in 1..9 : b = build
  BY <1>1
<1>3. PICK t : t = targets[b]
  OBVIOUS
<1>4. t.ext \in STRING /\ "" \in STRING
  BY <1>3, NamesAreNames, Literals
<1>5. File("", "", t.ext) \in Name
  BY <1>4, NamesAreNames
<1>6. objs # <<>> /\ Len(objs) # 1 => WithExt(objs[2], t.ext) \in Name
  <2>1. ASSUME objs # <<>>, Len(objs) # 1 PROVE objs[2] \in Name
    <3>1. Len(objs) \in Nat /\ Len(objs) # 0
      BY <1>1, <2>1
    <3>2. PICK n \in Nat : n = Len(objs)
      BY <3>1
    <3>3. 2 \in 1..n
      BY <2>1, <3>1, <3>2
    <3>4. \A i \in 1..Len(objs) : objs[i] \in Name
      BY <1>1
    <3> QED BY <3>2, <3>3, <3>4
  <2> QED BY <2>1, <1>4, NamesAreNames
<1>7. objs # <<>>
  BY DEF PInv, TypeOK
<1>8. Output \in Name
  BY <1>1, <1>2, <1>3, <1>5, <1>6, <1>7 DEF Output
<1> QED BY <1>8, NamesAreNames DEF LinkOutput

LEMMA LinkInv == PInv /\ Link => PInv' /\ UNCHANGED doitKeeps /\ build # 0
<1> SUFFICES ASSUME PInv, Link PROVE PInv' /\ UNCHANGED doitKeeps /\ build # 0
  OBVIOUS
<1>1. pc = "link" /\ outfile' = Output /\ UNCHANGED doitKeeps /\ src' = src
  BY DEF Link, doitKeeps
<1>2. UNCHANGED <<keepi, keepp1, keepas, keep, optimize, stops, hex>> /\ UNCHANGED <<c_as, build, argv, argi>>
  BY <1>1, FlagsKept
<1>3. build # 0 /\ src = Len(c_as) + 1 /\ argi = Len(argv) + 1 /\ ~stops /\ ~keep
  BY <1>1 DEF PInv, Stages, Late
<1>4. PICK r \in Run(Linkable, LinkOutput, Linked) :
       /\ fs' = r.files
       /\ nerrs' = IF r.ok THEN nerrs ELSE nerrs + 1
       /\ pc' = IF r.ok /\ hex THEN "objtohex" ELSE "single"
  BY DEF Link
<1>5. DOMAIN fs' \subseteq Name
  <2>1. DOMAIN fs \subseteq Name
    BY DEF PInv, TypeOK
  <2> QED BY <1>3, <1>4, <2>1, OutputNamed, RunNames
<1>6. (pc' = "objtohex" /\ hex) \/ pc' = "single"
  BY <1>4
<1>7. Stages'
  BY <1>1, <1>2, <1>3, <1>6 DEF Stages, Late
<1>8. outfile' \in Name /\ nerrs' \in Nat /\ src' \in 1..(Len(c_as) + 1)
  <2>1. nerrs \in Nat /\ src \in 1..(Len(c_as) + 1)
    BY DEF PInv, TypeOK
  <2> QED BY <1>1, <1>3, <1>4, <2>1, OutputNamed
<1> QED BY <1>1, <1>3, <1>5, <1>6, <1>7, <1>8, DoitInv DEF Pcs, Early

LEMMA ObjtoHexInv == PInv /\ ObjtoHex => PInv' /\ UNCHANGED doitKeeps /\ build # 0
<1> SUFFICES ASSUME PInv, ObjtoHex PROVE PInv' /\ UNCHANGED doitKeeps /\ build # 0
  OBVIOUS
<1>1. PICK r \in Run(Holds(l_dot_obj, "rel"), outfile, [fs[l_dot_obj] EXCEPT !.kind = "com"]) :
       /\ fs' = Rm(r.files, {l_dot_obj})
       /\ Doexec(r, "single")
  BY DEF ObjtoHex
<1>2. /\ pc = "objtohex" /\ UNCHANGED <<doitKeeps, outfile, src>> /\ pc' = "single"
      /\ nerrs' \in {nerrs, nerrs + 1}
  BY <1>1 DEF ObjtoHex, Doexec, doitKeeps
<1>3. UNCHANGED <<keepi, keepp1, keepas, keep, optimize, stops, hex>> /\ UNCHANGED <<c_as, build, argv, argi>>
  BY <1>2, FlagsKept
<1>4. build # 0 /\ src = Len(c_as) + 1 /\ argi = Len(argv) + 1 /\ ~stops /\ ~keep
  BY <1>2 DEF PInv, Stages, Late
<1>5. DOMAIN fs' \subseteq Name
  <2>1. DOMAIN fs \subseteq Name /\ outfile \in Name
    BY DEF PInv, TypeOK
  <2>2. DOMAIN r.files \subseteq Name
    BY <2>1, RunNames
  <2> QED BY <1>1, <2>2, RmNames
<1>6. Stages'
  BY <1>2, <1>3, <1>4 DEF Stages, Late
<1>7. outfile' \in Name /\ nerrs' \in Nat /\ src' \in 1..(Len(c_as) + 1)
  BY <1>2 DEF PInv, TypeOK
<1> QED BY <1>2, <1>4, <1>5, <1>6, <1>7, DoitInv DEF Pcs, Early

LEMMA RemoveSingleInv == PInv /\ RemoveSingle => PInv' /\ UNCHANGED doitKeeps /\ build # 0
<1> SUFFICES ASSUME PInv, RemoveSingle PROVE PInv' /\ UNCHANGED doitKeeps /\ build # 0
  OBVIOUS
<1>2. /\ pc = "single" /\ UNCHANGED <<doitKeeps, outfile, src, nerrs>> /\ pc' = "xref"
      /\ fs' = fs \/ fs' = Rm(fs, {single})
  BY DEF RemoveSingle, doitKeeps
<1>3. UNCHANGED <<keepi, keepp1, keepas, keep, optimize, stops, hex>> /\ UNCHANGED <<c_as, build, argv, argi>>
  BY <1>2, FlagsKept
<1>4. build # 0 /\ src = Len(c_as) + 1 /\ argi = Len(argv) + 1 /\ ~stops /\ ~keep
  BY <1>2 DEF PInv, Stages, Late
<1>5. DOMAIN fs' \subseteq Name
  BY <1>2, RmNames DEF PInv, TypeOK
<1>6. Stages'
  BY <1>2, <1>3, <1>4 DEF Stages, Late
<1>7. outfile' \in Name /\ nerrs' \in Nat /\ src' \in 1..(Len(c_as) + 1)
  BY <1>2 DEF PInv, TypeOK
<1> QED BY <1>2, <1>4, <1>5, <1>6, <1>7, DoitInv DEF Pcs, Early

\* cref's step
CrefRan(r) ==
  /\ r \in Run(Holds(crtmp, "crf"), Listing, Content("listing", fs[crtmp].of))
  /\ fs' = Rm(r.files, {crtmp}) /\ Counted(r)
LEMMA CrefStep ==
  ASSUME Cref
  PROVE  /\ pc = "xref" /\ pc' = "exit" /\ UNCHANGED <<doitKeeps, outfile, src>>
         /\ \/ xref /\ xrname # "" /\ \E r : CrefRan(r)
            \/ ~(xref /\ xrname # "") /\ UNCHANGED <<fs, nerrs>>
<1>1. CASE xref /\ xrname # ""
  <2>1. PICK r \in Run(Holds(crtmp, "crf"), Listing, Content("listing", fs[crtmp].of)) :
            /\ fs' = Rm(r.files, {crtmp})
            /\ Doexec(r, "exit")
    BY <1>1 DEF Cref
  <2>2. CrefRan(r) /\ pc' = "exit"
    BY <2>1 DEF CrefRan, Doexec, Counted
  <2> QED BY <1>1, <2>1, <2>2 DEF Cref, Doexec, doitKeeps
<1>2. CASE ~(xref /\ xrname # "")
  BY <1>2 DEF Cref, doitKeeps
<1> QED BY <1>1, <1>2

LEMMA CrefInv == PInv /\ Cref => PInv' /\ UNCHANGED doitKeeps /\ build # 0
<1> SUFFICES ASSUME PInv, Cref PROVE PInv' /\ UNCHANGED doitKeeps /\ build # 0
  OBVIOUS
<1>1. /\ pc = "xref" /\ pc' = "exit" /\ UNCHANGED <<doitKeeps, outfile, src>>
      /\ \/ xref /\ xrname # "" /\ \E r : CrefRan(r)
         \/ ~(xref /\ xrname # "") /\ UNCHANGED <<fs, nerrs>>
  BY CrefStep
<1>2. UNCHANGED <<keepi, keepp1, keepas, keep, optimize, stops, hex>> /\ UNCHANGED <<c_as, build, argv, argi>>
  BY <1>1, FlagsKept
<1>3. build # 0 /\ src = Len(c_as) + 1 /\ argi = Len(argv) + 1 /\ ~stops
  BY <1>1 DEF PInv, Stages, Late
<1>4. DOMAIN fs \subseteq Name /\ nerrs \in Nat /\ Listing \in Name
  <2>1. xrname \in STRING /\ "" \in STRING
    BY Literals DEF PInv, TypeOK
  <2>2. Listing \in Name
    BY <2>1, NamesAreNames DEF Listing
  <2> QED BY <2>2 DEF PInv, TypeOK
<1>5. DOMAIN fs' \subseteq Name /\ nerrs' \in Nat
  <2>1. CASE \E r : CrefRan(r)
    <3>1. PICK r : CrefRan(r)
      BY <2>1
    <3>2. DOMAIN r.files \subseteq Name
      BY <1>4, <3>1, RunNames DEF CrefRan
    <3> QED BY <1>4, <3>1, <3>2, RmNames DEF CrefRan, Counted
  <2> QED BY <1>1, <1>4, <2>1
<1>6. Stages'
  BY <1>1, <1>2, <1>3 DEF Stages, Late
<1>7. outfile' \in Name /\ src' \in 1..(Len(c_as) + 1)
  BY <1>1 DEF PInv, TypeOK
<1> QED BY <1>1, <1>3, <1>5, <1>6, <1>7, DoitInv DEF Pcs, Early

LEMMA StutterInv == ASSUME PInv, UNCHANGED vars PROVE PInv'
<1>1. (ObjsSeen /\ LibsSeen /\ SourcesSeen)'
  BY ListsKept DEF PInv, vars
<1>2. TypeOK'
  BY DEF PInv, TypeOK, vars, opts, list
<1>3. UNCHANGED <<keepi, keepp1, keepas, keep, optimize, stops, hex, xref>> /\ UNCHANGED <<c_as, build, argv, argi, src>>
  BY FlagsKept DEF doitKeeps, vars
<1>4. OptionsSeen'
  BY <1>3 DEF PInv, OptionsSeen, vars, opts, list, OutAsked
<1>5. Stages'
  <2>1. s' = s /\ pc' = pc /\ fs' = fs /\ start' = start /\ nerrs' = nerrs
    BY <1>3 DEF s, vars
  <2> QED BY <1>3, <2>1 DEF PInv, Stages
<1> QED BY <1>1, <1>2, <1>4, <1>5 DEF PInv

\* Every step of main and doit keeps the invariant.
LEMMA NextInv == PInv /\ [Next]_vars => PInv'
<1> SUFFICES ASSUME PInv, [Next]_vars PROVE PInv'
  OBVIOUS
<1>1. CASE Option
  BY <1>1, OptionInv
<1>2. CASE FirstOption
  BY <1>2, FirstOptionInv
<1>3. CASE LibOption
  BY <1>3, LibOptionInv
<1>4. CASE FileArg
  BY <1>4, FileArgInv
<1>5. CASE Help
  BY <1>5, QuitInv DEF Help, Arguing
<1>6. CASE SetTarget
  BY <1>6, SetTargetInv
<1>7. CASE Dispatch
  BY <1>7, DispatchInv
<1>8. CASE Cpp
  <2>1. PICK r : CppRan(r)
    BY <1>8, CppStep
  <2> QED BY <1>8, <2>1, CppInv, StageInv DEF Cpp
<1>9. CASE Pass1
  <2>1. PICK r : Pass1Ran(r)
    BY <1>9, Pass1Step
  <2>2. pc = "p1"
    BY <1>9 DEF Pass1
  <2> QED BY <2>1, <2>2, Pass1Inv, StageInv
<1>10. CASE Cgen
  <2>1. PICK r : CgenRan(r)
    BY <1>10, CgenStep
  <2> QED BY <1>10, <2>1, CgenInv, StageInv DEF Cgen
<1>11. CASE Optim
  <2>1. PICK r : OptimRan(r)
    BY <1>11, OptimStep
  <2> QED BY <1>11, <2>1, OptimInv, StageInv DEF Optim
<1>12. CASE Zas
  <2>1. PICK r : ZasRan(r)
    BY <1>12, ZasStep
  <2> QED BY <1>12, <2>1, ZasInv, StageInv DEF Zas
<1>13. CASE Assemble
  <2>1. PICK r : AssembleRan(r)
    BY <1>13, AssembleStep
  <2> QED BY <1>13, <2>1, AssembleInv, StageInv DEF Assemble
<1>14. CASE Cleanup
  BY <1>14, CleanupInv
<1>15. CASE Link
  BY <1>15, LinkInv
<1>16. CASE ObjtoHex
  BY <1>16, ObjtoHexInv
<1>17. CASE RemoveSingle
  BY <1>17, RemoveSingleInv
<1>18. CASE Cref
  BY <1>18, CrefInv
<1>19. CASE UNCHANGED vars
  BY <1>19, StutterInv
<1> QED BY <1>1, <1>2, <1>3, <1>4, <1>5, <1>6, <1>7, <1>8, <1>9, <1>10, <1>11, <1>12, <1>13, <1>14,
           <1>15, <1>16, <1>17, <1>18, <1>19 DEF Next, Step, Compile, Exited

THEOREM OptionsAlways == Spec => []PInv
<1>1. Init => PInv
  BY InitInv
<1>2. PInv /\ [Next]_vars => PInv'
  BY NextInv
<1> QED BY <1>1, <1>2, PTL DEF Spec

\* Whatever the command line and the disk: the lists of objects, libraries and sources hold
\* names, the sources are worked off one after the other to the end of the list, and no step
\* leaves the entries of targets (main, setTarget, doit).
THEOREM DriverTyped == Spec => []TypeOK
<1>1. PInv => TypeOK
  BY DEF PInv
<1> QED BY <1>1, OptionsAlways, PTL

-----------------------------------------------------------------------------
(* The names of the files *)

Temps == {tmpf1, tmpf2, tmpf3, crtmp}

\* what the stages write for a source with these options
Writes(g) == {Here(g, "obj")}
               \cup (IF g.ext = "c" THEN {Kept(g).name} \cup (IF asmlst THEN {Here(g, "as")} ELSE {})
                                    ELSE {})

LEMMA TmpsApart ==
  /\ tmpf1.dir = "tmp" /\ tmpf2.dir = "tmp" /\ tmpf3.dir = "tmp" /\ l_dot_obj.dir = "tmp" /\ crtmp.dir = "tmp"
  /\ tmpf1 # tmpf2 /\ crtmp \notin {tmpf1, tmpf2, tmpf3} /\ l_dot_obj \notin Temps
<1>1. \A e : Tmp(e).dir = "tmp" /\ Tmp(e).ext = e
  BY DEF Tmp, File
<1>2. tmpf1 = Tmp("ct1") /\ tmpf2 = Tmp("ct2") /\ tmpf3 = Tmp("ct3") /\ l_dot_obj = Tmp("obj") /\ crtmp = Tmp("xin")
  BY DEF tmpf1, tmpf2, tmpf3, l_dot_obj, crtmp
<1>3. tmpf1.ext = "ct1" /\ tmpf2.ext = "ct2" /\ tmpf3.ext = "ct3" /\ l_dot_obj.ext = "obj" /\ crtmp.ext = "xin"
  BY <1>1, <1>2
<1> QED BY <1>1, <1>2, <1>3 DEF Temps

\* a name's parts
LEMMA NameParts ==
  /\ \A f, e : Here(f, e) = [dir |-> "", base |-> f.base, ext |-> e]
  /\ \A f \in Name : \A e : WithExt(f, e) = [dir |-> f.dir, base |-> f.base, ext |-> e]
  /\ \A f, e : Here(f, e).dir = "" /\ Here(f, e).base = f.base /\ Here(f, e).ext = e
  /\ \A f \in Name : \A e : /\ WithExt(f, e).dir = f.dir /\ WithExt(f, e).base = f.base
                            /\ WithExt(f, e).ext = e
<1>1. \A f, e : Here(f, e) = [dir |-> "", base |-> f.base, ext |-> e]
  BY DEF Here, File
<1>2. \A f \in Name : \A e : WithExt(f, e) = [dir |-> f.dir, base |-> f.base, ext |-> e]
  BY DEF WithExt, Name
<1>3. \A d, b, e : LET n == [dir |-> d, base |-> b, ext |-> e] IN n.dir = d /\ n.base = b /\ n.ext = e
  OBVIOUS
<1>4. \A f, e : Here(f, e).dir = "" /\ Here(f, e).base = f.base /\ Here(f, e).ext = e
  BY <1>1, <1>3
<1>5. \A f \in Name : \A e : /\ WithExt(f, e).dir = f.dir /\ WithExt(f, e).base = f.base
                             /\ WithExt(f, e).ext = e
  BY <1>2, <1>3
<1> QED BY <1>1, <1>2, <1>4, <1>5

\* what is made for a source has its base and is no temporary file
LEMMA MadeParts ==
  ASSUME NEW g \in Name, g.dir # "tmp", NEW f \in MadeFor(g)
  PROVE  f.base = g.base /\ f.dir # "tmp" /\ f.ext \in {"obj", "i", "p1", "as"}
<1>1. f \in {Here(g, "obj"), WithExt(g, "i"), Here(g, "p1"), Here(g, "as")}
  BY DEF MadeFor
<1>2. /\ \A e : Here(g, e).dir = "" /\ Here(g, e).base = g.base /\ Here(g, e).ext = e
      /\ \A e : WithExt(g, e).dir = g.dir /\ WithExt(g, e).base = g.base /\ WithExt(g, e).ext = e
  BY NameParts
<1>3. f = WithExt(g, "i") \/ \E e \in {"obj", "p1", "as"} : f = Here(g, e)
  BY <1>1
<1> QED BY <1>2, <1>3

LEMMA WritesMade == ASSUME NEW g PROVE Writes(g) \subseteq MadeFor(g) /\ Result(g).name \in MadeFor(g)
<1>1. Kept(g).name \in {WithExt(g, "i"), Here(g, "p1"), Here(g, "as"), Here(g, "obj")}
  BY DEF Kept
<1> QED BY <1>1 DEF Writes, MadeFor, Result

\* two sources that make a file of the same base are the same
LEMMA SameBase ==
  ASSUME Fit, NEW f \in Given, NEW g \in Given, IsSource(f), IsSource(g), f.base = g.base
  PROVE  f = g
<1>1. Here(f, "obj") = Here(g, "obj")
  BY NameParts
<1> QED BY <1>1 DEF Fit, NamesApart

\* a source that is worked on, and what is made of it
LEMMA SourceFits ==
  ASSUME PInv, Fit, NEW k \in DOMAIN c_as
  PROVE  /\ c_as[k] \in Name /\ c_as[k] \in Given /\ IsSource(c_as[k]) /\ c_as[k].dir # "tmp"
         /\ \A f \in MadeFor(c_as[k]) : f \notin Given \cup OutAsked /\ f.dir # "tmp"
                                        /\ f.base = c_as[k].base /\ f.ext \in {"obj", "i", "p1", "as"}
         /\ c_as[k] \notin Outputs
<1>1. c_as[k] \in Name
  BY DEF PInv, TypeOK
<1>2. \A j \in DOMAIN c_as : c_as[j] \in Given /\ IsSource(c_as[j])
  BY DEF PInv, SourcesSeen
<1>3. c_as[k].dir # "tmp"
  BY <1>2 DEF Fit, NamesApart
<1>4. \A j \in DOMAIN c_as : MadeFor(c_as[j]) \cap (Given \cup OutAsked) = {}
  BY <1>2 DEF Fit, NamesApart
<1>5. \A f \in MadeFor(c_as[k]) : f.dir # "tmp" /\ f.base = c_as[k].base /\ f.ext \in {"obj", "i", "p1", "as"}
  BY <1>1, <1>3, MadeParts
<1>6. c_as[k] \notin Outputs
  BY <1>2, <1>4 DEF Outputs
<1> QED BY <1>1, <1>2, <1>3, <1>4, <1>5, <1>6

\* what depends on the options and lists only
LEMMA DerivedKept ==
  ASSUME UNCHANGED doitKeeps
  PROVE  /\ (Fit' <=> Fit) /\ Outputs' = Outputs /\ CSources' = CSources /\ Sources' = Sources
         /\ UserLibs' = UserLibs /\ Listing' = Listing
         /\ \A f : Result(f)' = Result(f) /\ Kept(f)' = Kept(f) /\ Made(f)' = Made(f) /\ Writes(f)' = Writes(f)
<1>1. UNCHANGED <<keepi, keepp1, keepas, keep, optimize, asmlst, genDeps>> /\ UNCHANGED <<c_as, argv, start, xrname>>
  BY FlagsKept
<1>2. \A f : Kept(f)' = Kept(f) /\ Made(f)' = Made(f)
  BY <1>1 DEF Kept, Made
<1>3. \A f : Result(f)' = Result(f) /\ Writes(f)' = Writes(f)
  BY <1>1, <1>2 DEF Result, Writes
<1>4. Outputs' = Outputs /\ CSources' = CSources /\ Sources' = Sources /\ UserLibs' = UserLibs /\ Listing' = Listing
  BY <1>1 DEF Outputs, CSources, Sources, UserLibs, Listing
<1>5. (NamesApart' <=> NamesApart) /\ (DiskFits' <=> DiskFits) /\ (OptionsFit' <=> OptionsFit)
  BY <1>1 DEF NamesApart, DiskFits, OptionsFit, Given, OutAsked
<1> QED BY <1>2, <1>3, <1>4, <1>5 DEF Fit

-----------------------------------------------------------------------------
(* The files: the stages *)

\* Nothing has changed but what is in W.
Wrote(W) == /\ \A f : f \notin W => (f \in DOMAIN fs' <=> f \in DOMAIN fs)
            /\ \A f \in DOMAIN fs : f \notin W => fs'[f] = fs[f]

\* A step of doit's loop over the sources which writes W at most, for the source g.
LoopStep(W, g) ==
  /\ pc \in Early \ {"link"} /\ pc' \in Early \ {"link"} /\ src \in DOMAIN c_as /\ g = c_as[src]
  /\ UNCHANGED doitKeeps /\ outfile' = outfile /\ build # 0
  /\ src' = src \/ src' = src + 1
  /\ nerrs' = 0 => nerrs = 0
  /\ Wrote(W) /\ W \subseteq Temps \cup Writes(g)
  /\ \A f \in W : f \in DOMAIN fs' => \/ f \in DOMAIN fs /\ fs'[f] = fs[f]
                                      \/ fs'[f].kind # "com"

LEMMA LoopKeeps ==
  ASSUME PInv, Fit, FilesRight, NEW W, NEW g, LoopStep(W, g)
  PROVE  (OthersKept /\ NoNewProgram /\ LinkedFromSources /\ InputsKept /\ OutNamed /\ LinkedThere
          /\ ListingThere /\ TempsThere)'
<1>1. /\ pc \in Early /\ pc' \in Early /\ pc' # "link" /\ UNCHANGED doitKeeps /\ UNCHANGED outfile /\ build # 0
      /\ UNCHANGED <<start, c_as, asmlst, xref>>
  BY FlagsKept DEF LoopStep
<1>2. \A f \in W : (f.dir = "tmp" /\ f \in Temps) \/ (f \in Writes(g) /\ f \in Outputs /\ f.dir # "tmp")
  <2>1. g = c_as[src] /\ src \in DOMAIN c_as /\ W \subseteq Temps \cup Writes(g)
    BY DEF LoopStep
  <2>2. \A f \in Writes(g) : f \in Outputs /\ f.dir # "tmp"
    BY <2>1, SourceFits, WritesMade DEF Outputs
  <2> QED BY <2>1, <2>2, TmpsApart DEF Temps
<1>3. Wrote(W) /\ \A f \in W : f \in DOMAIN fs' => (f \in DOMAIN fs /\ fs'[f] = fs[f]) \/ fs'[f].kind # "com"
  BY DEF LoopStep
<1>4. OthersKept'
  <2>1. Outputs' = Outputs
    BY <1>1, DerivedKept
  <2>2. ASSUME NEW f \in DOMAIN fs' \cup DOMAIN start, f.dir # "tmp", f \notin Outputs
        PROVE  f \in DOMAIN fs' /\ f \in DOMAIN start /\ fs'[f] = start[f]
    <3>1. f \notin W
      BY <1>2, <2>2
    <3>2. f \in DOMAIN fs /\ f \in DOMAIN start /\ fs[f] = start[f]
      BY <1>1, <1>3, <2>2, <3>1 DEF FilesRight, OthersKept, Wrote
    <3> QED BY <1>3, <3>1, <3>2 DEF Wrote
  <2> QED BY <1>1, <2>1, <2>2 DEF OthersKept
<1>5. NoNewProgram'
  <2>1. ASSUME NEW f \in DOMAIN fs', fs'[f].kind = "com" PROVE f \in DOMAIN start /\ fs'[f] = start[f]
    <3>1. f \in DOMAIN fs /\ fs'[f] = fs[f]
      BY <1>3, <2>1 DEF Wrote
    <3> QED BY <1>1, <2>1, <3>1 DEF FilesRight, NoNewProgram
  <2> QED BY <1>1, <2>1 DEF NoNewProgram
<1>6. LinkedFromSources'
  BY <1>1, <1>5 DEF NoNewProgram, LinkedFromSources
<1>7. InputsKept'
  <2>1. CSources' = CSources /\ Listing' = Listing /\ \A f : Kept(f)' = Kept(f)
    BY <1>1, DerivedKept
  <2>2. ASSUME NEW f \in DOMAIN start
        PROVE  \/ f \in DOMAIN fs' /\ fs'[f] = start[f]
               \/ f \in {Here(c_as[i], "obj") : i \in DOMAIN c_as} \cup {outfile}
               \/ f \in {Kept(CSources[i]).name : i \in DOMAIN CSources}
               \/ asmlst /\ f \in {Here(CSources[i], "as") : i \in DOMAIN CSources}
               \/ xref /\ f = Listing
    <3>1. CASE f \notin W
      <4>1. \/ f \in DOMAIN fs /\ fs[f] = start[f]
            \/ f \in {Here(c_as[i], "obj") : i \in DOMAIN c_as} \cup {outfile}
            \/ f \in {Kept(CSources[i]).name : i \in DOMAIN CSources}
            \/ asmlst /\ f \in {Here(CSources[i], "as") : i \in DOMAIN CSources}
            \/ xref /\ f = Listing
        BY <2>2 DEF FilesRight, InputsKept, Exists
      <4> QED BY <1>3, <3>1, <4>1 DEF Wrote
    <3>2. CASE f \in W
      <4>1. f.dir # "tmp"
        BY DEF Fit, DiskFits
      <4>2. f \in Writes(g) /\ g = c_as[src] /\ src \in DOMAIN c_as
        BY <1>2, <3>2, <4>1 DEF LoopStep
      <4>3. f = Here(g, "obj") \/ (g.ext = "c" /\ f = Kept(g).name) \/ (g.ext = "c" /\ asmlst /\ f = Here(g, "as"))
        BY <4>2 DEF Writes
      <4>4. g.ext = "c" => \E i \in DOMAIN CSources : CSources[i] = g
        <5>1. c_as \in Seq(Name) /\ g \in Name
          BY <4>2 DEF PInv, TypeOK
        <5>2. g.ext = "c" => g \in CFiles
          BY <5>1 DEF Name, CFiles
        <5>0. PICK q \in Seq(Name) : q = c_as
          BY <5>1
        <5>3. PICK i \in DOMAIN q : q = c_as /\ q[i] = g
          BY <4>2, <5>0
        <5>4. g \in CFiles => \E k \in DOMAIN Those(q, CFiles) : Those(q, CFiles)[k] = g
          BY <5>3, ThoseAll
        <5> QED BY <5>2, <5>3, <5>4 DEF CSources, CFiles
      <4> QED BY <4>2, <4>3, <4>4
    <3> QED BY <3>1, <3>2
  <2> QED BY <1>1, <2>1, <2>2 DEF InputsKept, Exists
<1>8. OutNamed' /\ LinkedThere' /\ ListingThere'
  BY <1>1 DEF OutNamed, LinkedThere, ListingThere, Early
<1>9. TempsThere'
  <2>1. l_dot_obj \notin W
    BY <1>2, TmpsApart
  <2>2. l_dot_obj \notin DOMAIN fs'
    BY <1>1, <1>3, <2>1 DEF FilesRight, TempsThere, Wrote, Exists
  <2> QED BY <1>1, <2>2 DEF TempsThere, Early, Late, Exists
<1> QED BY <1>4, <1>5, <1>6, <1>7, <1>8, <1>9

\* What earlier sources have become stays: another source's files have other names.
LEMMA ResultsKept ==
  ASSUME PInv, Fit, FilesRight, NEW W, NEW g, LoopStep(W, g),
         Result(g).name \in W /\ nerrs' = 0 /\ ~dryRun => HasResult(g)',
         src' = src + 1 /\ nerrs' = 0 /\ ~dryRun /\ (g.ext = "c" \/ ~stops) => HasResult(g)'
  PROVE  ResultsThere'
<1>1. /\ pc \in Early /\ pc' \in Early /\ UNCHANGED doitKeeps /\ build # 0
      /\ UNCHANGED <<start, c_as, stops, dryRun>> /\ src \in DOMAIN c_as /\ g = c_as[src]
  BY FlagsKept DEF LoopStep
<1>2. SUFFICES ASSUME nerrs' = 0, ~dryRun, NEW k \in DOMAIN c_as, k < src', c_as[k].ext = "c" \/ ~stops,
                      NEW h, h = c_as[k]
               PROVE  HasResult(h)'
  BY <1>1 DEF ResultsThere, HasResult, Exists, Result, Kept
<1>3. src \in Nat /\ k \in Nat /\ (src' = src \/ src' = src + 1)
  BY DEF PInv, TypeOK, LoopStep
<1>4. CASE k >= src
  <2>1. k = src /\ src' = src + 1
    BY <1>2, <1>3, <1>4
  <2>2. h = g
    BY <1>1, <1>2, <2>1
  <2> QED BY <1>2, <2>1, <2>2
<1>5. CASE k < src
  <2>1. h = c_as[k]
    BY <1>2
  <2>2. nerrs = 0
    BY <1>2 DEF LoopStep
  <2>3. HasResult(h)
    BY <1>1, <1>2, <1>5, <2>1, <2>2 DEF FilesRight, ResultsThere, Early
  <2>4. Result(h)' = Result(h)
    BY <1>1, DerivedKept
  <2>5. CASE Result(h).name \notin W
    <3>1. Result(h).name \in DOMAIN fs' /\ fs'[Result(h).name] = fs[Result(h).name]
      BY <2>3, <2>5 DEF LoopStep, Wrote, HasResult, Exists
    <3>2. HasResult(h)'
      BY <2>3, <2>4, <3>1 DEF HasResult, Exists
    <3> QED BY <1>1, <2>1, <3>2
  <2>6. CASE Result(h).name \in W
    <3>1. Result(h).name \in MadeFor(h) /\ Writes(g) \subseteq MadeFor(g)
      BY WritesMade
    <3>2. /\ Result(h).name.base = h.base /\ Result(h).name.dir # "tmp"
          /\ h \in Given /\ IsSource(h)
      BY <2>1, <3>1, SourceFits
    <3>3. /\ g \in Given /\ IsSource(g) /\ \A f \in MadeFor(g) : f.base = g.base
      BY <1>1, SourceFits
    <3>4. Result(h).name \in Writes(g)
      BY <2>6, <3>2, TmpsApart DEF LoopStep, Temps
    <3>5. h = g
      BY <3>1, <3>2, <3>3, <3>4, SameBase
    <3> QED BY <1>1, <1>2, <2>1, <2>6, <3>5
  <2> QED BY <2>5, <2>6
<1> QED BY <1>3, <1>4, <1>5

\* The cross reference is as it was, and still complete.
LEMMA CrossKept ==
  ASSUME PInv, Fit, FilesRight, NEW W, NEW g, LoopStep(W, g), crtmp \notin W,
         nerrs' = 0 /\ ~keepi /\ ~dryRun => Crossed' = Crossed \/ (g.ext # "c" /\ Crossed = src - 1 /\ Crossed' = src)
  PROVE  CrossThere'
<1>1. /\ pc \in Early /\ pc' \in Early /\ UNCHANGED doitKeeps /\ build # 0
      /\ UNCHANGED <<c_as, dryRun, keepi, xref, build>> /\ src \in DOMAIN c_as /\ g = c_as[src]
  BY FlagsKept DEF LoopStep
<1>2. (crtmp \in DOMAIN fs' <=> crtmp \in DOMAIN fs) /\ (crtmp \in DOMAIN fs => fs'[crtmp] = fs[crtmp])
  BY DEF LoopStep, Wrote
<1>3. ASSUME nerrs' = 0, ~dryRun, xref, ~keepi
      PROVE  crtmp \in DOMAIN fs' /\ fs'[crtmp] = Content("crf", Those(SubSeq(c_as, 1, Crossed'), CFiles))
  <2>1. nerrs = 0
    BY <1>3 DEF LoopStep
  <2>2. crtmp \in DOMAIN fs /\ fs[crtmp] = Content("crf", Those(SubSeq(c_as, 1, Crossed), CFiles))
    BY <1>1, <1>3, <2>1 DEF FilesRight, CrossThere, Exists
  <2>3. Those(SubSeq(c_as, 1, Crossed'), CFiles) = Those(SubSeq(c_as, 1, Crossed), CFiles)
    <3>1. CASE Crossed' = Crossed
      BY <3>1
    <3>2. CASE g.ext # "c" /\ Crossed = src - 1 /\ Crossed' = src
      <4>1. c_as \in Seq(Name)
        BY DEF PInv, TypeOK
      <4>2. PICK q \in Seq(Name), n \in Nat : q = c_as /\ n = src
        BY <1>1, <4>1
      <4>3. n \in 1..Len(q) /\ g = q[n]
        BY <1>1, <4>2
      <4>30. SubSeq(q, 1, n - 1) \in Seq(Name)
        BY <4>3
      <4>4. PICK t \in Seq(Name) : t = SubSeq(q, 1, n - 1)
        BY <4>30
      <4>5. SubSeq(q, 1, n) = Append(t, g)
        BY <4>3, <4>4
      <4>6. g \in Name /\ g \notin CFiles
        BY <3>2, <4>3 DEF CFiles
      <4>7. Those(Append(t, g), CFiles) = Those(t, CFiles)
        BY <4>6, ThoseAppend
      <4> QED BY <3>2, <4>2, <4>4, <4>5, <4>7
    <3> QED BY <1>3, <3>1, <3>2
  <2> QED BY <1>2, <2>2, <2>3
<1>4. crtmp \in DOMAIN fs' => xref /\ \E q : fs'[crtmp] = Content("crf", q)
  BY <1>1, <1>2 DEF FilesRight, CrossThere, Exists
<1> QED BY <1>1, <1>3, <1>4 DEF CrossThere, Exists

\* What a program leaves: only its output is touched, and when it has succeeded it is right.
LEMMA RunWrote ==
  ASSUME NEW good, NEW out, NEW made, NEW r \in Run(good, out, made)
  PROVE  /\ \A f : f # out => (f \in DOMAIN r.files <=> f \in DOMAIN fs)
         /\ \A f \in DOMAIN fs : f # out => r.files[f] = fs[f]
         /\ r.ok /\ ~dryRun => good /\ out \in DOMAIN r.files /\ r.files[out] = made
         /\ out \in DOMAIN r.files => \/ out \in DOMAIN fs /\ r.files[out] = fs[out]
                                      \/ r.files[out] = made /\ good
                                      \/ r.files[out] = Junk
         /\ r.ok \in BOOLEAN /\ (dryRun => r.ok /\ r.files = fs)
<1>1. /\ r.ok \in BOOLEAN
      /\ dryRun => r.ok /\ r.files = fs
      /\ ~dryRun /\ r.ok => good /\ r.files = Put(fs, out, made)
      /\ ~dryRun /\ ~r.ok => r.files = fs \/ r.files = Put(fs, out, Junk)
  BY RunFacts
<1>2. \A c : /\ DOMAIN Put(fs, out, c) = DOMAIN fs \cup {out}
             /\ Put(fs, out, c)[out] = c
             /\ \A n \in DOMAIN fs : n # out => Put(fs, out, c)[n] = fs[n]
  BY DEF Put
<1>3. CASE r.files = fs /\ (dryRun \/ ~r.ok)
  BY <1>1, <1>3
<1>4. CASE r.ok /\ ~dryRun /\ good /\ r.files = Put(fs, out, made)
  BY <1>1, <1>2, <1>4
<1>5. CASE ~r.ok /\ ~dryRun /\ r.files = Put(fs, out, Junk)
  BY <1>1, <1>2, <1>5
<1> QED BY <1>1, <1>3, <1>4, <1>5

\* the kinds
LEMMA Kinds ==
  /\ Junk.kind = "junk" /\ \A k, o : Content(k, o).kind = k /\ Content(k, o).of = o
  /\ \A f : Assembled(f).kind \in {"obj", "objopt"}
BY DEF Junk, Content, Assembled

\* A stage that has run one program and wrote its output at most.
LEMMA StageLoop ==
  ASSUME PInv, Staged, NEW good, NEW out, NEW made, NEW r \in Run(good, out, made),
         fs' = r.files, Counted(r), made.kind # "com", NEW g, g = s, out \in Temps \cup Writes(g)
  PROVE  /\ LoopStep({out}, g)
         /\ nerrs' = 0 => r.ok
         /\ nerrs' = 0 /\ ~dryRun => out \in DOMAIN fs' /\ fs'[out] = made
<1>1. pc \in Early \ {"link"} /\ pc' \in Early \ {"link"} /\ UNCHANGED outfile
  BY DEF Staged, Stagings, Early, GoesOn, NextOne
<1>2. src \in DOMAIN c_as /\ g = c_as[src]
  <2>1. src <= Len(c_as) /\ src \in 1..(Len(c_as) + 1) /\ c_as \in Seq(Name)
    BY DEF Staged, Stagings, PInv, Stages, TypeOK
  <2>2. src \in 1..Len(c_as)
    BY <2>1
  <2> QED BY <2>1, <2>2 DEF s
<1>3. UNCHANGED doitKeeps /\ build # 0
  BY StageInv
<1>4. src' = src \/ src' = src + 1
  BY DEF Staged, GoesOn, NextOne
<1>5. (nerrs' = 0 => nerrs = 0 /\ r.ok)
  <2>1. nerrs \in Nat /\ r.ok \in BOOLEAN
    BY RunWrote DEF PInv, TypeOK
  <2>2. nerrs' = IF r.ok THEN nerrs ELSE nerrs + 1
    BY DEF Counted
  <2> QED BY <2>1, <2>2
<1>6. Wrote({out})
  BY RunWrote DEF Wrote
<1>7. \A f \in {out} : f \in DOMAIN fs' => (f \in DOMAIN fs /\ fs'[f] = fs[f]) \/ fs'[f].kind # "com"
  <2>1. out \in DOMAIN r.files => \/ out \in DOMAIN fs /\ r.files[out] = fs[out]
                                  \/ r.files[out] = made /\ good
                                  \/ r.files[out] = Junk
    BY RunWrote
  <2> QED BY <2>1, Kinds
<1>8. LoopStep({out}, g)
  BY <1>1, <1>2, <1>3, <1>4, <1>5, <1>6, <1>7 DEF LoopStep
<1>9. nerrs' = 0 /\ ~dryRun => out \in DOMAIN fs' /\ fs'[out] = made
  BY <1>5, RunWrote
<1> QED BY <1>5, <1>8, <1>9

LEMMA LoopRight ==
  ASSUME PInv, Fit, FilesRight, NEW W, NEW g, LoopStep(W, g), ResultsThere', CrossThere', TakesItsInput'
  PROVE  FilesRight'
BY LoopKeeps DEF FilesRight, BuiltFromSources

\* The source a stage is at, by its name's parts.
LEMMA StageSource ==
  ASSUME PInv, Fit, src <= Len(c_as)
  PROVE  /\ src \in DOMAIN c_as /\ s = c_as[src] /\ s \in Name /\ s \in Given /\ IsSource(s) /\ s.dir # "tmp"
         /\ \A f \in Writes(s) \cup {Result(s).name} : f.dir # "tmp" /\ f \notin Temps
         /\ s \notin Outputs /\ s' = c_as'[src']
<1>1. src \in DOMAIN c_as
  <2>1. src \in 1..(Len(c_as) + 1) /\ c_as \in Seq(Name)
    BY DEF PInv, TypeOK
  <2>2. src \in 1..Len(c_as)
    BY <2>1
  <2> QED BY <2>1, <2>2
<1>2. s = c_as[src]
  BY DEF s
<1>3. s \in Name /\ s \in Given /\ IsSource(s) /\ s.dir # "tmp" /\ s \notin Outputs
  BY <1>1, <1>2, SourceFits
<1>4. \A f \in Writes(s) \cup {Result(s).name} : f.dir # "tmp"
  <2>1. \A f \in MadeFor(s) : f.dir # "tmp"
    BY <1>1, <1>2, SourceFits
  <2> QED BY <2>1, WritesMade
<1>5. \A f \in Temps : f.dir = "tmp"
  BY TmpsApart DEF Temps
<1> QED BY <1>1, <1>2, <1>3, <1>4, <1>5 DEF s

LEMMA CppRight ==
  ASSUME PInv, Fit, FilesRight, NEW r, CppRan(r), pc = "cpp"
  PROVE  FilesRight'
<1>1. src <= Len(c_as) /\ s.ext = "c" /\ Staged
  BY CppInv DEF PInv, Stages
<1>2. PICK g : g = s
  OBVIOUS
<1>3. PICK out : out = IF keepi THEN WithExt(g, "i") ELSE tmpf1
  OBVIOUS
<1>4. CppArgs[1] = g /\ CppArgs[2] = out
  <2>1. CppArgs = <<g, out>>
    BY <1>2, <1>3 DEF CppArgs, Fit, OptionsFit
  <2> QED BY <2>1
<1>5. PICK good, made : r \in Run(good, out, made) /\ made = Content("i", g) /\ fs' = r.files /\ Counted(r)
  BY <1>4 DEF CppRan, Fit, OptionsFit
<1>6. out \in Temps \cup Writes(g) /\ (keepi => out = Result(g).name /\ Result(g).kind = "i")
  BY <1>1, <1>2, <1>3 DEF Temps, Writes, Kept, Result
<1>7. /\ LoopStep({out}, g)
      /\ nerrs' = 0 => r.ok
      /\ nerrs' = 0 /\ ~dryRun => out \in DOMAIN fs' /\ fs'[out] = Content("i", g)
  <2>1. made.kind # "com"
    BY <1>5, Kinds
  <2> QED BY <1>1, <1>2, <1>5, <1>6, <2>1, StageLoop
<1>8. \A f \in Writes(g) \cup {Result(g).name} : f \notin Temps
  BY <1>1, <1>2, StageSource
<1>9. \/ r.ok /\ ~keepi /\ pc' = "p1" /\ src' = src
      \/ (r.ok => keepi) /\ NextOne
  BY DEF CppRan
<1>10. UNCHANGED doitKeeps /\ UNCHANGED <<keepi, c_as, dryRun>>
  BY <1>7, FlagsKept DEF LoopStep
<1>11. keepi /\ nerrs' = 0 /\ ~dryRun => HasResult(g)'
  <2>1. Result(g)' = Result(g)
    BY <1>10, DerivedKept
  <2> QED BY <1>6, <1>7, <2>1 DEF HasResult, Exists
<1>12. ResultsThere'
  <2>1. Result(g).name \in {out} => keepi
    BY <1>3, <1>8 DEF Temps
  <2>2. src' = src + 1 /\ nerrs' = 0 => keepi
    <3>1. src \in Nat
      BY DEF PInv, TypeOK
    <3> QED BY <1>7, <1>9, <3>1
  <2> QED BY <1>7, <1>11, <2>1, <2>2, ResultsKept
<1>13. CrossThere'
  <2>1. crtmp \notin {out}
    BY <1>3, <1>6, <1>8, TmpsApart DEF Temps
  <2>2. nerrs' = 0 /\ ~keepi => Crossed' = Crossed
    BY <1>7, <1>9 DEF Crossed
  <2> QED BY <1>7, <2>1, <2>2, CrossKept
<1>14. TakesItsInput'
  <2>1. CASE pc' = "source"
    BY <2>1 DEF TakesItsInput
  <2>2. CASE pc' = "p1" /\ src' = src /\ ~keepi /\ r.ok
    <3>1. s' = g
      BY <1>2, <1>10, <2>2 DEF s
    <3>2. out = tmpf1
      BY <1>3, <2>2
    <3>3. ~dryRun => tmpf1 \in DOMAIN fs' /\ fs'[tmpf1] = Content("i", g)
      BY <1>5, <2>2, <3>2, RunWrote
    <3> QED BY <1>10, <2>2, <3>1, <3>3 DEF TakesItsInput, Exists
  <2> QED BY <1>9, <2>1, <2>2 DEF NextOne
<1> QED BY <1>7, <1>12, <1>13, <1>14, LoopRight

LEMMA CgenRight ==
  ASSUME PInv, Fit, FilesRight, NEW r, CgenRan(r), pc = "cgen"
  PROVE  FilesRight'
<1>1. src <= Len(c_as) /\ s.ext = "c" /\ Staged /\ ~keepi /\ ~keepp1 /\ (asmlst => optimize)
  BY CgenInv DEF PInv, Stages, Fit, OptionsFit
<1>2. PICK g : g = s
  OBVIOUS
<1>3. PICK out : out = IF keepas /\ ~optimize THEN Here(g, "as") ELSE tmpf1
  OBVIOUS
<1>4. CgenOut = out
  BY <1>1, <1>2, <1>3 DEF CgenOut
<1>5. PICK made : r \in Run(Holds(tmpf2, "p1"), out, made) /\ fs' = r.files /\ Counted(r)
                  /\ made.kind = "as" /\ (~dryRun => made = Content("as", g))
  <2>1. ~dryRun => fs[tmpf2] = Content("p1", g)
    BY <1>2 DEF FilesRight, BuiltFromSources, TakesItsInput
  <2>2. ~dryRun => fs[tmpf2].of = g
    BY <2>1, Kinds
  <2>3. PICK made : made = Content("as", fs[tmpf2].of)
    OBVIOUS
  <2>4. made.kind = "as" /\ (~dryRun => made = Content("as", g))
    BY <2>2, <2>3, Kinds
  <2> QED BY <1>4, <2>3, <2>4 DEF CgenRan
<1>6. /\ out \in Temps \cup Writes(g)
      /\ keepas /\ ~optimize => out = Result(g).name /\ Result(g).kind = "as"
  BY <1>1, <1>2, <1>3 DEF Temps, Writes, Kept, Result
<1>7. /\ LoopStep({out}, g)
      /\ nerrs' = 0 => r.ok
      /\ nerrs' = 0 /\ ~dryRun => out \in DOMAIN fs' /\ fs'[out] = Content("as", g)
  <2>1. made.kind # "com"
    BY <1>5
  <2> QED BY <1>1, <1>2, <1>5, <1>6, <2>1, StageLoop
<1>8. \A f \in Writes(g) \cup {Result(g).name} : f \notin Temps
  BY <1>1, <1>2, StageSource
<1>9. \/ r.ok /\ optimize /\ pc' = "optim" /\ src' = src
      \/ r.ok /\ ~optimize /\ ~keepas /\ pc' = "zas" /\ src' = src
      \/ (r.ok => keepas /\ ~optimize) /\ NextOne
  BY DEF CgenRan
<1>10. UNCHANGED doitKeeps /\ UNCHANGED <<keepas, optimize, asmlst, c_as, dryRun>>
  BY <1>7, FlagsKept DEF LoopStep
<1>11. keepas /\ ~optimize /\ nerrs' = 0 /\ ~dryRun => HasResult(g)'
  <2>1. Result(g)' = Result(g)
    BY <1>10, DerivedKept
  <2> QED BY <1>6, <1>7, <2>1 DEF HasResult, Exists
<1>12. ResultsThere'
  <2>1. Result(g).name \in {out} => keepas /\ ~optimize
    BY <1>3, <1>8 DEF Temps
  <2>2. src' = src + 1 /\ nerrs' = 0 => keepas /\ ~optimize
    <3>1. src \in Nat
      BY DEF PInv, TypeOK
    <3> QED BY <1>7, <1>9, <3>1
  <2> QED BY <1>7, <1>11, <2>1, <2>2, ResultsKept
<1>13. CrossThere'
  <2>1. crtmp \notin {out}
    BY <1>3, <1>6, <1>8, TmpsApart DEF Temps
  <2>2. Crossed' = Crossed
    <3>1. src \in Nat
      BY DEF PInv, TypeOK
    <3> QED BY <1>9, <3>1 DEF Crossed, NextOne
  <2> QED BY <1>7, <2>1, <2>2, CrossKept
<1>14. TakesItsInput'
  <2>1. CASE pc' = "source"
    BY <2>1 DEF TakesItsInput
  <2>2. CASE pc' \in {"optim", "zas"} /\ src' = src /\ ~(keepas /\ ~optimize) /\ r.ok /\ (pc' = "zas" => ~optimize)
    <3>1. s' = g
      BY <1>2, <1>10, <2>2 DEF s
    <3>2. out = tmpf1
      BY <1>3, <2>2
    <3>3. ~dryRun => tmpf1 \in DOMAIN fs' /\ fs'[tmpf1] = Content("as", g)
      BY <1>5, <2>2, <3>2, RunWrote
    <3>4. pc' = "zas" => ZasIn' = tmpf1 /\ ~optimize'
      BY <1>10, <2>2 DEF ZasIn
    <3> QED BY <1>10, <2>2, <3>1, <3>3, <3>4 DEF TakesItsInput, Exists
  <2> QED BY <1>9, <2>1, <2>2 DEF NextOne
<1> QED BY <1>7, <1>12, <1>13, <1>14, LoopRight

LEMMA OptimRight ==
  ASSUME PInv, Fit, FilesRight, NEW r, OptimRan(r), pc = "optim"
  PROVE  FilesRight'
<1>1. src <= Len(c_as) /\ s.ext = "c" /\ Staged /\ ~keepi /\ ~keepp1 /\ optimize
  BY OptimInv DEF PInv, Stages
<1>2. PICK g : g = s
  OBVIOUS
<1>3. PICK out : out = OptimOut
  OBVIOUS
<1>5. PICK made : r \in Run(Holds(tmpf1, "as"), out, made) /\ fs' = r.files /\ Counted(r)
                  /\ made.kind = "opt" /\ (~dryRun => made = Content("opt", g))
  <2>1. ~dryRun => fs[tmpf1] = Content("as", g)
    BY <1>2 DEF FilesRight, BuiltFromSources, TakesItsInput
  <2>2. ~dryRun => fs[tmpf1].of = g
    BY <2>1, Kinds
  <2>3. PICK made : made = Content("opt", fs[tmpf1].of)
    OBVIOUS
  <2>4. made.kind = "opt" /\ (~dryRun => made = Content("opt", g))
    BY <2>2, <2>3, Kinds
  <2> QED BY <1>3, <2>3, <2>4 DEF OptimRan
<1>6. /\ out \in Temps \cup Writes(g)
      /\ keepas => out = Result(g).name /\ Result(g).kind = "opt"
  BY <1>1, <1>2, <1>3 DEF Temps, Writes, Kept, Result, OptimOut
<1>7. /\ LoopStep({out}, g)
      /\ nerrs' = 0 => r.ok
      /\ nerrs' = 0 /\ ~dryRun => out \in DOMAIN fs' /\ fs'[out] = Content("opt", g)
  <2>1. made.kind # "com"
    BY <1>5
  <2> QED BY <1>1, <1>2, <1>5, <1>6, <2>1, StageLoop
<1>8. \A f \in Writes(g) \cup {Result(g).name} : f \notin Temps
  BY <1>1, <1>2, StageSource
<1>9. \/ r.ok /\ ~keepas /\ pc' = "zas" /\ src' = src
      \/ (r.ok => keepas) /\ NextOne
  BY DEF OptimRan
<1>10. UNCHANGED doitKeeps /\ UNCHANGED <<keepas, optimize, asmlst, c_as, dryRun>>
  BY <1>7, FlagsKept DEF LoopStep
<1>11. keepas /\ nerrs' = 0 /\ ~dryRun => HasResult(g)'
  <2>1. Result(g)' = Result(g)
    BY <1>10, DerivedKept
  <2> QED BY <1>6, <1>7, <2>1 DEF HasResult, Exists
<1>12. ResultsThere'
  <2>1. Result(g).name \in {out} => keepas
    <3>1. CASE ~keepas
      <4>1. Result(g).name = Here(g, "obj")
        BY <1>1, <1>2, <3>1 DEF Result, Kept
      <4>2. out = Here(g, "as") \/ out \in Temps
        BY <1>2, <1>3 DEF OptimOut, Temps
      <4>3. Here(g, "as") # Here(g, "obj")
        <5>1. Here(g, "as").ext = "as" /\ Here(g, "obj").ext = "obj"
          BY NameParts
        <5> QED BY <5>1
      <4> QED BY <1>8, <4>1, <4>2, <4>3
    <3> QED BY <3>1
  <2>2. src' = src + 1 /\ nerrs' = 0 => keepas
    <3>1. src \in Nat
      BY DEF PInv, TypeOK
    <3> QED BY <1>7, <1>9, <3>1
  <2> QED BY <1>7, <1>11, <2>1, <2>2, ResultsKept
<1>13. CrossThere'
  <2>1. crtmp \notin {out}
    <3>1. out = tmpf2 \/ out \in Writes(g)
      BY <1>1, <1>2, <1>3, <1>6 DEF OptimOut, Writes, Kept
    <3> QED BY <1>8, <3>1, TmpsApart DEF Temps
  <2>2. Crossed' = Crossed
    <3>1. src \in Nat
      BY DEF PInv, TypeOK
    <3> QED BY <1>9, <3>1 DEF Crossed, NextOne
  <2> QED BY <1>7, <2>1, <2>2, CrossKept
<1>14. TakesItsInput'
  <2>1. CASE pc' = "source"
    BY <2>1 DEF TakesItsInput
  <2>2. CASE pc' = "zas" /\ src' = src /\ r.ok
    <3>1. s' = g
      BY <1>2, <1>10, <2>2 DEF s
    <3>2. ZasIn' = out /\ optimize'
      BY <1>1, <1>2, <1>3, <1>10, <3>1 DEF ZasIn, OptimOut
    <3>3. ~dryRun => out \in DOMAIN fs' /\ fs'[out] = Content("opt", g)
      BY <1>5, <2>2, RunWrote
    <3> QED BY <1>10, <2>2, <3>1, <3>2, <3>3 DEF TakesItsInput, Exists
  <2> QED BY <1>9, <2>1, <2>2 DEF NextOne
<1> QED BY <1>7, <1>12, <1>13, <1>14, LoopRight

LEMMA Pass1Right ==
  ASSUME PInv, Fit, FilesRight, NEW r, Pass1Ran(r), pc = "p1"
  PROVE  FilesRight'
<1>1. src <= Len(c_as) /\ s.ext = "c" /\ Staged /\ ~keepi
  BY Pass1Inv DEF PInv, Stages
<1>2. PICK g : g = s
  OBVIOUS
<1>3. PICK out : out = IF keepp1 THEN Here(g, "p1") ELSE tmpf2
  OBVIOUS
<1>5. PICK good, made : r \in Run(good, out, made) /\ Counted(r)
                  /\ made.kind = "p1" /\ (~dryRun => made = Content("p1", g))
  <2>1. ~dryRun => fs[tmpf1] = Content("i", g)
    BY <1>2 DEF FilesRight, BuiltFromSources, TakesItsInput
  <2>2. ~dryRun => fs[tmpf1].of = g
    BY <2>1, Kinds
  <2>3. PICK made : made = Content("p1", fs[tmpf1].of)
    OBVIOUS
  <2>4. made.kind = "p1" /\ (~dryRun => made = Content("p1", g))
    BY <2>2, <2>3, Kinds
  <2> QED BY <1>2, <1>3, <2>3, <2>4 DEF Pass1Ran
<1>6. /\ out \in Temps \cup Writes(g)
      /\ keepp1 => out = Result(g).name /\ Result(g).kind = "p1"
  BY <1>1, <1>2, <1>3 DEF Temps, Writes, Kept, Result
<1>8. \A f \in Writes(g) \cup {Result(g).name} : f \notin Temps
  BY <1>1, <1>2, StageSource
<1>9. crtmp # out
  BY <1>3, <1>6, <1>8, TmpsApart DEF Temps
<1>0. /\ \A f : f # out => (f \in DOMAIN r.files <=> f \in DOMAIN fs)
      /\ \A f \in DOMAIN fs : f # out => r.files[f] = fs[f]
      /\ r.ok /\ ~dryRun => out \in DOMAIN r.files /\ r.files[out] = made
      /\ out \in DOMAIN r.files => \/ out \in DOMAIN fs /\ r.files[out] = fs[out]
                                   \/ r.files[out].kind # "com"
  <2>1. /\ \A f : f # out => (f \in DOMAIN r.files <=> f \in DOMAIN fs)
        /\ \A f \in DOMAIN fs : f # out => r.files[f] = fs[f]
        /\ r.ok /\ ~dryRun => out \in DOMAIN r.files /\ r.files[out] = made
        /\ out \in DOMAIN r.files => \/ out \in DOMAIN fs /\ r.files[out] = fs[out]
                                     \/ r.files[out] = made /\ good
                                     \/ r.files[out] = Junk
    BY <1>5, RunWrote
  <2>2. made.kind # "com" /\ Junk.kind # "com"
    BY <1>5, Kinds
  <2> QED BY <2>1, <2>2
<1>10. \/ r.ok /\ ~keepp1 /\ pc' = "cgen" /\ src' = src
       \/ (r.ok => keepp1) /\ NextOne
  BY DEF Pass1Ran
<1>11. UNCHANGED doitKeeps /\ build # 0
  BY <1>1, StageInv
<1>12. UNCHANGED <<keepp1, keepi, xref, c_as, dryRun, build>>
  BY <1>11, FlagsKept
<1>13. /\ DOMAIN fs' = DOMAIN r.files
       /\ \A f \in DOMAIN r.files : f # crtmp => fs'[f] = r.files[f]
       /\ ~(xref /\ ~dryRun) => fs' = r.files
       /\ xref /\ ~dryRun /\ crtmp \in DOMAIN r.files =>
            fs'[crtmp] = [r.files[crtmp] EXCEPT !.of = Append(@, g)]
  BY <1>2 DEF Pass1Ran
<1>14. ASSUME crtmp \in DOMAIN fs
       PROVE  xref /\ \E q : /\ fs[crtmp] = Content("crf", q)
                             /\ fs'[crtmp] = Content("crf", IF dryRun THEN q ELSE Append(q, g))
  <2>1. PICK q : xref /\ fs[crtmp] = Content("crf", q)
    BY <1>11, <1>14 DEF FilesRight, CrossThere, Exists
  <2>2. crtmp \in DOMAIN r.files /\ r.files[crtmp] = Content("crf", q)
    BY <1>0, <1>9, <1>14, <2>1
  <2>3. [Content("crf", q) EXCEPT !.of = Append(@, g)] = Content("crf", Append(q, g))
    BY DEF Content
  <2>4. CASE dryRun
    BY <1>13, <2>1, <2>2, <2>4
  <2>5. CASE ~dryRun
    BY <1>13, <2>1, <2>2, <2>3, <2>5
  <2> QED BY <2>4, <2>5
<1>15. LoopStep({out, crtmp}, g)
  <2>1. pc \in Early \ {"link"} /\ pc' \in Early \ {"link"} /\ UNCHANGED outfile
    BY <1>1 DEF Staged, Stagings, Early, GoesOn, NextOne
  <2>2. src \in DOMAIN c_as /\ g = c_as[src]
    BY <1>1, <1>2, StageSource
  <2>3. src' = src \/ src' = src + 1
    BY <1>10 DEF NextOne
  <2>4. nerrs' = 0 => nerrs = 0
    BY <1>5 DEF Counted, PInv, TypeOK
  <2>5. Wrote({out, crtmp})
    BY <1>0, <1>13 DEF Wrote
  <2>6. \A f \in {out, crtmp} : f \in DOMAIN fs' => (f \in DOMAIN fs /\ fs'[f] = fs[f]) \/ fs'[f].kind # "com"
    <3>1. out \in DOMAIN fs' => (out \in DOMAIN fs /\ fs'[out] = fs[out]) \/ fs'[out].kind # "com"
      BY <1>0, <1>9, <1>13
    <3>2. crtmp \in DOMAIN fs' => fs'[crtmp].kind # "com"
      <4>1. crtmp \in DOMAIN fs' => crtmp \in DOMAIN fs
        BY <1>0, <1>9, <1>13
      <4> QED BY <1>14, <4>1, Kinds
    <3> QED BY <3>1, <3>2
  <2>7. crtmp \in Temps
    BY DEF Temps
  <2> QED BY <1>6, <1>11, <2>1, <2>2, <2>3, <2>4, <2>5, <2>6, <2>7 DEF LoopStep
<1>16. nerrs' = 0 => r.ok /\ nerrs = 0
  <2>1. nerrs \in Nat /\ nerrs' = IF r.ok THEN nerrs ELSE nerrs + 1
    BY <1>5 DEF Counted, PInv, TypeOK
  <2>2. r.ok \in BOOLEAN
    BY <1>5, RunWrote
  <2> QED BY <2>1, <2>2
<1>17. r.ok /\ ~dryRun => out \in DOMAIN fs' /\ fs'[out] = Content("p1", g)
  BY <1>0, <1>5, <1>9, <1>13
<1>18. keepp1 /\ nerrs' = 0 /\ ~dryRun => HasResult(g)'
  <2>1. Result(g)' = Result(g)
    BY <1>11, DerivedKept
  <2> QED BY <1>6, <1>16, <1>17, <2>1 DEF HasResult, Exists
<1>19. ResultsThere'
  <2>1. Result(g).name \in {out, crtmp} => keepp1
    BY <1>3, <1>8 DEF Temps
  <2>2. src' = src + 1 /\ nerrs' = 0 => keepp1
    <3>1. src \in Nat
      BY DEF PInv, TypeOK
    <3> QED BY <1>10, <1>16, <3>1
  <2> QED BY <1>15, <1>18, <2>1, <2>2, ResultsKept
<1>20. CrossThere'
  <2>1. crtmp \in DOMAIN fs' <=> crtmp \in DOMAIN fs
    BY <1>0, <1>9, <1>13
  <2>2. crtmp \in DOMAIN fs' => xref' /\ \E q : fs'[crtmp] = Content("crf", q)
    BY <1>12, <1>14, <2>1
  <2>3. ASSUME nerrs' = 0, ~dryRun, xref
        PROVE  crtmp \in DOMAIN fs' /\ fs'[crtmp] = Content("crf", Those(SubSeq(c_as, 1, Crossed'), CFiles))
    <3>1. crtmp \in DOMAIN fs /\ fs[crtmp] = Content("crf", Those(SubSeq(c_as, 1, src - 1), CFiles))
      BY <1>1, <1>16, <2>3 DEF FilesRight, CrossThere, Exists, Crossed, Early
    <3>2. Crossed' = src
      <4>1. src \in Nat
        BY DEF PInv, TypeOK
      <4> QED BY <1>10, <4>1 DEF Crossed, NextOne
    <3>3. PICK t : t = Those(SubSeq(c_as, 1, src - 1), CFiles)
      OBVIOUS
    <3>4. fs'[crtmp] = Content("crf", Append(t, g))
      <4>1. PICK q : /\ fs[crtmp] = Content("crf", q)
                     /\ fs'[crtmp] = Content("crf", IF dryRun THEN q ELSE Append(q, g))
        BY <1>14, <3>1
      <4>2. q = t
        BY <3>1, <3>3, <4>1, Kinds
      <4> QED BY <2>3, <4>1, <4>2
    <3>5. Those(SubSeq(c_as, 1, src), CFiles) = Append(t, g)
      <4>1. c_as \in Seq(Name) /\ src \in DOMAIN c_as /\ g = c_as[src] /\ g \in Name
        BY <1>1, <1>2, StageSource DEF PInv, TypeOK
      <4>2. PICK q \in Seq(Name) : q = c_as
        BY <4>1
      <4>3. PICK n \in Nat : n = src
        BY <4>1, <4>2
      <4>4. n \in 1..Len(q) /\ g = q[n]
        BY <4>1, <4>2, <4>3
      <4>5. SubSeq(q, 1, n - 1) \in Seq(Name)
        BY <4>4
      <4>6. PICK v \in Seq(Name) : v = SubSeq(q, 1, n - 1)
        BY <4>5
      <4>7. SubSeq(q, 1, n) = Append(v, g)
        BY <4>4, <4>6
      <4>8. g \in CFiles
        BY <1>1, <1>2, <4>1 DEF CFiles, Name
      <4>9. Those(Append(v, g), CFiles) = Append(Those(v, CFiles), g)
        BY <4>1, <4>8, ThoseAppend
      <4> QED BY <3>3, <4>2, <4>3, <4>6, <4>7, <4>9
    <3> QED BY <2>1, <3>1, <3>2, <3>4, <3>5
  <2> QED BY <1>12, <2>2, <2>3 DEF CrossThere, Exists
<1>21. TakesItsInput'
  <2>1. CASE pc' = "source"
    BY <2>1 DEF TakesItsInput
  <2>2. CASE pc' = "cgen" /\ src' = src /\ ~keepp1 /\ r.ok
    <3>1. s' = g
      BY <1>2, <1>12, <2>2 DEF s
    <3>2. out = tmpf2
      BY <1>3, <2>2
    <3>3. ~dryRun => tmpf2 \in DOMAIN fs' /\ fs'[tmpf2] = Content("p1", g)
      BY <1>17, <2>2, <3>2
    <3> QED BY <1>12, <2>2, <3>1, <3>3 DEF TakesItsInput, Exists
  <2> QED BY <1>10, <2>1, <2>2 DEF NextOne
<1> QED BY <1>15, <1>19, <1>20, <1>21, LoopRight

LEMMA ZasRight ==
  ASSUME PInv, Fit, FilesRight, NEW r, ZasRan(r), pc = "zas"
  PROVE  FilesRight'
<1>1. /\ src <= Len(c_as) /\ s.ext = "c" /\ Staged /\ ~keepi /\ ~keepp1 /\ ~keepas
      /\ asmlst => optimize
  BY ZasInv DEF PInv, Stages, Fit, OptionsFit
<1>2. PICK g : g = s
  OBVIOUS
<1>3. PICK out : out = Here(g, "obj")
  OBVIOUS
<1>4. PICK W : W = {out} \cup (IF asmlst THEN {Here(g, "as")} ELSE {})
  OBVIOUS
<1>5. PICK good, made : /\ r \in Run(good, out, made) /\ Counted(r) /\ made.kind # "com"
                        /\ ~dryRun => made = Content(IF optimize THEN "objopt" ELSE "obj", g)
  <2>1. ~dryRun => fs[ZasIn] = Content(IF optimize THEN "opt" ELSE "as", g)
    BY <1>2 DEF FilesRight, BuiltFromSources, TakesItsInput
  <2>2. ~dryRun => fs[ZasIn].of = g /\ fs[ZasIn].kind = IF optimize THEN "opt" ELSE "as"
    BY <2>1, Kinds
  <2>3. PICK made : made = Assembled(ZasIn)
    OBVIOUS
  <2>4. made.kind # "com"
    BY <2>3, Kinds
  <2>5. ~dryRun => made = Content(IF optimize THEN "objopt" ELSE "obj", g)
    BY <2>2, <2>3 DEF Assembled
  <2> QED BY <1>2, <1>3, <2>3, <2>4, <2>5 DEF ZasRan
<1>6. /\ out \in Writes(g) /\ W \subseteq Writes(g)
      /\ out = Result(g).name /\ Result(g).kind = IF optimize THEN "objopt" ELSE "obj"
  BY <1>1, <1>2, <1>3, <1>4 DEF Writes, Kept, Result
<1>7. asmlst => ZasIn = Here(g, "as") /\ ZasIn # out
  <2>1. Here(g, "as").ext = "as" /\ Here(g, "obj").ext = "obj"
    BY NameParts
  <2>2. asmlst => ZasIn = Here(g, "as")
    BY <1>1, <1>2 DEF ZasIn, OptimOut
  <2> QED BY <1>3, <2>1, <2>2
<1>8. fs' = IF asmlst THEN Rm(r.files, {ZasIn}) ELSE r.files
  BY DEF ZasRan
<1>9. /\ \A f : f # out => (f \in DOMAIN r.files <=> f \in DOMAIN fs)
      /\ \A f \in DOMAIN fs : f # out => r.files[f] = fs[f]
      /\ r.ok /\ ~dryRun => out \in DOMAIN r.files /\ r.files[out] = made
      /\ out \in DOMAIN r.files => \/ out \in DOMAIN fs /\ r.files[out] = fs[out]
                                   \/ r.files[out] = made /\ good
                                   \/ r.files[out] = Junk
  BY <1>5, RunWrote
<1>10. /\ DOMAIN fs' \subseteq DOMAIN r.files
       /\ \A f \in DOMAIN r.files : f \notin W \/ f = out => f \in DOMAIN fs'
       /\ \A f \in DOMAIN fs' : fs'[f] = r.files[f]
  <2>1. CASE asmlst
    <3>1. PICK x : x = ZasIn
      OBVIOUS
    <3>2. /\ dryRun => Rm(r.files, {x}) = r.files
          /\ ~dryRun => /\ DOMAIN Rm(r.files, {x}) = DOMAIN r.files \ {x}
                        /\ \A n \in DOMAIN r.files \ {x} : Rm(r.files, {x})[n] = r.files[n]
      BY RmFacts
    <3>3. x \in W /\ x # out
      BY <1>4, <1>7, <2>1, <3>1
    <3> QED BY <1>8, <2>1, <3>1, <3>2, <3>3
  <2>2. CASE ~asmlst
    BY <1>8, <2>2
  <2> QED BY <2>1, <2>2
<1>11. UNCHANGED doitKeeps /\ build # 0 /\ NextOne
  BY <1>1, StageInv DEF ZasRan
<1>12. LoopStep(W, g)
  <2>1. pc \in Early \ {"link"} /\ pc' \in Early \ {"link"} /\ UNCHANGED outfile
    BY <1>1 DEF Staged, Stagings, Early, GoesOn, NextOne
  <2>2. src \in DOMAIN c_as /\ g = c_as[src]
    BY <1>1, <1>2, StageSource
  <2>3. src' = src + 1
    BY <1>11 DEF NextOne
  <2>4. nerrs' = 0 => nerrs = 0
    BY <1>5 DEF Counted, PInv, TypeOK
  <2>5. Wrote(W)
    BY <1>4, <1>9, <1>10 DEF Wrote
  <2>6. \A f \in W : f \in DOMAIN fs' => (f \in DOMAIN fs /\ fs'[f] = fs[f]) \/ fs'[f].kind # "com"
    <3>1. made.kind # "com" /\ Junk.kind # "com"
      BY <1>5, Kinds
    <3> QED BY <1>9, <1>10, <3>1
  <2> QED BY <1>6, <1>11, <2>1, <2>2, <2>3, <2>4, <2>5, <2>6 DEF LoopStep
<1>13. nerrs' = 0 => r.ok
  <2>1. nerrs \in Nat /\ nerrs' = IF r.ok THEN nerrs ELSE nerrs + 1
    BY <1>5 DEF Counted, PInv, TypeOK
  <2>2. r.ok \in BOOLEAN
    BY <1>5, RunWrote
  <2> QED BY <2>1, <2>2
<1>14. nerrs' = 0 /\ ~dryRun => HasResult(g)'
  <2>1. Result(g)' = Result(g)
    BY <1>11, DerivedKept
  <2>2. nerrs' = 0 /\ ~dryRun => out \in DOMAIN fs' /\ fs'[out] = made
    BY <1>9, <1>10, <1>13
  <2> QED BY <1>5, <1>6, <2>1, <2>2 DEF HasResult, Exists
<1>15. ResultsThere'
  BY <1>12, <1>14, ResultsKept
<1>16. CrossThere'
  <2>1. crtmp \notin W
    BY <1>1, <1>2, <1>6, StageSource DEF Temps
  <2>2. Crossed' = Crossed
    <3>1. src \in Nat
      BY DEF PInv, TypeOK
    <3> QED BY <1>11, <3>1 DEF Crossed, NextOne
  <2> QED BY <1>12, <2>1, <2>2, CrossKept
<1>17. TakesItsInput'
  BY <1>11 DEF TakesItsInput, NextOne
<1> QED BY <1>12, <1>15, <1>16, <1>17, LoopRight

LEMMA AssembleRight ==
  ASSUME PInv, Fit, FilesRight, NEW r, AssembleRan(r), pc = "asm"
  PROVE  FilesRight'
<1>1. src <= Len(c_as) /\ s.ext = "as" /\ Staged /\ ~stops
  BY AssembleInv DEF PInv, Stages
<1>2. PICK g : g = s
  OBVIOUS
<1>3. PICK out : out = Here(g, "obj")
  OBVIOUS
<1>4. g \in DOMAIN fs /\ fs[g].kind \in {"as", "opt"} => fs[g] = Content("as", g)
  <2>1. g \in Given /\ g.dir # "tmp" /\ g \notin Outputs
    BY <1>1, <1>2, StageSource
  <2>2. ASSUME g \in DOMAIN fs, fs[g].kind \in {"as", "opt"} PROVE fs[g] = Content("as", g)
    <3>1. g \in DOMAIN start /\ fs[g] = start[g]
      BY <2>1, <2>2 DEF FilesRight, OthersKept, Early
    <3> QED BY <1>1, <1>2, <2>1, <2>2, <3>1 DEF Fit, DiskFits
  <2> QED BY <2>2
<1>5. PICK made : /\ r \in Run(IsAsm(g), out, made) /\ fs' = r.files /\ Counted(r) /\ made.kind # "com"
                  /\ r.ok /\ ~dryRun => made = Content("obj", g)
  <2>1. PICK made : made = Assembled(g)
    OBVIOUS
  <2>2. made.kind # "com"
    BY <2>1, Kinds
  <2>3. r \in Run(IsAsm(g), out, made) /\ fs' = r.files /\ Counted(r)
    BY <1>2, <1>3, <2>1 DEF AssembleRan
  <2>4. r.ok /\ ~dryRun => IsAsm(g)
    BY <2>3, RunFacts
  <2>5. IsAsm(g) => made = Content("obj", g)
    <3>1. IsAsm(g) => fs[g] = Content("as", g)
      BY <1>4 DEF IsAsm, Exists
    <3>2. IsAsm(g) => fs[g].kind = "as" /\ fs[g].of = g
      BY <3>1, Kinds
    <3> QED BY <2>1, <3>2 DEF Assembled
  <2> QED BY <2>2, <2>3, <2>4, <2>5
<1>6. out \in Writes(g) /\ out = Result(g).name /\ Result(g).kind = "obj"
  BY <1>1, <1>2, <1>3 DEF Writes, Result
<1>7. /\ LoopStep({out}, g)
      /\ nerrs' = 0 /\ ~dryRun => out \in DOMAIN fs' /\ fs'[out] = Content("obj", g)
  <2>1. PICK good : r \in Run(good, out, made)
    BY <1>5
  <2>2. /\ LoopStep({out}, g)
        /\ nerrs' = 0 => r.ok
        /\ nerrs' = 0 /\ ~dryRun => out \in DOMAIN fs' /\ fs'[out] = made
    BY <1>1, <1>2, <1>5, <1>6, <2>1, StageLoop
  <2> QED BY <1>5, <2>2
<1>8. UNCHANGED doitKeeps /\ NextOne
  BY <1>7 DEF LoopStep, AssembleRan
<1>9. nerrs' = 0 /\ ~dryRun => HasResult(g)'
  <2>1. Result(g)' = Result(g)
    BY <1>8, DerivedKept
  <2> QED BY <1>6, <1>7, <2>1 DEF HasResult, Exists
<1>10. ResultsThere'
  BY <1>7, <1>9, ResultsKept
<1>11. CrossThere'
  <2>1. crtmp \notin {out}
    BY <1>1, <1>2, <1>6, StageSource DEF Temps
  <2>2. Crossed = src - 1 /\ Crossed' = src /\ g.ext # "c"
    <3>1. src \in Nat
      BY DEF PInv, TypeOK
    <3> QED BY <1>1, <1>2, <1>8, <3>1 DEF Crossed, NextOne
  <2> QED BY <1>7, <2>1, <2>2, CrossKept
<1>12. TakesItsInput'
  BY <1>8 DEF TakesItsInput, NextOne
<1> QED BY <1>7, <1>10, <1>11, <1>12, LoopRight

LEMMA DispatchRight ==
  ASSUME PInv, Fit, FilesRight, Dispatch
  PROVE  FilesRight'
<1>1. /\ pc = "source" /\ src <= Len(c_as) /\ UNCHANGED <<doitKeeps, outfile, nerrs, fs>>
      /\ build # 0
  <2>1. build # 0
    BY DispatchInv
  <2> QED BY <2>1 DEF Dispatch, doitKeeps
<1>2. PICK g : g = s
  OBVIOUS
<1>3. \/ pc' \in {"cpp", "asm"} /\ src' = src
      \/ g.ext # "c" /\ stops /\ src' = src + 1 /\ pc' = "source"
  BY <1>2 DEF Dispatch, NextSource, stops
<1>4. LoopStep({}, g)
  <2>1. pc \in Early \ {"link"} /\ pc' \in Early \ {"link"}
    BY <1>1, <1>3 DEF Early
  <2>2. src \in DOMAIN c_as /\ g = c_as[src]
    BY <1>1, <1>2, StageSource
  <2> QED BY <1>1, <1>3, <2>1, <2>2 DEF LoopStep, Wrote
<1>5. ResultsThere'
  <2>1. src' = src + 1 => g.ext # "c" /\ stops
    <3>1. src \in Nat
      BY DEF PInv, TypeOK
    <3> QED BY <1>3, <3>1
  <2> QED BY <1>4, <2>1, ResultsKept
<1>6. CrossThere'
  <2>1. Crossed' = Crossed \/ (g.ext # "c" /\ Crossed = src - 1 /\ Crossed' = src)
    <3>1. src \in Nat
      BY DEF PInv, TypeOK
    <3> QED BY <1>1, <1>3, <3>1 DEF Crossed
  <2> QED BY <1>4, <2>1, CrossKept
<1>7. TakesItsInput'
  BY <1>3 DEF TakesItsInput
<1> QED BY <1>4, <1>5, <1>6, <1>7, LoopRight

-----------------------------------------------------------------------------
(* The files: before and after the loop *)

\* setTarget begins with the files as they were, and with cross reference data of its own.
LEMMA SetTargetRight == ASSUME PInv, SetTarget, Fit', build' # 0 PROVE FilesRight'
<1>1. pc = "args" /\ build = 0 /\ src = 1 /\ fs = start
  BY DEF SetTarget, PInv, Stages
<1>2. /\ pc' = "source" /\ fs' = IF xref THEN Put(fs, crtmp, Content("crf", <<>>)) ELSE fs
      /\ UNCHANGED <<opts, c_as, outfile, src, nerrs, start>>
  <2>1. CASE Found = {}
    <3>1. build' = build
      BY <2>1 DEF SetTarget, Quit
    <3> QED BY <1>1, <3>1
  <2>2. CASE Found # {}
    BY <2>2, Zenon DEF SetTarget
  <2> QED BY <2>1, <2>2
<1>3. \A f \in DOMAIN start : f.dir # "tmp"
  BY <1>2 DEF Fit, DiskFits
<1>4. crtmp \notin DOMAIN start /\ l_dot_obj \notin DOMAIN start /\ l_dot_obj # crtmp
  BY <1>3, TmpsApart DEF Temps
<1>5. PICK c : c = Content("crf", <<>>)
  OBVIOUS
<1>6. /\ DOMAIN start \subseteq DOMAIN fs' /\ DOMAIN fs' \subseteq DOMAIN start \cup {crtmp}
      /\ \A f \in DOMAIN start : fs'[f] = start[f]
      /\ crtmp \in DOMAIN fs' => xref /\ fs'[crtmp] = c
      /\ xref => crtmp \in DOMAIN fs'
  <2>1. /\ DOMAIN Put(fs, crtmp, c) = DOMAIN fs \cup {crtmp}
        /\ Put(fs, crtmp, c)[crtmp] = c
        /\ \A n \in DOMAIN fs : n # crtmp => Put(fs, crtmp, c)[n] = fs[n]
    BY DEF Put
  <2>2. CASE xref
    BY <1>1, <1>2, <1>4, <1>5, <2>1, <2>2
  <2>3. CASE ~xref
    BY <1>1, <1>2, <1>4, <2>3
  <2> QED BY <2>2, <2>3
<1>7. c.kind = "crf"
  BY <1>5, Kinds
<1>8. OthersKept'
  BY <1>2, <1>6, TmpsApart DEF OthersKept
<1>9. NoNewProgram'
  BY <1>2, <1>6, <1>7 DEF NoNewProgram
<1>10. ResultsThere'
  <2>1. \A k \in DOMAIN c_as : ~(k < 1)
    BY DEF PInv, TypeOK
  <2> QED BY <1>1, <1>2, <2>1 DEF ResultsThere
<1>11. CrossThere'
  <2>1. Crossed' = 0 /\ c_as' = c_as /\ xref' = xref
    BY <1>1, <1>2 DEF Crossed, xref, opts
  <2>2. Those(SubSeq(c_as, 1, 0), CFiles) = <<>>
    <3>1. SubSeq(c_as, 1, 0) = <<>>
      BY DEF PInv, TypeOK
    <3> QED BY <3>1, ThoseEmpty
  <2>3. crtmp \in DOMAIN fs' => xref' /\ \E q : fs'[crtmp] = Content("crf", q)
    BY <1>5, <1>6, <2>1
  <2>4. xref' => crtmp \in DOMAIN fs' /\ fs'[crtmp] = Content("crf", Those(SubSeq(c_as', 1, Crossed'), CFiles))
    BY <1>5, <1>6, <2>1, <2>2
  <2> QED BY <2>3, <2>4 DEF CrossThere, Exists
<1>12. TempsThere'
  BY <1>2, <1>4, <1>6 DEF TempsThere, Late, Exists
<1>13. LinkedThere' /\ ListingThere' /\ OutNamed'
  BY <1>2 DEF LinkedThere, ListingThere, OutNamed
<1>14. BuiltFromSources'
  <2>1. TakesItsInput'
    BY <1>2 DEF TakesItsInput
  <2>2. pc' \in Early
    BY <1>2 DEF Early
  <2>3. LinkedFromSources'
    BY <1>9, <2>2 DEF NoNewProgram, LinkedFromSources
  <2> QED BY <2>1, <2>3 DEF BuiltFromSources
<1>15. InputsKept'
  BY <1>2, <1>6 DEF InputsKept, Exists
<1> QED BY <1>8, <1>9, <1>10, <1>11, <1>12, <1>13, <1>14, <1>15 DEF FilesRight

\* A step after the loop leaves things as they are where they are not touched.
LEMMA ResultsStay ==
  ASSUME PInv, Fit, FilesRight, UNCHANGED doitKeeps, build # 0, src' = src, nerrs' = 0 => nerrs = 0,
         pc \in Early \cup {"xref"}, pc' \in {"link", "xref", "exit"}, pc = "xref" => stops \/ keep,
         pc' \in {"xref", "exit"} /\ ~(stops \/ keep) => nerrs' # 0,
         ~dryRun /\ nerrs' = 0 =>
           \A k \in DOMAIN c_as : LET n == Result(c_as[k]).name
                                  IN n \in DOMAIN fs => n \in DOMAIN fs' /\ fs'[n] = fs[n]
  PROVE  ResultsThere'
<1>1. UNCHANGED <<stops, dryRun, c_as>>
  BY FlagsKept
<1>2. SUFFICES ASSUME nerrs' = 0, ~dryRun, NEW k \in DOMAIN c_as, k < src, c_as[k].ext = "c" \/ ~stops,
                      NEW h, h = c_as[k]
               PROVE  HasResult(h)'
  BY <1>1 DEF ResultsThere, HasResult, Exists, Result, Kept
<1>3. HasResult(h)
  BY <1>2 DEF FilesRight, ResultsThere, Early
<1>4. Result(h)' = Result(h)
  BY DerivedKept
<1>5. Result(h).name \in DOMAIN fs' /\ fs'[Result(h).name] = fs[Result(h).name]
  BY <1>2, <1>3 DEF HasResult, Exists
<1> QED BY <1>3, <1>4, <1>5 DEF HasResult, Exists

LEMMA CrossStays ==
  ASSUME PInv, FilesRight, UNCHANGED doitKeeps, build # 0, src' = src, nerrs' = 0 => nerrs = 0,
         pc \in {"source"} \cup Late \cup {"link"}, pc' \in Late \cup {"link", "exit"},
         crtmp \in DOMAIN fs' <=> crtmp \in DOMAIN fs, crtmp \in DOMAIN fs => fs'[crtmp] = fs[crtmp]
  PROVE  CrossThere'
<1>1. UNCHANGED <<dryRun, keepi, xref, c_as, build>>
  BY FlagsKept
<1>2. pc' # "exit" => Crossed' = Crossed
  BY DEF Crossed, Late
<1>3. crtmp \in DOMAIN fs' => xref /\ \E q : fs'[crtmp] = Content("crf", q)
  BY DEF FilesRight, CrossThere, Exists
<1>4. ASSUME nerrs' = 0, ~dryRun, xref, ~keepi, pc' \in Early \cup Late
      PROVE  crtmp \in DOMAIN fs' /\ fs'[crtmp] = Content("crf", Those(SubSeq(c_as, 1, Crossed'), CFiles))
  <2>1. crtmp \in DOMAIN fs /\ fs[crtmp] = Content("crf", Those(SubSeq(c_as, 1, Crossed), CFiles))
    BY <1>4 DEF FilesRight, CrossThere, Exists, Early, Late
  <2>2. pc' # "exit"
    BY <1>4 DEF Early, Late
  <2> QED BY <1>2, <2>1, <2>2
<1> QED BY <1>1, <1>3, <1>4 DEF CrossThere, Exists

\* Files put in their place stay programs made of the sources.
LEMMA LinkedStays ==
  ASSUME FilesRight, UNCHANGED doitKeeps,
         \A f \in DOMAIN fs' : \/ f \in DOMAIN fs /\ fs'[f] = fs[f]
                               \/ fs'[f].kind # "com"
                               \/ fs'[f].of = Parts /\ fs'[f].libs = Append(UserLibs, Lib(targets[build].clib))
  PROVE  LinkedFromSources'
<1>1. Sources' = Sources /\ UserLibs' = UserLibs /\ UNCHANGED <<start, build>> /\ \A f : Made(f)' = Made(f)
  BY DerivedKept, FlagsKept
<1>2. Parts' = Parts
  BY <1>1 DEF Parts, Made, Content
<1>3. ASSUME NEW f \in DOMAIN fs', fs'[f].kind = "com", f \in DOMAIN start => fs'[f] # start[f]
      PROVE  fs'[f].of = Parts /\ fs'[f].libs = Append(UserLibs, Lib(targets[build].clib))
  BY <1>3 DEF FilesRight, BuiltFromSources, LinkedFromSources, Parts
<1> QED BY <1>1, <1>2, <1>3 DEF LinkedFromSources, Parts

\* Files that zc was given stay.
LEMMA InputsStay ==
  ASSUME InputsKept, UNCHANGED doitKeeps, outfile' = outfile,
         \A f \in DOMAIN start : f \in DOMAIN fs =>
            \/ f \in DOMAIN fs' /\ fs'[f] = fs[f]
            \/ f = outfile \/ f \in {Here(c_as[i], "obj") : i \in DOMAIN c_as} \/ (xref /\ f = Listing)
  PROVE  InputsKept'
<1>1. UNCHANGED <<start, c_as, asmlst, xref>> /\ CSources' = CSources /\ Listing' = Listing
      /\ \A f : Kept(f)' = Kept(f)
  BY FlagsKept, DerivedKept
<1>2. ASSUME NEW f \in DOMAIN start
      PROVE  \/ f \in DOMAIN fs' /\ fs'[f] = start[f]
             \/ f \in {Here(c_as[i], "obj") : i \in DOMAIN c_as} \cup {outfile}
             \/ f \in {Kept(CSources[i]).name : i \in DOMAIN CSources}
             \/ asmlst /\ f \in {Here(CSources[i], "as") : i \in DOMAIN CSources}
             \/ xref /\ f = Listing
  BY DEF InputsKept, Exists
<1> QED BY <1>1, <1>2 DEF InputsKept, Exists

LEMMA CleanupRight == ASSUME PInv, Fit, FilesRight, Cleanup PROVE FilesRight'
<1>1. pc = "source" /\ src > Len(c_as) /\ UNCHANGED <<doitKeeps, outfile, nerrs, src>> /\ build # 0
  <2>1. build # 0
    BY CleanupInv
  <2> QED BY <2>1 DEF Cleanup, doitKeeps
<1>2. UNCHANGED <<keepi, keepp1, keepas, keep, dryRun, stops, hex, xref>> /\ UNCHANGED <<c_as, build, start, xrname>>
  BY <1>1, FlagsKept
<1>3. pc' = IF stops THEN "exit" ELSE IF keep \/ nerrs # 0 THEN "xref" ELSE "link"
  BY <1>1 DEF Cleanup, stops
<1>4. /\ DOMAIN fs' \subseteq DOMAIN fs
      /\ \A f \in DOMAIN fs : f \notin {tmpf1, tmpf2, tmpf3} => f \in DOMAIN fs'
      /\ \A f \in DOMAIN fs' : fs'[f] = fs[f]
      /\ ~dryRun => {tmpf1, tmpf2, tmpf3} \cap DOMAIN fs' = {}
  <2>1. fs' = Rm(fs, {tmpf1, tmpf2, tmpf3})
    BY DEF Cleanup
  <2>2. PICK gone : gone = {tmpf1, tmpf2, tmpf3}
    OBVIOUS
  <2>3. /\ dryRun => Rm(fs, gone) = fs
        /\ ~dryRun => /\ DOMAIN Rm(fs, gone) = DOMAIN fs \ gone
                      /\ \A n \in DOMAIN fs \ gone : Rm(fs, gone)[n] = fs[n]
    BY RmFacts
  <2> QED BY <2>1, <2>2, <2>3
<1>5. \A f \in DOMAIN fs \cup DOMAIN fs' : f.dir # "tmp" => f \in DOMAIN fs /\ f \in DOMAIN fs' /\ fs'[f] = fs[f]
  BY <1>4, TmpsApart
<1>6. OthersKept'
  <2>1. Outputs' = Outputs
    BY <1>1, DerivedKept
  <2>2. ASSUME NEW f \in DOMAIN fs' \cup DOMAIN start, f.dir # "tmp", f \notin Outputs
        PROVE  f \in DOMAIN fs' /\ f \in DOMAIN start /\ fs'[f] = start[f]
    <3>1. f \in DOMAIN fs /\ f \in DOMAIN start /\ fs[f] = start[f]
      BY <1>1, <1>4, <2>2 DEF FilesRight, OthersKept, Early
    <3> QED BY <1>5, <2>2, <3>1
  <2> QED BY <1>2, <2>1, <2>2 DEF OthersKept
<1>7. NoNewProgram'
  BY <1>1, <1>2, <1>4 DEF FilesRight, NoNewProgram, Early
<1>8. ResultsThere'
  <2>1. ASSUME NEW k \in DOMAIN c_as, NEW n, n = Result(c_as[k]).name, n \in DOMAIN fs PROVE n \in DOMAIN fs' /\ fs'[n] = fs[n]
    <3>1. n \in MadeFor(c_as[k])
      BY <2>1, WritesMade
    <3>2. n.dir # "tmp"
      BY <3>1, SourceFits
    <3> QED BY <1>5, <2>1, <3>2
  <2> QED BY <1>1, <1>3, <2>1, ResultsStay DEF Early
<1>9. CrossThere'
  <2>1. crtmp \notin {tmpf1, tmpf2, tmpf3}
    BY TmpsApart
  <2> QED BY <1>1, <1>3, <1>4, <2>1, CrossStays DEF Late
<1>10. LinkedThere' /\ ListingThere' /\ OutNamed'
  BY <1>1, <1>2, <1>3 DEF LinkedThere, ListingThere, OutNamed
<1>11. TempsThere'
  <2>1. l_dot_obj \notin DOMAIN fs'
    BY <1>1, <1>4 DEF FilesRight, TempsThere, Exists, Early
  <2> QED BY <1>2, <1>3, <1>4, <2>1 DEF TempsThere, Exists
<1>12. BuiltFromSources'
  <2>1. TakesItsInput'
    BY <1>3 DEF TakesItsInput
  <2>2. LinkedFromSources'
    BY <1>1, <1>4, LinkedStays
  <2> QED BY <2>1, <2>2 DEF BuiltFromSources
<1>13. InputsKept'
  <2>1. \A f \in DOMAIN start : f.dir # "tmp"
    BY DEF Fit, DiskFits
  <2>2. InputsKept
    BY DEF FilesRight
  <2> QED BY <1>1, <1>5, <2>1, <2>2, InputsStay
<1> QED BY <1>6, <1>7, <1>8, <1>9, <1>10, <1>11, <1>12, <1>13 DEF FilesRight

\* The program's name is none of a temporary file, of what the stages make, or of the listing.
LEMMA OutputFits ==
  ASSUME PInv, Fit, build # 0, pc \in Early
  PROVE  OutApart(Output)
<1>0. SUFFICES Output.dir # "tmp" /\ Output \notin Outputs /\ (xref /\ xrname # "" => Output # Listing)
  BY DEF OutApart
<1>1. build \in 1..9 /\ outfile \in Name /\ objs \in Seq(Name) /\ objs # <<>> /\ argv \in Seq(Arg)
      /\ argi \in 1..(Len(argv) + 1)
  BY NamesAreNames DEF PInv, TypeOK
<1>2. PICK e : e = targets[build].ext
  OBVIOUS
<1>3. e \in {"com", ""}
  <2> DEFINE Good(i) == targets[i].ext \in {"com", ""}
  <2>1. Good(1) /\ Good(2) /\ Good(3) /\ Good(4) /\ Good(5)
    BY Zenon DEF targets, Target
  <2>2. Good(6) /\ Good(7) /\ Good(8) /\ Good(9)
    BY Zenon DEF targets, Target
  <2> HIDE DEF Good
  <2>3. Good(build)
    BY <1>1, <2>1, <2>2
  <2> QED BY <1>2, <2>3 DEF Good
<1>4. \A f \in Outputs : f.ext \in {"obj", "i", "p1", "as"} /\ f \notin OutAsked
  BY SourceFits DEF Outputs
<1>5. xref => /\ Listing.base = xrname
              /\ \A j \in DOMAIN argv : argv[j].o \in {"file", "Oname"} => argv[j].val.base # xrname
  <2>1. Listing.base = xrname
    BY DEF Listing, File
  <2>2. ASSUME xref, NEW j \in DOMAIN argv, argv[j].o \in {"file", "Oname"} PROVE argv[j].val.base # xrname
    <3>1. PICK i \in DOMAIN argv : argv[i].o = "CR" /\ argv[i].val = xrname
      BY <2>2 DEF PInv, OptionsSeen
    <3> QED BY <2>2, <3>1 DEF Fit, NamesApart
  <2> QED BY <2>1, <2>2
<1>6. CASE outfile # None
  <2>1. outfile \in OutAsked /\ Output = outfile
    BY <1>6 DEF PInv, OptionsSeen, Early, Output
  <2>2. outfile.dir # "tmp"
    BY <2>1 DEF Fit, NamesApart
  <2>3. PICK j \in DOMAIN argv : argv[j].o = "Oname" /\ argv[j].val = outfile
    BY <2>1 DEF OutAsked
  <2> QED BY <1>4, <1>5, <2>1, <2>2, <2>3
<1>7. CASE outfile = None /\ Len(objs) = 1
  <2>1. Output = File("", "", e)
    BY <1>2, <1>7 DEF Output
  <2>2. Output.dir = "" /\ Output.base = "" /\ Output.ext = e
    BY <2>1 DEF File
  <2> QED BY <1>3, <1>4, <1>5, <2>2
<1>8. CASE outfile = None /\ Len(objs) # 1
  <2>1. Output = WithExt(objs[2], e)
    BY <1>2, <1>8 DEF Output
  <2>2. PICK q \in Seq(FileArgs) : /\ q = SeenFiles /\ Len(objs) = Len(q) + 1
                                   /\ \A i \in DOMAIN q : objs[i + 1] = ObjOf(q[i].val) /\ q[i].val \in Given
    BY <1>1, SeenTyped DEF PInv, ObjsSeen
  <2>3. 1 \in DOMAIN q
    BY <1>8, <2>2
  <2>4. PICK v : v = q[1].val
    OBVIOUS
  <2>5. objs[2] = ObjOf(v) /\ v \in Given
    BY <2>2, <2>3, <2>4
  <2>6. PICK j \in DOMAIN argv : argv[j].o = "file" /\ argv[j].val = v
    BY <2>5 DEF Given
  <2>7. v \in Name /\ v.dir # "tmp"
    <3>1. argv[j] \in Arg
      BY <1>1
    <3> QED BY <2>5, <2>6, <3>1 DEF Arg, Fit, NamesApart
  <2>8. ObjOf(v) \in Name /\ ObjOf(v).dir # "tmp" /\ ObjOf(v).base = v.base
    BY <2>7, NameParts, NamesAreNames, Literals DEF ObjOf
  <2>9. Output.dir # "tmp" /\ Output.base = v.base /\ Output.ext = e
    <3>1. PICK n \in Name : n = ObjOf(v)
      BY <2>8
    <3>2. WithExt(n, e).dir = n.dir /\ WithExt(n, e).base = n.base /\ WithExt(n, e).ext = e
      BY NameParts
    <3> QED BY <2>1, <2>5, <2>8, <3>1, <3>2
  <2> QED BY <1>3, <1>4, <1>5, <2>6, <2>9
<1> QED BY <1>6, <1>7, <1>8

\* a sequence from its first element and the rest
LEMMA ConsIs ==
  ASSUME NEW X, NEW q \in Seq(X), NEW c
  PROVE  <<c>> \o q = [i \in 1..(Len(q) + 1) |-> IF i = 1 THEN c ELSE q[i - 1]]
<1>1. PICK n \in Nat : n = Len(q)
  OBVIOUS
<1> QED BY <1>1

\* The libraries that link is given.
LEMMA LibsIs ==
  ASSUME PInv, build # 0
  PROVE  libs = Append(UserLibs, Lib(targets[build].clib))
<1>1. argi = Len(argv) + 1 /\ argv \in Seq(Arg) /\ argi \in 1..(Len(argv) + 1)
  BY DEF PInv, TypeOK, Stages
<1>2. Seen = argv
  <2>1. SubSeq(argv, 1, Len(argv)) = argv
    BY <1>1
  <2>2. argi - 1 = Len(argv)
    BY <1>1
  <2> QED BY <2>1, <2>2 DEF Seen
<1>3. PICK x \in Seq(LibArgs) : x = SeenLibs
  BY <1>1, SeenTyped
<1>4. PICK u : u = [i \in DOMAIN x |-> Lib(x[i].val)]
  OBVIOUS
<1>5. u \in Seq({Lib(x[i].val) : i \in DOMAIN x})
  BY <1>4
<1>6. PICK w : w = Lib(targets[build].clib)
  OBVIOUS
<1>7. libs = u \o <<w>>
  BY <1>3, <1>4, <1>6 DEF PInv, LibsSeen, Placed
<1>8. UserLibs = u
  BY <1>2, <1>3, <1>4 DEF UserLibs, SeenLibs, LibArgs
<1> QED BY <1>5, <1>6, <1>7, <1>8

\* What link is given when it can be linked.
LEMMA LinkedIs ==
  ASSUME PInv, Fit, FilesRight, pc = "link", ~dryRun
  PROVE  /\ Linkable => [i \in DOMAIN objs |-> fs[objs[i]]] = Parts
         /\ libs = Append(UserLibs, Lib(targets[build].clib))
<1>1. /\ build # 0 /\ argi = Len(argv) + 1 /\ argv \in Seq(Arg) /\ objs \in Seq(Name) /\ ~stops /\ ~keep
      /\ src = Len(c_as) + 1 /\ nerrs = 0 /\ argi \in 1..(Len(argv) + 1) /\ build \in 1..9
  BY NamesAreNames DEF PInv, TypeOK, Stages, Late
<1>2. Seen = argv
  <2>1. SubSeq(argv, 1, Len(argv)) = argv
    BY <1>1
  <2>2. argi - 1 = Len(argv)
    BY <1>1
  <2> QED BY <2>1, <2>2 DEF Seen
<1>3. Sources = SeenFiles
  BY <1>2 DEF Sources, SeenFiles, FileArgs
<1>4. PICK q \in Seq(FileArgs) : /\ q = SeenFiles /\ Len(objs) = Len(q) + 1 /\ objs[1] = targets[build].crt
                                 /\ \A i \in DOMAIN q : objs[i + 1] = ObjOf(q[i].val) /\ q[i].val \in Given
  BY <1>1, SeenTyped DEF PInv, ObjsSeen
<1>5. libs = Append(UserLibs, Lib(targets[build].clib))
  BY <1>1, LibsIs
<1>6. ASSUME Linkable PROVE [i \in DOMAIN objs |-> fs[objs[i]]] = Parts
  <2>1. \A i \in DOMAIN objs : objs[i] \in DOMAIN fs /\ fs[objs[i]].kind \in {"obj", "objopt"}
    BY <1>6 DEF Linkable, Exists
  <2>2. PICK m : m = [i \in DOMAIN q |-> Made(q[i].val)]
    OBVIOUS
  <2>3. m \in Seq({Made(q[i].val) : i \in DOMAIN q}) /\ Len(m) = Len(q) /\ DOMAIN m = DOMAIN q
    BY <2>2
  <2>4. PICK c, t : c = Content("obj", t) /\ t = targets[build].crt
    OBVIOUS
  <2>5. PICK h : h = [i \in DOMAIN objs |-> fs[objs[i]]]
    OBVIOUS
  <2>6. h = [i \in 1..(Len(m) + 1) |-> h[i]]
    BY <1>1, <1>4, <2>3, <2>5
  <2>7. \A f \in DOMAIN fs : f.dir # "tmp" /\ f \notin Outputs => f \in DOMAIN start /\ fs[f] = start[f]
    BY DEF FilesRight, OthersKept, Early
  <2>8. h[1] = c
    <3>1. 1 \in DOMAIN objs
      BY <1>1, <1>4
    <3>2. t \in DOMAIN fs /\ fs[t].kind \in {"obj", "objopt"} /\ h[1] = fs[t]
      BY <1>4, <2>1, <2>4, <2>5, <3>1
    <3>3. t.dir = "lib80" /\ t.ext = "obj"
      <4> DEFINE Good(i) == \E n : targets[i].crt = Crt(n)
      <4>1. Good(1) /\ Good(2) /\ Good(3) /\ Good(4) /\ Good(5)
        BY Zenon DEF targets, Target
      <4>2. Good(6) /\ Good(7) /\ Good(8) /\ Good(9)
        BY Zenon DEF targets, Target
      <4> HIDE DEF Good
      <4>3. Good(build)
        BY <1>1, <4>1, <4>2
      <4> QED BY <2>4, <4>3 DEF Good, Crt, File
    <3>4. t \notin Outputs
      <4>1. ASSUME NEW k \in DOMAIN c_as, t \in MadeFor(c_as[k]) PROVE FALSE
        <5>1. PICK g : g = c_as[k] /\ g \in Name
          BY SourceFits
        <5>2. t \in {Here(g, "obj"), WithExt(g, "i"), Here(g, "p1"), Here(g, "as")}
          BY <4>1, <5>1 DEF MadeFor
        <5>3. \A e : Here(g, e).dir = ""
          BY NameParts
        <5>4. WithExt(g, "i").ext = "i"
          BY <5>1, NameParts
        <5> QED BY <3>3, <5>2, <5>3, <5>4
      <4> QED BY <4>1 DEF Outputs
    <3>5. t \in DOMAIN start /\ fs[t] = start[t]
      BY <2>7, <3>2, <3>3, <3>4
    <3>6. PICK b \in DOMAIN targets : t = targets[b].crt
      <4>1. DOMAIN targets = 1..9
        BY DEF targets
      <4> QED BY <1>1, <2>4, <4>1
    <3> QED BY <2>4, <3>2, <3>5, <3>6 DEF Fit, DiskFits
  <2>9. ASSUME NEW i \in DOMAIN m PROVE h[i + 1] = m[i]
    <3>1. i \in DOMAIN q /\ i + 1 \in DOMAIN objs
      BY <1>1, <1>4, <2>3
    <3>2. PICK v : v = q[i].val
      OBVIOUS
    <3>3. v \in Given /\ objs[i + 1] = ObjOf(v) /\ m[i] = Made(v)
      BY <1>4, <2>2, <3>1, <3>2
    <3>4. h[i + 1] = fs[ObjOf(v)] /\ ObjOf(v) \in DOMAIN fs
      BY <2>1, <2>5, <3>1, <3>3
    <3>5. CASE IsSource(v)
      <4>1. PICK k \in DOMAIN c_as : c_as[k] = v
        BY <1>4, <3>1, <3>2, <3>5 DEF PInv, SourcesSeen
      <4>2. k < src
        BY <1>1, <4>1 DEF PInv, TypeOK
      <4>3. HasResult(v)
        BY <1>1, <4>1, <4>2 DEF FilesRight, ResultsThere, Early
      <4>4. Result(v).name = Here(v, "obj") /\ Made(v) = Content(Result(v).kind, v)
        BY <1>1, <3>5 DEF Result, Kept, Made, IsSource, stops
      <4> QED BY <3>3, <3>4, <3>5, <4>3, <4>4 DEF HasResult, ObjOf
    <3>6. CASE ~IsSource(v)
      <4>1. v.dir # "tmp"
        BY <3>3 DEF Fit, NamesApart
      <4>2. v \notin Outputs
        BY <3>3, SourceFits DEF Outputs
      <4>3. fs[v] = start[v]
        BY <2>7, <3>4, <3>6, <4>1, <4>2 DEF ObjOf
      <4>4. Made(v) = start[v]
        BY <3>6 DEF Made, IsSource
      <4> QED BY <3>3, <3>4, <3>6, <4>3, <4>4 DEF ObjOf
    <3> QED BY <3>5, <3>6
  <2>10. h = <<c>> \o m
    <3>1. PICK X : m \in Seq(X)
      BY <2>3
    <3>2. PICK n : n = Len(m) + 1 /\ <<c>> \o m = [i \in 1..n |-> IF i = 1 THEN c ELSE m[i - 1]]
      BY <3>1, ConsIs
    <3>3. ASSUME NEW i \in 1..n PROVE h[i] = IF i = 1 THEN c ELSE m[i - 1]
      <4>1. CASE i = 1
        BY <2>8, <4>1
      <4>2. CASE i # 1
        <5>1. Len(m) \in Nat /\ DOMAIN m = 1..Len(m)
          BY <2>3
        <5>2. i - 1 \in DOMAIN m /\ (i - 1) + 1 = i
          BY <3>2, <4>2, <5>1
        <5>3. h[(i - 1) + 1] = m[i - 1]
          BY <2>9, <5>2
        <5> QED BY <4>2, <5>2, <5>3
      <4> QED BY <4>1, <4>2
    <3>4. h = [i \in 1..n |-> h[i]]
      BY <2>6, <3>2
    <3> QED BY <3>2, <3>3, <3>4
  <2>11. Parts = <<c>> \o m
    BY <1>3, <1>4, <2>2, <2>4 DEF Parts
  <2> QED BY <2>5, <2>10, <2>11
<1> QED BY <1>5, <1>6

LEMMA LinkRight == ASSUME PInv, Fit, FilesRight, Link PROVE FilesRight'
<1>1. pc = "link" /\ outfile' = Output /\ UNCHANGED doitKeeps /\ src' = src /\ build # 0
  <2>1. build # 0
    BY LinkInv
  <2> QED BY <2>1 DEF Link, doitKeeps
<1>2. /\ UNCHANGED <<keepi, keepp1, keepas, keep, dryRun, stops, hex, xref, asmlst>>
      /\ UNCHANGED <<c_as, build, start, xrname, objs>>
  BY <1>1, FlagsKept
<1>3. ~stops /\ ~keep /\ nerrs = 0
  BY <1>1 DEF PInv, Stages
<1>4. PICK r \in Run(Linkable, LinkOutput, Linked) :
       /\ fs' = r.files
       /\ nerrs' = IF r.ok THEN nerrs ELSE nerrs + 1
       /\ pc' = IF r.ok /\ hex THEN "objtohex" ELSE "single"
  BY DEF Link
<1>5. PICK out : out = LinkOutput
  OBVIOUS
<1>6. OutApart(Output) /\ Output.dir # "tmp" /\ Output \notin Outputs
  BY <1>1, OutputFits DEF Early, OutApart
<1>7. out = (IF hex THEN l_dot_obj ELSE Output) /\ out \notin Temps
  <2>1. l_dot_obj \notin Temps /\ \A f \in Temps : f.dir = "tmp"
    BY TmpsApart DEF Temps
  <2> QED BY <1>5, <1>6, <2>1 DEF LinkOutput
<1>8. PICK made : /\ made = Linked /\ made.kind = (IF hex THEN "rel" ELSE "com") /\ made.libs = libs
                  /\ made.of = [i \in DOMAIN objs |-> fs[objs[i]]]
                  /\ made = [kind |-> made.kind, of |-> made.of, libs |-> made.libs]
  <2>1. PICK k, o, l : k = (IF hex THEN "rel" ELSE "com") /\ o = [i \in DOMAIN objs |-> fs[objs[i]]] /\ l = libs
    OBVIOUS
  <2>2. Linked = [kind |-> k, of |-> o, libs |-> l]
    BY <2>1 DEF Linked
  <2>3. PICK made : made = [kind |-> k, of |-> o, libs |-> l]
    OBVIOUS
  <2>4. made.kind = k /\ made.of = o /\ made.libs = l
    BY <2>3
  <2> QED BY <2>1, <2>2, <2>3, <2>4
<1>9. /\ \A f : f # out => (f \in DOMAIN fs' <=> f \in DOMAIN fs)
      /\ \A f \in DOMAIN fs : f # out => fs'[f] = fs[f]
      /\ r.ok /\ ~dryRun => Linkable /\ out \in DOMAIN fs' /\ fs'[out] = made
      /\ out \in DOMAIN fs' => \/ out \in DOMAIN fs /\ fs'[out] = fs[out]
                               \/ fs'[out] = made /\ ~dryRun /\ Linkable
                               \/ fs'[out] = Junk
      /\ dryRun => r.ok /\ fs' = fs
  <2>1. PICK good : r \in Run(good, out, made) /\ good = Linkable
    BY <1>4, <1>5, <1>8
  <2>2. /\ \A f : f # out => (f \in DOMAIN r.files <=> f \in DOMAIN fs)
        /\ \A f \in DOMAIN fs : f # out => r.files[f] = fs[f]
        /\ r.ok /\ ~dryRun => good /\ out \in DOMAIN r.files /\ r.files[out] = made
        /\ out \in DOMAIN r.files => \/ out \in DOMAIN fs /\ r.files[out] = fs[out]
                                     \/ r.files[out] = made /\ good
                                     \/ r.files[out] = Junk
        /\ r.ok \in BOOLEAN /\ (dryRun => r.ok /\ r.files = fs)
    BY <2>1, RunWrote
  <2> QED BY <1>4, <2>1, <2>2
<1>10. nerrs' = 0 => r.ok
  <2>1. r.ok \in BOOLEAN
    BY RunFacts
  <2> QED BY <1>3, <1>4, <2>1
<1>11. ~dryRun => (Linkable => made.of = Parts) /\ libs = Append(UserLibs, Lib(targets[build].clib))
  BY <1>1, <1>8, LinkedIs
<1>12. pc' \in {"objtohex", "single"} /\ (pc' = "objtohex" => r.ok /\ hex) /\ (r.ok /\ hex => pc' = "objtohex")
  BY <1>4
<1>13. OthersKept' /\ NoNewProgram' /\ ResultsThere' /\ ListingThere' /\ TakesItsInput'
  BY <1>12 DEF OthersKept, NoNewProgram, ResultsThere, ListingThere, TakesItsInput, Early
<1>14. CrossThere'
  <2>1. crtmp # out
    BY <1>7 DEF Temps
  <2> QED BY <1>1, <1>3, <1>9, <1>12, <2>1, CrossStays DEF Late
<1>15. Parts' = Parts
  <2>1. Sources' = Sources /\ \A f : Made(f)' = Made(f)
    BY <1>1, DerivedKept
  <2> QED BY <1>2, <2>1 DEF Parts, Made, Content
<1>16. LinkedThere'
  <2>1. ASSUME pc' = "objtohex", ~dryRun
        PROVE  l_dot_obj \in DOMAIN fs' /\ fs'[l_dot_obj] = [kind |-> "rel", of |-> Parts, libs |-> libs]
    BY <1>7, <1>8, <1>9, <1>11, <1>12, <2>1
  <2>2. ASSUME pc' = "single", ~dryRun, nerrs' = 0
        PROVE  Output \in DOMAIN fs' /\ fs'[Output].kind = "com"
    BY <1>7, <1>8, <1>9, <1>10, <1>12, <2>2
  <2>3. libs' = libs
    BY <1>1, FlagsKept
  <2>4. pc' = "objtohex" /\ ~dryRun' => Exists(l_dot_obj)' /\ fs'[l_dot_obj] = [kind |-> "rel", of |-> Parts', libs |-> libs']
    BY <1>2, <1>15, <2>1, <2>3 DEF Exists
  <2>5. pc' = "single" /\ nerrs' = 0 /\ ~dryRun' => Holds(outfile, "com")'
    BY <1>1, <1>2, <2>2 DEF Holds, Exists
  <2> QED BY <1>12, <2>4, <2>5 DEF LinkedThere
<1>17. OutNamed'
  <2>1. outfile' = Output' /\ outfile' = Output
    BY <1>1, <1>2 DEF Output
  <2>2. OutApart(outfile)' <=> OutApart(Output)
    <3>1. Outputs' = Outputs /\ Listing' = Listing
      BY <1>1, DerivedKept
    <3> QED BY <1>1, <1>2, <3>1 DEF OutApart
  <2> QED BY <1>6, <2>1, <2>2 DEF OutNamed
<1>18. TempsThere'
  <2>1. {tmpf1, tmpf2, tmpf3} \subseteq Temps
    BY DEF Temps
  <2>2. ~dryRun => {tmpf1, tmpf2, tmpf3} \cap DOMAIN fs' = {}
    BY <1>1, <1>7, <1>9, <2>1 DEF FilesRight, TempsThere
  <2>3. l_dot_obj \notin DOMAIN fs
    BY <1>1 DEF FilesRight, TempsThere, Early, Exists
  <2>4. l_dot_obj \in DOMAIN fs' /\ ~dryRun => pc' = "objtohex" \/ nerrs' # 0
    <3>1. l_dot_obj \in DOMAIN fs' => out = l_dot_obj
      BY <1>9, <2>3
    <3>2. l_dot_obj.dir = "tmp"
      BY TmpsApart
    <3>3. l_dot_obj \in DOMAIN fs' => hex
      BY <1>6, <1>7, <3>1, <3>2
    <3> QED BY <1>10, <1>12, <3>3
  <2> QED BY <1>2, <1>12, <2>2, <2>4 DEF TempsThere, Exists, Early
<1>19. LinkedFromSources'
  <2>1. ASSUME NEW f \in DOMAIN fs'
        PROVE  \/ f \in DOMAIN fs /\ fs'[f] = fs[f]
               \/ fs'[f].kind # "com"
               \/ fs'[f].of = Parts /\ fs'[f].libs = Append(UserLibs, Lib(targets[build].clib))
    <3>1. CASE f # out
      BY <1>9, <3>1
    <3>2. CASE f = out
      BY <1>8, <1>9, <1>11, <3>2, Kinds
    <3> QED BY <3>1, <3>2
  <2> QED BY <1>1, <2>1, LinkedStays
<1>20. InputsKept'
  <2>1. CSources' = CSources /\ Listing' = Listing /\ \A f : Kept(f)' = Kept(f)
    BY <1>1, DerivedKept
  <2>2. outfile \notin Outputs
    <3>1. outfile = None \/ outfile \in OutAsked
      BY <1>1 DEF PInv, OptionsSeen
    <3>2. \A f \in Outputs : f.ext \in {"obj", "i", "p1", "as"} /\ f \notin OutAsked
      BY SourceFits DEF Outputs
    <3>3. None.ext = ""
      BY DEF None, File
    <3> QED BY <3>1, <3>2, <3>3
  <2>3. ASSUME NEW f \in DOMAIN start
        PROVE  \/ f \in DOMAIN fs' /\ fs'[f] = start[f]
               \/ f \in {Here(c_as[i], "obj") : i \in DOMAIN c_as} \cup {Output}
               \/ f \in {Kept(CSources[i]).name : i \in DOMAIN CSources}
               \/ asmlst /\ f \in {Here(CSources[i], "as") : i \in DOMAIN CSources}
               \/ xref /\ f = Listing
    <3>1. f.dir # "tmp"
      BY DEF Fit, DiskFits
    <3>2. f # out \/ f = Output
      BY <1>7, <3>1, TmpsApart
    <3>3. CASE f \in Outputs
      <4>1. \/ f \in DOMAIN fs /\ fs[f] = start[f]
            \/ f \in {Here(c_as[i], "obj") : i \in DOMAIN c_as}
            \/ f \in {Kept(CSources[i]).name : i \in DOMAIN CSources}
            \/ asmlst /\ f \in {Here(CSources[i], "as") : i \in DOMAIN CSources}
            \/ xref /\ f = Listing
        BY <2>2, <3>3 DEF FilesRight, InputsKept, Exists
      <4> QED BY <1>9, <3>2, <4>1
    <3>4. CASE f \notin Outputs
      <4>1. f \in DOMAIN fs /\ fs[f] = start[f]
        BY <1>1, <3>1, <3>4 DEF FilesRight, OthersKept, Early
      <4> QED BY <1>9, <3>2, <4>1
    <3> QED BY <3>3, <3>4
  <2> QED BY <1>1, <1>2, <2>1, <2>3 DEF InputsKept, Exists
<1> QED BY <1>13, <1>14, <1>16, <1>17, <1>18, <1>19, <1>20 DEF FilesRight, BuiltFromSources

LEMMA ObjtoHexRight == ASSUME PInv, Fit, FilesRight, ObjtoHex PROVE FilesRight'
<1>1. PICK r \in Run(Holds(l_dot_obj, "rel"), outfile, [fs[l_dot_obj] EXCEPT !.kind = "com"]) :
       /\ fs' = Rm(r.files, {l_dot_obj})
       /\ Doexec(r, "single")
  BY DEF ObjtoHex
<1>2. /\ pc = "objtohex" /\ UNCHANGED <<doitKeeps, outfile, src>> /\ pc' = "single" /\ build # 0
      /\ nerrs' = IF r.ok THEN nerrs ELSE nerrs + 1
  <2>1. build # 0
    BY ObjtoHexInv
  <2> QED BY <1>1, <2>1 DEF ObjtoHex, Doexec, doitKeeps
<1>3. /\ UNCHANGED <<keepi, keepp1, keepas, keep, dryRun, stops, hex, xref, asmlst>>
      /\ UNCHANGED <<c_as, build, start, xrname, objs>>
  BY <1>2, FlagsKept
<1>4. outfile = Output /\ OutApart(outfile)
  BY <1>2 DEF FilesRight, OutNamed
<1>5. outfile.dir # "tmp"
  BY <1>4 DEF OutApart
<1>6. nerrs' = 0 => r.ok /\ nerrs = 0
  <2>1. r.ok \in BOOLEAN /\ nerrs \in Nat
    BY RunFacts DEF PInv, TypeOK
  <2> QED BY <1>2, <2>1
<1>7. PICK made : /\ r \in Run(Holds(l_dot_obj, "rel"), outfile, made)
                  /\ ~dryRun => made.kind = "com" /\ made.of = Parts /\ made.libs = libs
  <2>1. PICK p, l : p = Parts /\ l = libs
    OBVIOUS
  <2>2. ~dryRun => fs[l_dot_obj] = [kind |-> "rel", of |-> p, libs |-> l]
    BY <1>2, <2>1 DEF FilesRight, LinkedThere
  <2>3. PICK made : made = [fs[l_dot_obj] EXCEPT !.kind = "com"]
    OBVIOUS
  <2>4. ~dryRun => made = [kind |-> "com", of |-> p, libs |-> l]
    BY <2>2, <2>3
  <2>5. ~dryRun => made.kind = "com" /\ made.of = p /\ made.libs = l
    BY <2>4
  <2> QED BY <1>1, <2>1, <2>3, <2>5
<1>8. /\ \A f : f # outfile => (f \in DOMAIN r.files <=> f \in DOMAIN fs)
      /\ \A f \in DOMAIN fs : f # outfile => r.files[f] = fs[f]
      /\ r.ok /\ ~dryRun => outfile \in DOMAIN r.files /\ r.files[outfile] = made
      /\ outfile \in DOMAIN r.files => \/ outfile \in DOMAIN fs /\ r.files[outfile] = fs[outfile]
                                       \/ r.files[outfile] = made
                                       \/ r.files[outfile] = Junk
      /\ dryRun => r.ok /\ r.files = fs
  <2>1. PICK good : r \in Run(good, outfile, made)
    BY <1>7
  <2>2. PICK out : out = outfile
    OBVIOUS
  <2>3. /\ \A f : f # out => (f \in DOMAIN r.files <=> f \in DOMAIN fs)
        /\ \A f \in DOMAIN fs : f # out => r.files[f] = fs[f]
        /\ r.ok /\ ~dryRun => good /\ out \in DOMAIN r.files /\ r.files[out] = made
        /\ out \in DOMAIN r.files => \/ out \in DOMAIN fs /\ r.files[out] = fs[out]
                                     \/ r.files[out] = made /\ good
                                     \/ r.files[out] = Junk
        /\ r.ok \in BOOLEAN /\ (dryRun => r.ok /\ r.files = fs)
    BY <2>1, <2>2, RunWrote
  <2> QED BY <2>2, <2>3
<1>9. /\ DOMAIN fs' \subseteq DOMAIN r.files
      /\ \A f \in DOMAIN r.files : f # l_dot_obj => f \in DOMAIN fs'
      /\ \A f \in DOMAIN fs' : fs'[f] = r.files[f]
      /\ ~dryRun => l_dot_obj \notin DOMAIN fs'
  <2>1. PICK x : x = l_dot_obj
    OBVIOUS
  <2>2. /\ dryRun => Rm(r.files, {x}) = r.files
        /\ ~dryRun => /\ DOMAIN Rm(r.files, {x}) = DOMAIN r.files \ {x}
                      /\ \A n \in DOMAIN r.files \ {x} : Rm(r.files, {x})[n] = r.files[n]
    BY RmFacts
  <2> QED BY <1>1, <2>1, <2>2
<1>10. /\ \A f \in DOMAIN fs' : f # outfile => f \in DOMAIN fs /\ fs'[f] = fs[f]
       /\ \A f \in DOMAIN fs : f # outfile /\ f # l_dot_obj => f \in DOMAIN fs' /\ fs'[f] = fs[f]
       /\ nerrs' = 0 /\ ~dryRun => outfile \in DOMAIN fs' /\ fs'[outfile] = made
  <2>1. outfile # l_dot_obj
    BY <1>5, TmpsApart
  <2> QED BY <1>6, <1>8, <1>9, <2>1
<1>11. OthersKept' /\ NoNewProgram' /\ ResultsThere' /\ ListingThere' /\ TakesItsInput'
  BY <1>2 DEF OthersKept, NoNewProgram, ResultsThere, ListingThere, TakesItsInput, Early
<1>12. crtmp # outfile /\ crtmp # l_dot_obj /\ {tmpf1, tmpf2, tmpf3, crtmp} \cap {outfile} = {}
  BY <1>5, TmpsApart DEF Temps
<1>13. CrossThere'
  <2>1. (crtmp \in DOMAIN fs' <=> crtmp \in DOMAIN fs) /\ (crtmp \in DOMAIN fs => fs'[crtmp] = fs[crtmp])
    BY <1>10, <1>12
  <2> QED BY <1>2, <1>6, <2>1, CrossStays DEF Late
<1>14. LinkedThere'
  <2>1. ~dryRun /\ nerrs' = 0 => Holds(outfile, "com")'
    BY <1>2, <1>7, <1>10 DEF Holds, Exists
  <2> QED BY <1>2, <1>3, <2>1 DEF LinkedThere
<1>15. OutNamed'
  <2>1. Output' = Output
    BY <1>2, <1>3 DEF Output
  <2>2. Outputs' = Outputs /\ Listing' = Listing
    BY <1>2, DerivedKept
  <2>3. OutApart(outfile)' <=> OutApart(outfile)
    BY <1>2, <1>3, <2>2 DEF OutApart
  <2> QED BY <1>2, <1>4, <2>1, <2>3 DEF OutNamed
<1>16. TempsThere'
  <2>1. ~dryRun => {tmpf1, tmpf2, tmpf3} \cap DOMAIN fs = {}
    BY <1>2 DEF FilesRight, TempsThere, Late
  <2>2. ~dryRun => {tmpf1, tmpf2, tmpf3} \cap DOMAIN fs' = {}
    BY <1>10, <1>12, <2>1
  <2> QED BY <1>2, <1>3, <1>9, <2>2 DEF TempsThere, Exists, Early
<1>17. LinkedFromSources'
  <2>1. ASSUME NEW f \in DOMAIN fs'
        PROVE  \/ f \in DOMAIN fs /\ fs'[f] = fs[f]
               \/ fs'[f].kind # "com"
               \/ fs'[f].of = Parts /\ fs'[f].libs = Append(UserLibs, Lib(targets[build].clib))
    <3>1. CASE f # outfile
      BY <1>10, <3>1
    <3>2. CASE f = outfile /\ ~dryRun
      <4>1. libs = Append(UserLibs, Lib(targets[build].clib))
        BY <1>2, LibsIs
      <4> QED BY <1>7, <1>8, <1>9, <3>2, <4>1, Kinds
    <3>3. CASE dryRun
      BY <1>8, <1>9, <3>3
    <3> QED BY <3>1, <3>2, <3>3
  <2> QED BY <1>2, <2>1, LinkedStays
<1>18. InputsKept'
  <2>1. \A f \in DOMAIN start : f # l_dot_obj
    BY TmpsApart DEF Fit, DiskFits
  <2>2. InputsKept
    BY DEF FilesRight
  <2> QED BY <1>2, <1>10, <2>1, <2>2, InputsStay
<1> QED BY <1>11, <1>13, <1>14, <1>15, <1>16, <1>17, <1>18 DEF FilesRight, BuiltFromSources

LEMMA RemoveSingleRight == ASSUME PInv, Fit, FilesRight, RemoveSingle PROVE FilesRight'
<1>1. pc = "single" /\ pc' = "xref" /\ UNCHANGED <<doitKeeps, outfile, nerrs, src>> /\ build # 0
  <2>1. build # 0
    BY RemoveSingleInv
  <2> QED BY <2>1 DEF RemoveSingle, doitKeeps
<1>2. /\ UNCHANGED <<keepi, keepp1, keepas, keep, dryRun, stops, hex, xref, asmlst>>
      /\ UNCHANGED <<c_as, build, start, xrname, objs>>
  BY <1>1, FlagsKept
<1>3. ~stops /\ ~keep
  BY <1>1 DEF PInv, Stages
<1>4. /\ DOMAIN fs' \subseteq DOMAIN fs
      /\ \A f \in DOMAIN fs : f \notin {Here(c_as[i], "obj") : i \in DOMAIN c_as} => f \in DOMAIN fs'
      /\ \A f \in DOMAIN fs' : fs'[f] = fs[f]
  <2>1. CASE Len(c_as) = 1 /\ nfiles = 1
    <3>1. fs' = Rm(fs, {single})
      BY <2>1 DEF RemoveSingle
    <3>2. Len(c_as) \in DOMAIN c_as /\ single = Here(c_as[Len(c_as)], "obj")
      <4>1. c_as \in Seq(Name) /\ Len(c_as) = 1
        BY <2>1 DEF PInv, TypeOK
      <4>2. Len(c_as) \in DOMAIN c_as
        BY <4>1
      <4>3. Len(<<>>) # 1
        OBVIOUS
      <4>4. c_as # <<>>
        BY <4>1, <4>3, Zenon
      <4> QED BY <4>2, <4>4 DEF PInv, SourcesSeen
    <3>3. PICK x : x = single
      OBVIOUS
    <3>4. /\ dryRun => Rm(fs, {x}) = fs
          /\ ~dryRun => /\ DOMAIN Rm(fs, {x}) = DOMAIN fs \ {x}
                        /\ \A n \in DOMAIN fs \ {x} : Rm(fs, {x})[n] = fs[n]
      BY RmFacts
    <3> QED BY <3>1, <3>2, <3>3, <3>4
  <2>2. CASE ~(Len(c_as) = 1 /\ nfiles = 1)
    BY <2>2 DEF RemoveSingle
  <2> QED BY <2>1, <2>2
<1>5. \A i \in DOMAIN c_as : Here(c_as[i], "obj") \in Outputs /\ Here(c_as[i], "obj").dir = ""
  <2> TAKE i \in DOMAIN c_as
  <2>1. PICK g : g = c_as[i]
    OBVIOUS
  <2>2. Here(g, "obj").dir = ""
    BY NameParts
  <2>3. Here(g, "obj") \in MadeFor(g)
    BY DEF MadeFor
  <2>4. MadeFor(g) \subseteq Outputs
    BY <2>1 DEF Outputs
  <2> QED BY <2>1, <2>2, <2>3, <2>4
<1>6. \A f \in DOMAIN fs : f \notin Outputs \/ f.dir = "tmp" => f \in DOMAIN fs' /\ fs'[f] = fs[f]
  BY <1>4, <1>5
<1>7. OthersKept' /\ NoNewProgram' /\ ResultsThere' /\ ListingThere' /\ TakesItsInput'
  BY <1>1, <1>2, <1>3 DEF OthersKept, NoNewProgram, ResultsThere, ListingThere, TakesItsInput, Early
<1>8. CrossThere'
  <2>1. (crtmp \in DOMAIN fs' <=> crtmp \in DOMAIN fs) /\ (crtmp \in DOMAIN fs => fs'[crtmp] = fs[crtmp])
    BY <1>4, <1>6, TmpsApart
  <2> QED BY <1>1, <2>1, CrossStays DEF Late
<1>9. outfile = Output /\ OutApart(outfile)
  BY <1>1 DEF FilesRight, OutNamed
<1>10. OutNamed'
  <2>1. Output' = Output
    BY <1>1, <1>2 DEF Output
  <2>2. Outputs' = Outputs /\ Listing' = Listing
    BY <1>1, DerivedKept
  <2>3. OutApart(outfile)' <=> OutApart(outfile)
    BY <1>1, <1>2, <2>2 DEF OutApart
  <2> QED BY <1>1, <1>9, <2>1, <2>3 DEF OutNamed
<1>11. LinkedThere'
  <2>1. nerrs = 0 /\ ~dryRun => outfile \in DOMAIN fs /\ fs[outfile].kind = "com"
    BY <1>1, <1>3 DEF FilesRight, LinkedThere, Holds, Exists
  <2>2. nerrs = 0 /\ ~dryRun => Holds(outfile, "com")'
    BY <1>1, <1>6, <1>9, <2>1 DEF OutApart, Holds, Exists
  <2> QED BY <1>1, <1>2, <2>2 DEF LinkedThere
<1>12. TempsThere'
  <2>1. ~dryRun => {tmpf1, tmpf2, tmpf3} \cap DOMAIN fs' = {} /\ (l_dot_obj \in DOMAIN fs' => nerrs # 0)
    BY <1>1, <1>4 DEF FilesRight, TempsThere, Late, Exists
  <2> QED BY <1>1, <1>2, <2>1 DEF TempsThere, Early, Exists
<1>13. LinkedFromSources'
  BY <1>1, <1>4, LinkedStays
<1>14. InputsKept'
  <2>1. InputsKept
    BY DEF FilesRight
  <2> QED BY <1>1, <1>4, <2>1, InputsStay
<1> QED BY <1>7, <1>8, <1>10, <1>11, <1>12, <1>13, <1>14 DEF FilesRight, BuiltFromSources

\* The listing has a name of its own.
LEMMA ListingApart ==
  ASSUME PInv, Fit, xref, NEW k \in DOMAIN c_as
  PROVE  Listing.dir = "" /\ Result(c_as[k]).name # Listing
<1>1. Listing.dir = "" /\ Listing.base = xrname
  BY DEF Listing, File
<1>2. PICK i \in DOMAIN argv : argv[i].o = "CR" /\ argv[i].val = xrname
  BY DEF PInv, OptionsSeen
<1>3. c_as[k] \in Given /\ \A f \in MadeFor(c_as[k]) : f.base = c_as[k].base
  BY SourceFits
<1>4. PICK j \in DOMAIN argv : argv[j].o = "file" /\ argv[j].val = c_as[k]
  BY <1>3 DEF Given
<1>5. c_as[k].base # xrname
  BY <1>2, <1>4 DEF Fit, NamesApart
<1> QED BY <1>1, <1>3, <1>5, WritesMade

LEMMA CrefRight == ASSUME PInv, Fit, FilesRight, Cref PROVE FilesRight'
<1>1. /\ pc = "xref" /\ pc' = "exit" /\ UNCHANGED <<doitKeeps, outfile, src>> /\ build # 0
      /\ \/ xref /\ xrname # "" /\ \E r : CrefRan(r)
         \/ ~(xref /\ xrname # "") /\ UNCHANGED <<fs, nerrs>>
  BY CrefStep, CrefInv
<1>2. /\ UNCHANGED <<keepi, keepp1, keepas, keep, dryRun, stops, hex, xref, asmlst>>
      /\ UNCHANGED <<c_as, build, start, xrname, objs>>
  BY <1>1, FlagsKept
<1>3. ~stops /\ nerrs \in Nat /\ src = Len(c_as) + 1
  BY <1>1 DEF PInv, TypeOK, Stages, Late
<1>4. PICK doc : doc = Content("listing", fs[crtmp].of) /\ doc.kind = "listing"
  BY Kinds
<1>5. /\ \A f \in DOMAIN fs' : \/ f \in DOMAIN fs /\ fs'[f] = fs[f]
                               \/ f = Listing /\ xref /\ (fs'[f] = doc \/ fs'[f] = Junk)
      /\ \A f \in DOMAIN fs : \/ f \in DOMAIN fs' /\ fs'[f] = fs[f]
                              \/ f = crtmp
                              \/ f = Listing /\ xref /\ xrname # ""
      /\ xref /\ xrname # "" /\ nerrs' = 0 /\ ~dryRun => Listing \in DOMAIN fs' /\ fs'[Listing] = doc
      /\ xref /\ xrname # "" /\ ~dryRun => crtmp \notin DOMAIN fs'
      /\ nerrs' = 0 => nerrs = 0
  <2>1. CASE xref /\ xrname # "" /\ \E r : CrefRan(r)
    <3>1. PICK r : CrefRan(r)
      BY <2>1
    <3>2. PICK good : r \in Run(good, Listing, doc)
      BY <1>4, <3>1 DEF CrefRan
    <3>3. PICK x, t : x = Listing /\ t = crtmp /\ x # t
      <4>1. Listing.dir = "" /\ crtmp.dir = "tmp"
        BY TmpsApart DEF Listing, File
      <4>2. Listing # crtmp
        BY <4>1
      <4> QED BY <4>2, Zenon
    <3>4. /\ \A f : f # x => (f \in DOMAIN r.files <=> f \in DOMAIN fs)
          /\ \A f \in DOMAIN fs : f # x => r.files[f] = fs[f]
          /\ r.ok /\ ~dryRun => good /\ x \in DOMAIN r.files /\ r.files[x] = doc
          /\ x \in DOMAIN r.files => \/ x \in DOMAIN fs /\ r.files[x] = fs[x]
                                     \/ r.files[x] = doc /\ good
                                     \/ r.files[x] = Junk
          /\ r.ok \in BOOLEAN /\ (dryRun => r.ok /\ r.files = fs)
      BY <3>2, <3>3, RunWrote
    <3>5. /\ dryRun => Rm(r.files, {t}) = r.files
          /\ ~dryRun => /\ DOMAIN Rm(r.files, {t}) = DOMAIN r.files \ {t}
                        /\ \A n \in DOMAIN r.files \ {t} : Rm(r.files, {t})[n] = r.files[n]
      BY RmFacts
    <3>6. fs' = Rm(r.files, {t}) /\ (nerrs' = 0 => nerrs = 0 /\ r.ok)
      <4>1. fs' = Rm(r.files, {t}) /\ nerrs' = (IF r.ok THEN nerrs ELSE nerrs + 1)
        BY <3>1, <3>3 DEF CrefRan, Counted
      <4> QED BY <1>3, <3>4, <4>1
    <3> QED BY <2>1, <3>3, <3>4, <3>5, <3>6
  <2>2. CASE ~(xref /\ xrname # "") /\ UNCHANGED <<fs, nerrs>>
    BY <2>2
  <2> QED BY <1>1, <2>1, <2>2
<1>6. Listing.dir = "" /\ crtmp \notin {tmpf1, tmpf2, tmpf3} /\ l_dot_obj # crtmp
      /\ \A f \in {tmpf1, tmpf2, tmpf3, l_dot_obj, crtmp} : f.dir = "tmp"
  BY TmpsApart DEF Listing, File, Temps
<1>7. OthersKept' /\ NoNewProgram' /\ OutNamed' /\ TakesItsInput'
  BY <1>1 DEF OthersKept, NoNewProgram, OutNamed, TakesItsInput, Early
<1>8. ResultsThere'
  <2>1. CASE keep
    <3>1. ASSUME NEW k \in DOMAIN c_as, NEW n, n = Result(c_as[k]).name, n \in DOMAIN fs
          PROVE  n \in DOMAIN fs' /\ fs'[n] = fs[n]
      <4>1. n \in MadeFor(c_as[k])
        BY <3>1, WritesMade
      <4>2. n.dir # "tmp"
        BY <4>1, SourceFits
      <4>3. xref => n # Listing
        BY <3>1, ListingApart
      <4> QED BY <1>5, <1>6, <3>1, <4>2, <4>3
    <3> QED BY <1>1, <1>5, <2>1, <3>1, ResultsStay
  <2>2. CASE ~keep
    BY <1>1, <1>2, <1>3, <2>2 DEF ResultsThere, Early
  <2> QED BY <2>1, <2>2
<1>9. CrossThere'
  <2>1. crtmp \in DOMAIN fs' => crtmp \in DOMAIN fs /\ fs'[crtmp] = fs[crtmp]
    BY <1>5, <1>6
  <2>2. crtmp \in DOMAIN fs' => xref /\ \E q : fs'[crtmp] = Content("crf", q)
    BY <1>1, <2>1 DEF FilesRight, CrossThere, Exists
  <2> QED BY <1>1, <1>2, <2>2 DEF CrossThere, Exists, Early, Late
<1>10. LinkedThere'
  <2>1. ASSUME nerrs' = 0, ~dryRun, ~keep PROVE Holds(outfile, "com")'
    <3>1. nerrs = 0
      BY <1>5, <2>1
    <3>2. outfile \in DOMAIN fs /\ fs[outfile].kind = "com"
      BY <1>1, <1>3, <2>1, <3>1 DEF FilesRight, LinkedThere, Holds, Exists
    <3>3. OutApart(outfile)
      BY <1>1, <2>1, <3>1 DEF FilesRight, OutNamed
    <3>4. outfile # crtmp /\ ~(outfile = Listing /\ xref /\ xrname # "")
      BY <1>6, <3>3 DEF OutApart
    <3> QED BY <1>1, <1>5, <3>2, <3>4 DEF Holds, Exists
  <2> QED BY <1>1, <1>2, <2>1 DEF LinkedThere
<1>11. ListingThere'
  <2>1. ASSUME nerrs' = 0, ~dryRun, xref, xrname # ""
        PROVE  Listing \in DOMAIN fs' /\ fs'[Listing] = Content("listing", CSources)
    <3>1. nerrs = 0
      BY <1>5, <2>1
    <3>2. fs[crtmp] = Content("crf", Those(SubSeq(c_as, 1, Crossed), CFiles))
      BY <1>1, <1>3, <2>1, <3>1 DEF FilesRight, CrossThere, Late, stops
    <3>3. Crossed = Len(c_as) /\ SubSeq(c_as, 1, Len(c_as)) = c_as
      <4>1. c_as \in Seq(Name)
        BY DEF PInv, TypeOK
      <4>2. Crossed = src - 1
        BY <1>1 DEF Crossed
      <4>3. Len(c_as) \in Nat /\ SubSeq(c_as, 1, Len(c_as)) = c_as
        BY <4>1
      <4> QED BY <1>3, <4>2, <4>3
    <3>4. fs[crtmp].of = CSources
      <4>1. CSources = Those(c_as, CFiles)
        BY DEF CSources, CFiles
      <4>2. PICK q : q = Those(c_as, CFiles)
        OBVIOUS
      <4>3. fs[crtmp] = Content("crf", q)
        BY <3>2, <3>3, <4>2
      <4> QED BY <4>1, <4>2, <4>3, Kinds
    <3> QED BY <1>4, <1>5, <2>1, <3>4
  <2>2. CSources' = CSources /\ Listing' = Listing
    BY <1>1, DerivedKept
  <2> QED BY <1>1, <1>2, <2>1, <2>2 DEF ListingThere, Exists, Content
<1>12. TempsThere'
  <2>1. ~dryRun => {tmpf1, tmpf2, tmpf3} \cap DOMAIN fs = {} /\ (l_dot_obj \in DOMAIN fs => nerrs # 0)
    BY <1>1 DEF FilesRight, TempsThere, Late, Exists
  <2>2. ~dryRun => {tmpf1, tmpf2, tmpf3} \cap DOMAIN fs' = {} /\ (l_dot_obj \in DOMAIN fs' => nerrs' # 0)
    BY <1>5, <1>6, <2>1
  <2>3. crtmp \in DOMAIN fs' /\ ~dryRun => xrname = ""
    <3>1. crtmp \in DOMAIN fs' => crtmp \in DOMAIN fs
      BY <1>5, <1>6
    <3>2. crtmp \in DOMAIN fs => xref
      BY <1>1 DEF FilesRight, CrossThere, Exists
    <3> QED BY <1>5, <3>1, <3>2
  <2> QED BY <1>1, <1>2, <2>2, <2>3 DEF TempsThere, Early, Exists
<1>13. LinkedFromSources'
  <2>1. ASSUME NEW f \in DOMAIN fs'
        PROVE  (f \in DOMAIN fs /\ fs'[f] = fs[f]) \/ fs'[f].kind # "com"
    BY <1>4, <1>5, Kinds
  <2> QED BY <1>1, <2>1, LinkedStays
<1>14. InputsKept'
  <2>1. \A f \in DOMAIN start : f # crtmp
    BY <1>6 DEF Fit, DiskFits
  <2>2. InputsKept
    BY DEF FilesRight
  <2> QED BY <1>1, <1>5, <2>1, <2>2, InputsStay
<1> QED BY <1>7, <1>8, <1>9, <1>10, <1>11, <1>12, <1>13, <1>14 DEF FilesRight, BuiltFromSources

LEMMA StutterRight == ASSUME FilesRight, UNCHANGED vars PROVE FilesRight'
<1>1. UNCHANGED <<keepi, keepp1, keepas, keep, optimize, dryRun, stops, hex, xref, asmlst>>
      /\ UNCHANGED <<c_as, build, start, xrname, objs, libs, argv>> /\ UNCHANGED <<fs, pc, src, nerrs, outfile>>
  BY FlagsKept DEF vars, doitKeeps
<1>2. /\ Outputs' = Outputs /\ CSources' = CSources /\ Sources' = Sources /\ UserLibs' = UserLibs /\ Listing' = Listing
      /\ \A f : Result(f)' = Result(f) /\ Kept(f)' = Kept(f) /\ Made(f)' = Made(f)
  BY DerivedKept DEF vars, doitKeeps
<1>3. (OthersKept /\ NoNewProgram)'
  BY <1>1, <1>2 DEF FilesRight, OthersKept, NoNewProgram
<1>4. ResultsThere'
  BY <1>1, <1>2 DEF FilesRight, ResultsThere, HasResult, Exists
<1>5. CrossThere'
  <2>1. Crossed' = Crossed
    BY <1>1 DEF Crossed
  <2> QED BY <1>1, <2>1 DEF FilesRight, CrossThere, Exists
<1>6. Parts' = Parts
  BY <1>1, <1>2 DEF Parts
<1>7. LinkedThere'
  BY <1>1, <1>6 DEF FilesRight, LinkedThere, Holds, Exists
<1>8. ListingThere'
  BY <1>1, <1>2 DEF FilesRight, ListingThere, Exists
<1>9. OutNamed'
  <2>1. Output' = Output
    BY <1>1 DEF Output
  <2>2. OutApart(outfile)' <=> OutApart(outfile)
    BY <1>1, <1>2 DEF OutApart
  <2> QED BY <1>1, <2>1, <2>2 DEF FilesRight, OutNamed
<1>10. TempsThere'
  BY <1>1 DEF FilesRight, TempsThere, Exists
<1>11. TakesItsInput'
  <2>1. s' = s /\ ZasIn' = ZasIn
    <3>1. s' = s
      BY <1>1 DEF s
    <3> QED BY <1>1, <3>1 DEF ZasIn, OptimOut
  <2> QED BY <1>1, <2>1 DEF FilesRight, BuiltFromSources, TakesItsInput, Exists
<1>12. LinkedFromSources'
  BY <1>1, LinkedStays DEF vars, doitKeeps
<1>13. InputsKept'
  <2>1. InputsKept
    BY DEF FilesRight
  <2> QED BY <1>1, <2>1, InputsStay DEF vars, doitKeeps
<1> QED BY <1>3, <1>4, <1>5, <1>7, <1>8, <1>9, <1>10, <1>11, <1>12, <1>13 DEF FilesRight, BuiltFromSources

\* Every step keeps the files right.
LEMMA FilesInv == PInv /\ ZInv /\ [Next]_vars => ZInv'
<1> SUFFICES ASSUME PInv, ZInv, [Next]_vars, Fit', build' # 0 PROVE FilesRight'
  BY DEF ZInv
<1>1. CASE Option \/ FirstOption \/ LibOption \/ FileArg \/ Help
  <2>1. pc = "args"
    BY <1>1 DEF Option, FirstOption, LibOption, FileArg, Help, Arguing
  <2>2. build = 0 /\ build' = build
    BY <1>1, <2>1 DEF PInv, Stages, Option, FirstOption, LibOption, FileArg, Help, Quit, NextArg
  <2> QED BY <2>2
<1>2. CASE SetTarget
  BY <1>2, SetTargetRight
<1>3. ASSUME build # 0, Fit' <=> Fit PROVE Fit /\ FilesRight
  BY <1>3 DEF ZInv
<1>4. CASE Dispatch
  <2>1. Fit /\ FilesRight
    BY <1>3, <1>4, DispatchInv, DerivedKept
  <2> QED BY <1>4, <2>1, DispatchRight
<1>5. CASE Cpp
  <2>1. PICK r : CppRan(r)
    BY <1>5, CppStep
  <2>2. UNCHANGED doitKeeps /\ build # 0
    BY <1>5, <2>1, CppInv, StageInv DEF Cpp
  <2>3. Fit /\ FilesRight
    BY <1>3, <2>2, DerivedKept
  <2> QED BY <1>5, <2>1, <2>3, CppRight DEF Cpp
<1>6. CASE Pass1
  <2>1. PICK r : Pass1Ran(r)
    BY <1>6, Pass1Step
  <2>2. pc = "p1"
    BY <1>6 DEF Pass1
  <2>3. UNCHANGED doitKeeps /\ build # 0
    BY <2>1, <2>2, Pass1Inv, StageInv
  <2>4. Fit /\ FilesRight
    BY <1>3, <2>3, DerivedKept
  <2> QED BY <2>1, <2>2, <2>4, Pass1Right
<1>7. CASE Cgen
  <2>1. PICK r : CgenRan(r)
    BY <1>7, CgenStep
  <2>2. UNCHANGED doitKeeps /\ build # 0
    BY <1>7, <2>1, CgenInv, StageInv DEF Cgen
  <2>3. Fit /\ FilesRight
    BY <1>3, <2>2, DerivedKept
  <2> QED BY <1>7, <2>1, <2>3, CgenRight DEF Cgen
<1>8. CASE Optim
  <2>1. PICK r : OptimRan(r)
    BY <1>8, OptimStep
  <2>2. UNCHANGED doitKeeps /\ build # 0
    BY <1>8, <2>1, OptimInv, StageInv DEF Optim
  <2>3. Fit /\ FilesRight
    BY <1>3, <2>2, DerivedKept
  <2> QED BY <1>8, <2>1, <2>3, OptimRight DEF Optim
<1>9. CASE Zas
  <2>1. PICK r : ZasRan(r)
    BY <1>9, ZasStep
  <2>2. UNCHANGED doitKeeps /\ build # 0
    BY <1>9, <2>1, ZasInv, StageInv DEF Zas
  <2>3. Fit /\ FilesRight
    BY <1>3, <2>2, DerivedKept
  <2> QED BY <1>9, <2>1, <2>3, ZasRight DEF Zas
<1>10. CASE Assemble
  <2>1. PICK r : AssembleRan(r)
    BY <1>10, AssembleStep
  <2>2. UNCHANGED doitKeeps /\ build # 0
    BY <1>10, <2>1, AssembleInv, StageInv DEF Assemble
  <2>3. Fit /\ FilesRight
    BY <1>3, <2>2, DerivedKept
  <2> QED BY <1>10, <2>1, <2>3, AssembleRight DEF Assemble
<1>11. CASE Cleanup
  <2>1. Fit /\ FilesRight
    BY <1>3, <1>11, CleanupInv, DerivedKept
  <2> QED BY <1>11, <2>1, CleanupRight
<1>12. CASE Link
  <2>1. Fit /\ FilesRight
    BY <1>3, <1>12, LinkInv, DerivedKept
  <2> QED BY <1>12, <2>1, LinkRight
<1>13. CASE ObjtoHex
  <2>1. Fit /\ FilesRight
    BY <1>3, <1>13, ObjtoHexInv, DerivedKept
  <2> QED BY <1>13, <2>1, ObjtoHexRight
<1>14. CASE RemoveSingle
  <2>1. Fit /\ FilesRight
    BY <1>3, <1>14, RemoveSingleInv, DerivedKept
  <2> QED BY <1>14, <2>1, RemoveSingleRight
<1>15. CASE Cref
  <2>1. Fit /\ FilesRight
    BY <1>3, <1>15, CrefInv, DerivedKept
  <2> QED BY <1>15, <2>1, CrefRight
<1>16. CASE UNCHANGED vars
  <2>1. UNCHANGED doitKeeps /\ build # 0
    BY <1>16 DEF vars, doitKeeps
  <2>2. Fit /\ FilesRight
    BY <1>3, <2>1, DerivedKept
  <2> QED BY <1>16, <2>2, StutterRight
<1> QED BY <1>1, <1>2, <1>4, <1>5, <1>6, <1>7, <1>8, <1>9, <1>10, <1>11, <1>12, <1>13, <1>14, <1>15, <1>16
        DEF Next, Step, Compile, Exited

-----------------------------------------------------------------------------
(* The theorems *)

\* The inductive invariant.
THEOREM FilesAlways == Spec => [](PInv /\ ZInv)
<1>1. Init => PInv /\ ZInv
  <2>1. Init => build = 0
    BY DEF Init
  <2> QED BY <2>1, InitInv DEF ZInv
<1>2. PInv /\ ZInv /\ [Next]_vars => (PInv /\ ZInv)'
  BY NextInv, FilesInv
<1> QED BY <1>1, <1>2, PTL DEF Spec

\* For every command line and disk that fit: each stage is given what the stage before it
\* made of the same source, and a program is linked from what was made of these sources in
\* this run, whichever programs fail on the way (compile, Link, ObjtoHex).
THEOREM AlwaysBuiltFromSources == Spec => [](Fit => BuiltFromSources)
<1>1. PInv /\ ZInv /\ Fit => BuiltFromSources
  <2> SUFFICES ASSUME PInv, ZInv, Fit PROVE BuiltFromSources
    OBVIOUS
  <2>1. CASE build # 0
    BY <2>1 DEF ZInv, FilesRight
  <2>2. CASE build = 0
    <3>1. fs = start /\ pc \in {"args", "exit"}
      BY <2>2 DEF PInv, Stages
    <3>2. TakesItsInput
      BY <3>1 DEF TakesItsInput
    <3>3. LinkedFromSources
      BY <3>1 DEF LinkedFromSources
    <3> QED BY <3>2, <3>3 DEF BuiltFromSources
  <2> QED BY <2>1, <2>2
<1> QED BY <1>1, FilesAlways, PTL

\* For every command line and disk that fit: when zc exits with 0, what was asked for is
\* there: the program, or what each C source was to become, and the cross reference.
THEOREM ExitAlwaysTellsAll == Spec => [](Fit => ExitTellsAll)
<1>1. ASSUME PInv, ZInv, Fit PROVE ExitTellsAll
  <2> SUFFICES ASSUME pc = "exit", nerrs = 0, ~dryRun
               PROVE  /\ stops \/ keep =>
                           \A i \in DOMAIN CSources :
                             Exists(Kept(CSources[i]).name)
                               /\ fs[Kept(CSources[i]).name] = Content(Kept(CSources[i]).kind, CSources[i])
                      /\ ~(stops \/ keep) => Holds(outfile, "com")
                      /\ ~stops /\ xref /\ xrname # "" =>
                           Exists(Listing) /\ fs[Listing] = Content("listing", CSources)
    BY DEF ExitTellsAll, stops
  <2>1. build # 0 /\ FilesRight
    BY <1>1 DEF PInv, Stages, ZInv
  <2>2. src = Len(c_as) + 1 /\ c_as \in Seq(Name)
    BY <1>1, <2>1 DEF PInv, TypeOK, Stages
  <2>3. ASSUME stops \/ keep, NEW i \in DOMAIN CSources
        PROVE  Exists(Kept(CSources[i]).name)
                 /\ fs[Kept(CSources[i]).name] = Content(Kept(CSources[i]).kind, CSources[i])
    <3>1. PICK q \in Seq(Name) : q = c_as
      BY <2>2
    <3>2. CSources = Those(q, CFiles)
      BY <3>1 DEF CSources, CFiles
    <3>3. Part(Those(q, CFiles), q, CFiles, Name)
      BY ThoseSeq
    <3>4. PICK g : g = CSources[i] /\ g \in CFiles /\ \E j \in DOMAIN q : q[j] = g
      BY <2>3, <3>2, <3>3 DEF Part
    <3>5. PICK k \in DOMAIN c_as : c_as[k] = g
      BY <3>1, <3>4
    <3>6. g.ext = "c" /\ k < src
      BY <2>2, <3>4 DEF CFiles
    <3>7. HasResult(g)
      BY <2>1, <2>3, <3>5, <3>6 DEF FilesRight, ResultsThere
    <3>8. Result(g) = Kept(g)
      BY <3>6 DEF Result
    <3> QED BY <3>4, <3>7, <3>8 DEF HasResult
  <2>4. ~(stops \/ keep) => Holds(outfile, "com")
    BY <2>1 DEF FilesRight, LinkedThere
  <2>5. ~stops /\ xref /\ xrname # "" => Exists(Listing) /\ fs[Listing] = Content("listing", CSources)
    BY <2>1 DEF FilesRight, ListingThere
  <2> QED BY <2>3, <2>4, <2>5
<1>2. PInv /\ ZInv => (Fit => ExitTellsAll)
  BY <1>1
<1> QED BY <1>2, FilesAlways, PTL

\* For every command line and disk that fit: whatever fails, zc's temporary files are gone at
\* its exit, and of the files it was given only those change that it was asked to make
\* (cleanup, Link, ObjtoHex).
THEOREM AlwaysCleansUp == Spec => [](Fit => CleansUp)
<1>1. ASSUME PInv, ZInv, Fit PROVE CleansUp
  <2>1. NoTempsLeft
    <3> SUFFICES ASSUME pc = "exit", build # 0, ~dryRun
                 PROVE  /\ {tmpf1, tmpf2, tmpf3} \cap DOMAIN fs = {}
                        /\ Exists(l_dot_obj) => nerrs # 0
                        /\ Exists(crtmp) => xref /\ (xrname = "" \/ stops)
      BY DEF NoTempsLeft, stops
    <3>1. FilesRight
      BY <1>1 DEF ZInv
    <3>2. {tmpf1, tmpf2, tmpf3} \cap DOMAIN fs = {} /\ (Exists(l_dot_obj) => nerrs # 0)
          /\ (Exists(crtmp) => xrname = "" \/ stops)
      BY <3>1 DEF FilesRight, TempsThere
    <3>3. Exists(crtmp) => xref
      BY <3>1 DEF FilesRight, CrossThere
    <3> QED BY <3>2, <3>3
  <2>2. InputsKept
    <3>1. CASE build # 0
      BY <1>1, <3>1 DEF ZInv, FilesRight
    <3>2. CASE build = 0
      BY <1>1, <3>2 DEF PInv, Stages, InputsKept, Exists
    <3> QED BY <3>1, <3>2
  <2> QED BY <2>1, <2>2 DEF CleansUp
<1>2. PInv /\ ZInv => (Fit => CleansUp)
  BY <1>1
<1> QED BY <1>2, FilesAlways, PTL
=============================================================================
