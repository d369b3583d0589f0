----------------------------- MODULE LinkPasses -----------------------------
(***************************************************************************)
(* Proof that pass 1 of module Link finds every psect, before each module, *)
(* at the size that pass 0 had given it there; and, in the second part,    *)
(* what the exit status means.                                             *)
(*                                                                         *)
(* The argument: the size after a module is the size before it, the longest*)
(* text of the module in the psect, and the name of the psect.  Nothing    *)
(* else goes into it: a reference of a module finds the same entry of      *)
(* psectInfo in both passes, although pass 0 looks it up in a table that   *)
(* is still growing and in which psects become global.                     *)
(***************************************************************************)
EXTENDS LinkProofs

-----------------------------------------------------------------------------
(* What the modules say *)

RecsOf(x) == ModsAt(x)[x[2] + 1].recs
EndAt(recs, n) == n \in 1..Len(recs) /\ recs[n].t = "END"
InBody(recs, n) == n \in 1..Len(recs) /\ \A j \in 1..n : recs[j].t # "END"

\* A record says that the psect n is overlaid.
Overlays(recs, n) == \E j \in 1..Len(recs) : recs[j].t = "PSECT" /\ recs[j].psect = n /\ recs[j].ovr
Overlaid(n) ==
  n = Abs \/ \E f \in 1..Len(job.files) : \E m \in 1..Len(job.files[f].mods) :
               Overlays(job.files[f].mods[m].recs, n)

\* Whoever puts text into a psect that a module of the job has overlaid says so
\* itself.  Where that is left to a later module pass 0 adds what pass 1 lays over
\* each other (sym.c addSym merges the flags), and PassesAgree does not hold.
OverlaysDeclared ==
  \A f \in 1..Len(job.files) : \A m \in 1..Len(job.files[f].mods) :
    LET recs == job.files[f].mods[m].recs
    IN \A j \in 1..Len(recs) :
         InBody(recs, j) /\ recs[j].t = "TEXT" /\ Overlaid(recs[j].psect) =>
           \/ recs[j].psect = Abs
           \/ \E q \in 1..Len(recs) : /\ InBody(recs, q) /\ recs[q].t = "PSECT"
                                      /\ recs[q].psect = recs[j].psect /\ recs[q].ovr

-----------------------------------------------------------------------------
(* The inductive invariant *)

\* the psect that file f means by a name
PsectsFrom(f, n) ==
  {i \in 1..nextPsect : /\ psectInfo[i].name = n /\ psectInfo[i].kind = "PSECT"
                        /\ psectInfo[i].glob \/ psectInfo[i].fileId = f \/ job.R}
Names == PsectNames \cup {Abs}
PsectFrom == [f \in Nat |-> [n \in Names |-> FirstOf(PsectsFrom(f, n))]]

\* where the texts end that the first n records of module x put into psect i
TextsOf(x, n, i) == {j \in 1..n : /\ RecsOf(x)[j].t = "TEXT"
                                  /\ PsectFrom[x[1]][RecsOf(x)[j].psect] = i}
TextEnds(x, n, i) == {RecsOf(x)[j].off + RecsOf(x)[j].len : j \in TextsOf(x, n, i)}
IsLongest(e, S) == e \in S \cup {0} /\ \A d \in S : d <= e

\* what pass 0 has found of a record it has read
Found(x, j) ==
  LET r == RecsOf(x)[j]
  IN /\ r.t # "END"
     /\ r.t = "TEXT" => PsectFrom[x[1]][r.psect] # 0
     /\ r.t = "PSECT" => /\ PsectFrom[x[1]][r.psect] # 0
                         /\ r.ovr => psectInfo[PsectFrom[x[1]][r.psect]].ovr

\* the size of psect i before the k-th module
Base == [k \in Nat |-> [i \in 1..MaxPsects |->
          IF k \in DOMAIN bases THEN IF i \in DOMAIN bases[k] THEN bases[k][i] ELSE 0
          ELSE psectInfo[i].blk]]
\* the size after a module whose longest text ends at e
GrowBy(over, size, e) == IF e = 0 THEN size
                         ELSE IF ~over THEN size + e
                         ELSE IF size < e THEN e ELSE size
Over(i) == Overlaid(psectInfo[i].name)

\* What the k-th module, x, has done in pass 0, with all of its n records before END.
Effect(x, k) ==
  \E n \in Nat :
    /\ EndAt(RecsOf(x), n + 1)
    /\ \A j \in 1..n : Found(x, j)
    /\ \A i \in 1..nextPsect : \E e \in Nat :
         IsLongest(e, TextEnds(x, n, i)) /\ Base[k + 1][i] = GrowBy(Over(i), Base[k][i], e)

InPass0 == pass = 0 /\ pc \in {"open", "scan", "rec"}
Completed == IF pass = 0 /\ pc = "rec" THEN Len(loaded[0]) - 1 ELSE Len(loaded[0])

\* A psect is seen by the name and from the file it was made in, or from everywhere;
\* a second one of its name is made only where the first is not seen.
UniqueVisible ==
  /\ \A i \in 1..nextPsect : pass = 0 => psectInfo[i].fileId <= fileIdx
  /\ \A i, j \in 1..nextPsect :
       i < j /\ psectInfo[i].kind = "PSECT" /\ psectInfo[j].kind = "PSECT"
             /\ psectInfo[i].name = psectInfo[j].name =>
         ~job.R /\ ~psectInfo[i].glob /\ psectInfo[i].fileId < psectInfo[j].fileId

OvrDeclared ==
  /\ psectInfo[1].ovr
  /\ \A i \in 1..nextPsect : psectInfo[i].ovr => Overlaid(psectInfo[i].name)

BasesType ==
  /\ bases \in Seq(UNION {[1..m -> Nat] : m \in 1..nextPsect})
  /\ Len(bases) = Len(loaded[0]) + (IF InPass0 THEN 0 ELSE 1)
  /\ \A i \in 1..nextPsect : Base[1][i] = 0

\* what is known in module x after n records
ReadSoFar(x, n) ==
  /\ \A j \in 1..n : InBody(RecsOf(x), j)
  /\ pass = 0 => \A j \in 1..n : Found(x, j)
  /\ \A i \in 1..nextPsect : IsLongest(psectInfo[i].end, TextEnds(x, n, i))

EndsFit ==
  IF pc = "rec"
  THEN \A x \in Places : \A n \in Nat : x = <<fileIdx, modIdx>> /\ recIdx = n + 1 => ReadSoFar(x, n)
  ELSE \A i \in 1..nextPsect : psectInfo[i].end = 0

SizesFit ==
  \A i \in 1..nextPsect :
    /\ pass = 0 /\ pc = "rec" => psectInfo[i].blk = Base[Len(bases)][i]
    /\ pc \in Layout /\ i < idx => psectInfo[i].blk = 0
    /\ pass = 1 => psectInfo[i].blk
                     = Base[IF pc = "rec" THEN Len(loaded[1]) ELSE Len(loaded[1]) + 1][i]

Effects == \A k \in 1..Completed : \A x \in Places : loaded[0][k] = x => Effect(x, k)

SInv == pc \notin Lost =>
          UniqueVisible /\ OvrDeclared /\ BasesType /\ EndsFit /\ SizesFit /\ Effects

-----------------------------------------------------------------------------
(* Looking up a psect *)

LEMMA PsectFromIs ==
  ASSUME TypeOK, NEW f \in Nat, NEW n \in Names
  PROVE  /\ PsectFrom[f][n] \in 0..nextPsect /\ nextPsect \in Nat
         /\ PsectFrom[f][n] # 0 => /\ PsectFrom[f][n] \in PsectsFrom(f, n)
                                   /\ \A j \in PsectsFrom(f, n) : PsectFrom[f][n] <= j
<1> DEFINE S == PsectsFrom(f, n)
           firsts == {i \in S : \A j \in S : i <= j}
<1>1. nextPsect \in Nat
  BY Typed
<1>2. S \subseteq 1..nextPsect
  BY DEF PsectsFrom
<1> HIDE DEF S
<1>3. FirstOf(S) = IF firsts = {} THEN 0 ELSE CHOOSE i \in firsts : TRUE
  BY DEF FirstOf
<1>4. firsts # {} => FirstOf(S) \in firsts
  BY <1>3
<1> QED BY <1>1, <1>2, <1>3, <1>4 DEF PsectFrom, S

LEMMA SlotIs ==
  ASSUME fileIdx \in Nat, NEW n \in Names
  PROVE  Slot(n, "PSECT") = PsectFrom[fileIdx][n]
<1>1. Slots(n, "PSECT") = PsectsFrom(fileIdx, n)
  BY DEF Slots, PsectsFrom
<1> QED BY <1>1 DEF Slot, PsectFrom

\* in the state after a step, what is the least is found
LEMMA LeastFromNext ==
  ASSUME nextPsect' \in Nat, NEW f \in Nat, NEW n \in Names, NEW s \in PsectsFrom(f, n)',
         \A j \in PsectsFrom(f, n)' : s <= j
  PROVE  PsectFrom'[f][n] = s
<1> DEFINE S == PsectsFrom(f, n)'
           firsts == {i \in S : \A j \in S : i <= j}
<1>1. S \subseteq 1..nextPsect'
  BY DEF PsectsFrom
<1> HIDE DEF S
<1>2. \A i \in firsts : i = s
  BY <1>1 DEF S
<1>3. s \in firsts
  BY DEF S
<1>4. FirstOf(S) = s
  BY <1>2, <1>3 DEF FirstOf
<1> QED BY <1>4 DEF PsectFrom, S

\* nothing but sizes and addresses changes
SameEntries ==
  /\ UNCHANGED <<job, nextPsect>> /\ SameNames
  /\ \A i \in 1..nextPsect : psectInfo'[i].ovr = psectInfo[i].ovr

\* file f means by each name what it meant before
KeepsFrom(f) == \A n \in Names : PsectFrom[f][n] # 0 => PsectFrom'[f][n] = PsectFrom[f][n]

LEMMA SameFrom ==
  ASSUME SameEntries, NEW f \in Nat
  PROVE  KeepsFrom(f) /\ \A n \in Names : PsectFrom'[f][n] = PsectFrom[f][n]
<1> SUFFICES ASSUME NEW n \in Names PROVE PsectFrom'[f][n] = PsectFrom[f][n]
  BY DEF KeepsFrom
<1>1. PsectsFrom(f, n)' = PsectsFrom(f, n)
  BY DEF SameEntries, SameNames, PsectsFrom
<1> QED BY <1>1 DEF PsectFrom

-----------------------------------------------------------------------------
(* What was found stays, as long as names keep their meaning *)

\* entries stay, and overlaid ones stay overlaid
Grows ==
  /\ job' = job /\ nextPsect' \in Nat /\ nextPsect <= nextPsect'
  /\ \A i \in 1..nextPsect : /\ psectInfo'[i].name = psectInfo[i].name
                             /\ psectInfo[i].ovr => psectInfo'[i].ovr

LEMMA SameGrows == ASSUME TypeOK, SameEntries PROVE Grows
BY Typed DEF SameEntries, SameNames, Grows

LEMMA SameJob ==
  ASSUME job' = job
  PROVE  /\ \A x : RecsOf(x)' = RecsOf(x)
         /\ \A n : Overlaid(n)' <=> Overlaid(n)
         /\ OverlaysDeclared' <=> OverlaysDeclared
<1>1. \A x : RecsOf(x)' = RecsOf(x)
  BY DEF RecsOf, ModsAt
<1>2. \A n : Overlaid(n)' <=> Overlaid(n)
  BY DEF Overlaid
<1>3. OverlaysDeclared' <=> OverlaysDeclared
  BY DEF OverlaysDeclared, Overlaid
<1> QED BY <1>1, <1>2, <1>3

\* a module of the job
Valid(x) == x \in Places /\ x[1] < Len(job.files) /\ x[2] < Len(ModsAt(x))

LEMMA ValidRecs ==
  ASSUME TypeOK, NEW x, Valid(x)
  PROVE  /\ RecsOf(x) \in Seq(Record) /\ Len(RecsOf(x)) \in Nat /\ x[1] \in Nat
         /\ \A j \in 1..Len(RecsOf(x)) :
              LET r == RecsOf(x)[j]
              IN /\ r.t \in {"TEXT", "PSECT"} => r.psect \in Names
                 /\ r.t = "TEXT" => r.off \in Nat /\ r.len \in Nat
                 /\ r.t = "PSECT" => r.ovr \in BOOLEAN
<1>1. x[1] \in Nat /\ x[2] \in Nat /\ job.files \in Seq(File)
  BY DEF Valid, Places, TypeOK, Job
<1>2. job.files[x[1] + 1] \in File
  BY <1>1 DEF Valid
<1>3. ModsAt(x) \in Seq(Module)
  BY <1>2 DEF ModsAt, File
<1>4. ModsAt(x)[x[2] + 1] \in Module
  BY <1>1, <1>3 DEF Valid
<1>5. RecsOf(x) \in Seq(Record)
  BY <1>4 DEF RecsOf, Module
<1>6. \A j \in 1..Len(RecsOf(x)) : RecsOf(x)[j] \in Record
  BY <1>5
<1> QED BY <1>1, <1>5, <1>6, RecordFields DEF Names

LEMMA ValidPlace ==
  ASSUME TypeOK, NEW x, Valid(x)
  PROVE  /\ x[1] + 1 \in 1..Len(job.files) /\ x[2] + 1 \in 1..Len(job.files[x[1] + 1].mods)
         /\ RecsOf(x) = job.files[x[1] + 1].mods[x[2] + 1].recs
<1>1. x[1] < Len(job.files) /\ x[2] < Len(ModsAt(x)) /\ x[1] \in Nat /\ x[2] \in Nat
  BY DEF Valid, Places
<1>2. job.files \in Seq(File)
  BY DEF TypeOK, Job
<1>3. job.files[x[1] + 1] \in File
  BY <1>1, <1>2
<1>4. ModsAt(x) \in Seq(Module)
  BY <1>3 DEF ModsAt, File
<1>5. x[1] + 1 \in 1..Len(job.files) /\ x[2] + 1 \in 1..Len(ModsAt(x))
  BY <1>1, <1>2, <1>4
<1> QED BY <1>5 DEF ModsAt, RecsOf

LEMMA FoundKept ==
  ASSUME TypeOK, Grows, NEW x, Valid(x), KeepsFrom(x[1]),
         NEW j \in 1..Len(RecsOf(x)), Found(x, j)
  PROVE  Found(x, j)'
<1> DEFINE r == RecsOf(x)[j]
<1>1. RecsOf(x)' = RecsOf(x)
  BY SameJob DEF Grows
<1>2. /\ r.t \in {"TEXT", "PSECT"} => r.psect \in Names
      /\ x[1] \in Nat
  BY ValidRecs
<1> HIDE DEF r
<1>3. r.psect \in Names /\ PsectFrom[x[1]][r.psect] # 0 =>
        /\ PsectFrom'[x[1]][r.psect] = PsectFrom[x[1]][r.psect]
        /\ PsectFrom[x[1]][r.psect] \in 1..nextPsect
  BY <1>2, PsectFromIs DEF KeepsFrom
<1> QED BY <1>1, <1>2, <1>3 DEF Found, Grows, r

LEMMA TextEndsKept ==
  ASSUME TypeOK, Grows, NEW x, Valid(x), KeepsFrom(x[1]), NEW n \in Nat,
         n <= Len(RecsOf(x)), \A j \in 1..n : Found(x, j)
  PROVE  /\ \A i : TextEnds(x, n, i)' = TextEnds(x, n, i)
         /\ \A i : i \notin 0..nextPsect => TextEnds(x, n, i) = {}
<1>1. RecsOf(x)' = RecsOf(x)
  BY SameJob DEF Grows
<1>2. \A j \in 1..n : RecsOf(x)[j].t = "TEXT" =>
        /\ PsectFrom'[x[1]][RecsOf(x)[j].psect] = PsectFrom[x[1]][RecsOf(x)[j].psect]
        /\ PsectFrom[x[1]][RecsOf(x)[j].psect] \in 0..nextPsect
  <2> SUFFICES ASSUME NEW j \in 1..n, RecsOf(x)[j].t = "TEXT"
               PROVE  /\ PsectFrom'[x[1]][RecsOf(x)[j].psect] = PsectFrom[x[1]][RecsOf(x)[j].psect]
                      /\ PsectFrom[x[1]][RecsOf(x)[j].psect] \in 0..nextPsect
    OBVIOUS
  <2>1. j \in 1..Len(RecsOf(x))
    BY ValidRecs
  <2>2. RecsOf(x)[j].psect \in Names /\ x[1] \in Nat /\ PsectFrom[x[1]][RecsOf(x)[j].psect] # 0
    BY <2>1, ValidRecs DEF Found
  <2> QED BY <2>2, PsectFromIs DEF KeepsFrom
<1>3. \A i : TextsOf(x, n, i)' = TextsOf(x, n, i)
  BY <1>1, <1>2 DEF TextsOf
<1>4. \A i : i \notin 0..nextPsect => TextsOf(x, n, i) = {}
  BY <1>2 DEF TextsOf
<1> QED BY <1>1, <1>3, <1>4 DEF TextEnds

LEMMA TextEndsType ==
  ASSUME TypeOK, NEW x, Valid(x), NEW n \in Nat, n <= Len(RecsOf(x)), NEW i
  PROVE  TextEnds(x, n, i) \subseteq Nat
<1> SUFFICES ASSUME NEW j \in TextsOf(x, n, i)
             PROVE  RecsOf(x)[j].off + RecsOf(x)[j].len \in Nat
  BY DEF TextEnds
<1>1. j \in 1..Len(RecsOf(x)) /\ RecsOf(x)[j].t = "TEXT"
  BY ValidRecs DEF TextsOf
<1> QED BY <1>1, ValidRecs

LEMMA OneLongest ==
  ASSUME NEW S \in SUBSET Nat, NEW e, NEW d, IsLongest(e, S), IsLongest(d, S)
  PROVE  e = d /\ e \in Nat
BY DEF IsLongest

LEMMA OverKept ==
  ASSUME Grows, NEW i \in 1..nextPsect
  PROVE  Over(i)' <=> Over(i)
BY DEF Over, Overlaid, Grows

\* What a module has done to the sizes is not changed by later ones.
LEMMA EffectKept ==
  ASSUME TypeOK, Grows, NEW x, Valid(x), KeepsFrom(x[1]), NEW k \in Nat, Effect(x, k),
         \A i \in 1..nextPsect : Base'[k][i] = Base[k][i] /\ Base'[k + 1][i] = Base[k + 1][i],
         \A i \in (nextPsect + 1)..nextPsect' : Base'[k][i] = 0 /\ Base'[k + 1][i] = 0
  PROVE  Effect(x, k)'
<1>1. RecsOf(x)' = RecsOf(x) /\ nextPsect \in Nat /\ nextPsect' \in Nat
  BY SameJob, Typed DEF Grows
<1>2. PICK n \in Nat :
        /\ EndAt(RecsOf(x), n + 1)
        /\ \A j \in 1..n : Found(x, j)
        /\ \A i \in 1..nextPsect : \E e \in Nat :
             IsLongest(e, TextEnds(x, n, i)) /\ Base[k + 1][i] = GrowBy(Over(i), Base[k][i], e)
  BY DEF Effect
<1>3. n <= Len(RecsOf(x)) /\ \A j \in 1..n : j \in 1..Len(RecsOf(x))
  BY <1>2, ValidRecs DEF EndAt
<1>4. \A j \in 1..n : Found(x, j)'
  BY <1>2, <1>3, FoundKept
<1>5. EndAt(RecsOf(x), n + 1)'
  BY <1>1, <1>2 DEF EndAt
<1>6. /\ \A i : TextEnds(x, n, i)' = TextEnds(x, n, i)
      /\ \A i : i \notin 0..nextPsect => TextEnds(x, n, i) = {}
  BY <1>2, <1>3, TextEndsKept
<1>7. ASSUME NEW i \in 1..nextPsect'
      PROVE  \E e \in Nat : /\ IsLongest(e, TextEnds(x, n, i)')
                            /\ Base'[k + 1][i] = GrowBy(Over(i)', Base'[k][i], e)
  <2>1. CASE i \in 1..nextPsect
    <3>1. PICK e \in Nat : IsLongest(e, TextEnds(x, n, i)) /\ Base[k + 1][i] = GrowBy(Over(i), Base[k][i], e)
      BY <1>2, <2>1
    <3>2. Base'[k + 1][i] = GrowBy(Over(i)', Base'[k][i], e)
      BY <2>1, <3>1, OverKept DEF GrowBy
    <3> QED BY <1>6, <3>1, <3>2
  <2>2. CASE i \notin 1..nextPsect
    <3>1. Base'[k + 1][i] = 0 /\ Base'[k][i] = 0
      BY <1>1, <2>2
    <3>2. IsLongest(0, TextEnds(x, n, i)')
      BY <1>1, <1>6, <2>2 DEF IsLongest
    <3>3. Base'[k + 1][i] = GrowBy(Over(i)', Base'[k][i], 0)
      BY <3>1 DEF GrowBy
    <3> QED BY <3>2, <3>3
  <2> QED BY <2>1, <2>2
<1> QED BY <1>4, <1>5, <1>7 DEF Effect, IsLongest

-----------------------------------------------------------------------------
(* What addSym does to the psects of pass 0 *)

\* the table after a handler has entered a psect, and perhaps a class: last entries
Enters(table, last, name, glob, ovr, end) ==
  LET s == SlotAfter(name, "PSECT")
  IN /\ s \in 1..last
     /\ \A i \in 1..nextPsect :
          /\ table[i].name = psectInfo[i].name /\ table[i].kind = psectInfo[i].kind
          /\ table[i].fileId = psectInfo[i].fileId /\ table[i].blk = psectInfo[i].blk
          /\ table[i].glob <=> psectInfo[i].glob \/ (i = s /\ glob)
          /\ table[i].ovr <=> psectInfo[i].ovr \/ (i = s /\ ovr)
          /\ table[i].end = IF i = s /\ psectInfo[i].end < end THEN end ELSE psectInfo[i].end
     /\ \A i \in (nextPsect + 1)..last :
          /\ table[i].fileId = fileIdx /\ table[i].blk = 0
          /\ i = s => /\ table[i].name = name /\ table[i].kind = "PSECT"
                      /\ table[i].glob <=> glob
                      /\ table[i].ovr <=> ovr
                      /\ table[i].end = end
          /\ i # s => table[i].kind = "CLASS" /\ ~table[i].ovr /\ table[i].end = 0

LEMMA EnteredEnters ==
  ASSUME TypeOK, NEW name \in AllNames, NEW glob \in BOOLEAN, NEW ovr \in BOOLEAN,
         NEW abs \in BOOLEAN, nextPsect + Missing(name, "PSECT") <= MaxPsects
  PROVE  Enters(Entered(name, "PSECT", glob, ovr, abs), nextPsect + Missing(name, "PSECT"),
                name, glob, ovr, 0)
<1> DEFINE i == Slot(name, "PSECT")
           q == Merge(psectInfo[i], glob, ovr, abs)
           n == NewPsect(name, "PSECT", glob, ovr, abs)
           new == Entered(name, "PSECT", glob, ovr, abs)
           s == SlotAfter(name, "PSECT")
<1>1. /\ i \in 0..nextPsect /\ nextPsect \in Nat /\ nextPsect \in 1..MaxPsects /\ MaxPsects \in Nat
      /\ psectInfo \in [1..MaxPsects -> PsectEntry]
  BY SlotType, Typed
<1>2. \A j \in 1..nextPsect : psectInfo[j] \in PsectEntry /\ psectInfo[j].end \in Nat
  BY Typed DEF PsectEntry
<1>3. CASE i = 0
  <2>1. /\ new = [psectInfo EXCEPT ![nextPsect + 1] = n] /\ Missing(name, "PSECT") = 1
        /\ s = nextPsect + 1
    BY <1>3 DEF Entered, Missing, SlotAfter
  <2>2. /\ n.name = name /\ n.kind = "PSECT" /\ n.fileId = fileIdx /\ n.blk = 0
        /\ n.end = 0 /\ n.glob = glob /\ n.ovr = ovr
    BY DEF NewPsect
  <2> HIDE DEF n, new, s, i
  <2>3. \A j \in 1..nextPsect : new[j] = psectInfo[j] /\ j # s
    BY <1>1, <2>1
  <2>4. new[s] = n /\ s \in 1..(nextPsect + Missing(name, "PSECT"))
    BY <1>1, <2>1
  <2>5. \A j \in (nextPsect + 1)..(nextPsect + Missing(name, "PSECT")) : j = s
    BY <1>1, <2>1
  <2> QED BY <1>2, <2>2, <2>3, <2>4, <2>5 DEF Enters, new, s
<1>4. CASE i # 0
  <2>1. new = [psectInfo EXCEPT ![i] = q] /\ Missing(name, "PSECT") = 0 /\ s = i
    BY <1>4 DEF Entered, Missing, SlotAfter
  <2>2. i \in 1..nextPsect /\ psectInfo[i] \in PsectEntry
    BY <1>1, <1>4, Typed
  <2>3. /\ q.name = psectInfo[i].name /\ q.kind = psectInfo[i].kind
        /\ q.fileId = psectInfo[i].fileId /\ q.blk = psectInfo[i].blk
        /\ q.end = psectInfo[i].end
        /\ q.glob <=> psectInfo[i].glob \/ glob
        /\ q.ovr <=> psectInfo[i].ovr \/ ovr
    BY <2>2 DEF Merge, PsectEntry
  <2> HIDE DEF i, q, new, s
  <2>4. \A j \in 1..nextPsect : new[j] = IF j = i THEN q ELSE psectInfo[j]
    BY <2>1, Typed
  <2>5. /\ (nextPsect + 1)..(nextPsect + Missing(name, "PSECT")) = {}
        /\ s \in 1..(nextPsect + Missing(name, "PSECT"))
    BY <1>1, <2>1, <2>2
  <2>6. \A j \in 1..nextPsect :
          /\ new[j].name = psectInfo[j].name /\ new[j].kind = psectInfo[j].kind
          /\ new[j].fileId = psectInfo[j].fileId /\ new[j].blk = psectInfo[j].blk
          /\ new[j].glob <=> psectInfo[j].glob \/ (j = s /\ glob)
          /\ new[j].ovr <=> psectInfo[j].ovr \/ (j = s /\ ovr)
          /\ new[j].end = psectInfo[j].end
    BY <2>1, <2>3, <2>4
  <2> QED BY <1>2, <2>5, <2>6 DEF Enters, new, s
<1> QED BY <1>3, <1>4

\* the text of the psect grows
LEMMA GrownEnters ==
  ASSUME TypeOK, NEW table \in [1..MaxPsects -> PsectEntry], NEW last \in 1..MaxPsects,
         nextPsect <= last, NEW name, NEW glob, NEW ovr, NEW end \in Nat,
         Enters(table, last, name, glob, ovr, 0)
  PROVE  Enters(Grown(table, SlotAfter(name, "PSECT"), end), last, name, glob, ovr, end)
<1> DEFINE s == SlotAfter(name, "PSECT")
           new == Grown(table, s, end)
<1>1. /\ s \in 1..last /\ nextPsect \in Nat /\ MaxPsects \in Nat
      /\ \A j \in 1..nextPsect : j \in 1..last /\ psectInfo[j].end \in Nat
      /\ \A j \in (nextPsect + 1)..last : j \in 1..last
  <2>1. s \in 1..last
    BY DEF Enters
  <2>2. \A j \in 1..nextPsect : psectInfo[j].end \in Nat
    BY Typed DEF PsectEntry
  <2> HIDE DEF s
  <2> QED BY <2>1, <2>2, Typed
<1>2. \A j \in 1..last : /\ new[j].name = table[j].name /\ new[j].kind = table[j].kind
                         /\ new[j].fileId = table[j].fileId /\ new[j].blk = table[j].blk
                         /\ new[j].glob = table[j].glob /\ new[j].ovr = table[j].ovr
                         /\ new[j].end = IF j = s /\ table[j].end < end THEN end
                                         ELSE table[j].end
  <2> SUFFICES ASSUME NEW j \in 1..last
               PROVE  /\ new[j].name = table[j].name /\ new[j].kind = table[j].kind
                      /\ new[j].fileId = table[j].fileId /\ new[j].blk = table[j].blk
                      /\ new[j].glob = table[j].glob /\ new[j].ovr = table[j].ovr
                      /\ new[j].end = IF j = s /\ table[j].end < end THEN end
                                      ELSE table[j].end
    OBVIOUS
  <2>1. j \in 1..MaxPsects /\ s \in 1..MaxPsects
    BY <1>1
  <2>2. table[j] \in PsectEntry
    BY <2>1
  <2> HIDE DEF s
  <2> QED BY <2>1, <2>2 DEF Grown, PsectEntry
<1> HIDE DEF new
<1>3. Enters(new, last, name, glob, ovr, end)
  BY <1>1, <1>2 DEF Enters
<1> QED BY <1>3 DEF new

\* a class is entered after the psect
LEMMA ClassEnters ==
  ASSUME TypeOK, NEW table \in [1..MaxPsects -> PsectEntry], NEW n \in Nat, NEW cls \in AllNames,
         NEW name, NEW glob, NEW ovr, Enters(table, nextPsect + n, name, glob, ovr, 0),
         nextPsect + n + 1 <= MaxPsects
  PROVE  Enters([table EXCEPT ![nextPsect + n + 1] = NewPsect(cls, "CLASS", TRUE, FALSE, FALSE)],
                nextPsect + n + 1, name, glob, ovr, 0)
<1> DEFINE c == nextPsect + n + 1
           s == SlotAfter(name, "PSECT")
           q == NewPsect(cls, "CLASS", TRUE, FALSE, FALSE)
           new == [table EXCEPT ![c] = q]
<1>1. nextPsect \in Nat /\ MaxPsects \in Nat /\ c \in 1..MaxPsects
  BY Typed
<1>2. q.kind = "CLASS" /\ q.fileId = fileIdx /\ q.blk = 0 /\ q.ovr = FALSE /\ q.end = 0
  BY DEF NewPsect
<1> HIDE DEF q
<1>3. \A j \in 1..c : new[j] = IF j = c THEN q ELSE table[j]
  <2> SUFFICES ASSUME NEW j \in 1..c PROVE new[j] = IF j = c THEN q ELSE table[j]
    OBVIOUS
  <2>1. j \in 1..MaxPsects
    BY <1>1
  <2> QED BY <2>1
<1>4. \A j \in 1..nextPsect : j \in 1..c /\ j # c
  BY <1>1
<1>5. \A j \in (nextPsect + 1)..c : j \in 1..c /\ (j # c => j \in (nextPsect + 1)..(nextPsect + n))
  BY <1>1
<1>6. s \in 1..(nextPsect + n)
  BY DEF Enters
<1>7. s \in 1..c /\ s # c
  BY <1>1, <1>6
<1> HIDE DEF new, c
<1>8. Enters(new, c, name, glob, ovr, 0)
  BY <1>2, <1>3, <1>4, <1>5, <1>7 DEF Enters
<1> QED BY <1>8 DEF new, q, c

\* The meaning of names after a psect was entered: a psect becomes visible in other
\* files only where no other of its name was made after it.
LEMMA EntersKeeps ==
  ASSUME TypeOK, UniqueVisible, pass = 0, job' = job, fileIdx' = fileIdx, nextPsect' \in Nat,
         nextPsect <= nextPsect', NEW name \in Names, NEW glob, NEW ovr, NEW end,
         nextPsect + Missing(name, "PSECT") <= nextPsect',
         Enters(psectInfo', nextPsect', name, glob, ovr, end)
  PROVE  /\ UniqueVisible' /\ Grows
         /\ \A f \in Nat : KeepsFrom(f)
         /\ PsectFrom'[fileIdx][name] = SlotAfter(name, "PSECT")
<1> DEFINE s == SlotAfter(name, "PSECT")
           i0 == Slot(name, "PSECT")
<1>1. nextPsect \in Nat /\ fileIdx \in Nat /\ s \in 1..nextPsect'
  <2>1. s \in 1..nextPsect'
    BY DEF Enters
  <2> HIDE DEF s
  <2> QED BY <2>1, Typed DEF TypeOK
<1>2. \A i \in 1..nextPsect :
        /\ psectInfo'[i].name = psectInfo[i].name /\ psectInfo'[i].kind = psectInfo[i].kind
        /\ psectInfo'[i].fileId = psectInfo[i].fileId
        /\ psectInfo'[i].glob <=> psectInfo[i].glob \/ (i = s /\ glob)
        /\ psectInfo'[i].ovr <=> psectInfo[i].ovr \/ (i = s /\ ovr)
  BY DEF Enters
<1>3. \A i \in (nextPsect + 1)..nextPsect' :
        /\ psectInfo'[i].fileId = fileIdx
        /\ i = s => psectInfo'[i].name = name /\ psectInfo'[i].kind = "PSECT"
        /\ i # s => psectInfo'[i].kind = "CLASS"
  BY DEF Enters
<1>4. /\ i0 \in 0..nextPsect
      /\ i0 # 0 => /\ s = i0 /\ psectInfo[s].name = name /\ psectInfo[s].kind = "PSECT"
                   /\ psectInfo[s].glob \/ psectInfo[s].fileId = fileIdx \/ job.R
      /\ i0 = 0 => s = nextPsect + 1
  <2>1. i0 = PsectFrom[fileIdx][name]
    BY <1>1, SlotIs
  <2>2. i0 \in 0..nextPsect /\ (i0 # 0 => i0 \in PsectsFrom(fileIdx, name))
    BY <1>1, <2>1, PsectFromIs
  <2> HIDE DEF i0
  <2> QED BY <2>2 DEF PsectsFrom, SlotAfter, i0
<1> HIDE DEF s, i0
<1>5. /\ \A i \in 1..nextPsect : psectInfo[i].fileId <= fileIdx /\ psectInfo[i].fileId \in Nat
      /\ \A i, j \in 1..nextPsect :
           i < j /\ psectInfo[i].kind = "PSECT" /\ psectInfo[j].kind = "PSECT"
                 /\ psectInfo[i].name = psectInfo[j].name =>
             ~job.R /\ ~psectInfo[i].glob /\ psectInfo[i].fileId < psectInfo[j].fileId
  BY Typed DEF UniqueVisible, PsectEntry
\* the psect that is entered is the last of its name
<1>6. \A j \in 1..nextPsect : i0 # 0 /\ s < j =>
        ~(psectInfo[j].kind = "PSECT" /\ psectInfo[j].name = name)
  <2> SUFFICES ASSUME NEW j \in 1..nextPsect, i0 # 0, s < j,
                      psectInfo[j].kind = "PSECT", psectInfo[j].name = name
               PROVE  FALSE
    OBVIOUS
  <2>1. ~job.R /\ ~psectInfo[s].glob /\ psectInfo[s].fileId < psectInfo[j].fileId
    BY <1>1, <1>4, <1>5
  <2>2. psectInfo[s].fileId = fileIdx
    BY <1>4, <2>1
  <2> QED BY <1>5, <2>1, <2>2, <1>1
\* if none was seen, those of its name are local to earlier files
<1>7. \A j \in 1..nextPsect : i0 = 0 /\ psectInfo[j].kind = "PSECT" /\ psectInfo[j].name = name =>
        ~job.R /\ ~psectInfo[j].glob /\ psectInfo[j].fileId < fileIdx
  <2> SUFFICES ASSUME NEW j \in 1..nextPsect, i0 = 0,
                      psectInfo[j].kind = "PSECT", psectInfo[j].name = name
               PROVE  ~job.R /\ ~psectInfo[j].glob /\ psectInfo[j].fileId < fileIdx
    OBVIOUS
  <2> DEFINE S == Slots(name, "PSECT")
             firsts == {i \in S : \A k \in S : i <= k}
  <2>1. firsts = {}
    <3>1. \A i \in S : i # 0
      BY DEF Slots
    <3> HIDE DEF S
    <3> QED BY <3>1 DEF i0, Slot, FirstOf, S
  <2>2. ASSUME j \in S PROVE FALSE
    <3>1. \A k \in S : k \in 1..nextPsect /\ psectInfo[k].kind = "PSECT" /\ psectInfo[k].name = name
                       /\ (psectInfo[k].glob \/ psectInfo[k].fileId = fileIdx \/ job.R)
      BY DEF Slots
    <3> HIDE DEF S
    <3>2. \A k, m \in S : ~(k < m)
      <4> SUFFICES ASSUME NEW k \in S, NEW m \in S, k < m PROVE FALSE
        OBVIOUS
      <4>1. k \in 1..nextPsect /\ m \in 1..nextPsect
        BY <3>1
      <4>2. ~job.R /\ ~psectInfo[k].glob /\ psectInfo[k].fileId < psectInfo[m].fileId
        BY <1>5, <3>1, <4>1
      <4>3. psectInfo[k].fileId = fileIdx
        BY <3>1, <4>2
      <4> QED BY <1>1, <1>5, <4>1, <4>2, <4>3
    <3>3. j \in firsts
      BY <1>1, <2>2, <3>1, <3>2
    <3> QED BY <2>1, <3>3
  <2>3. ~psectInfo[j].glob /\ psectInfo[j].fileId # fileIdx /\ ~job.R
    BY <2>2 DEF Slots
  <2> QED BY <1>1, <1>5, <2>3
<1>8. UniqueVisible'
  <2>1. \A i \in 1..nextPsect' : psectInfo'[i].fileId <= fileIdx
    <3> SUFFICES ASSUME NEW i \in 1..nextPsect' PROVE psectInfo'[i].fileId <= fileIdx
      OBVIOUS
    <3>1. CASE i \in 1..nextPsect
      BY <1>2, <1>5, <3>1
    <3>2. CASE i \notin 1..nextPsect
      <4>1. i \in (nextPsect + 1)..nextPsect'
        BY <1>1, <3>2
      <4> QED BY <1>1, <1>3, <4>1
    <3> QED BY <3>1, <3>2
  <2>2. ASSUME NEW i \in 1..nextPsect', NEW j \in 1..nextPsect', i < j,
               psectInfo'[i].kind = "PSECT", psectInfo'[j].kind = "PSECT",
               psectInfo'[i].name = psectInfo'[j].name
        PROVE  ~job.R /\ ~psectInfo'[i].glob /\ psectInfo'[i].fileId < psectInfo'[j].fileId
    <3>1. CASE j \in 1..nextPsect
      <4>1. i \in 1..nextPsect
        BY <1>1, <2>2, <3>1
      <4>2. ~job.R /\ ~psectInfo[i].glob /\ psectInfo[i].fileId < psectInfo[j].fileId
        BY <1>2, <1>5, <2>2, <3>1, <4>1
      <4>3. i # s
        <5> SUFFICES ASSUME i = s PROVE FALSE
          OBVIOUS
        <5>1. i0 # 0 /\ psectInfo[j].name = name
          BY <1>1, <1>2, <1>4, <2>2, <3>1, <4>1
        <5> QED BY <1>2, <1>6, <2>2, <3>1, <5>1
      <4> QED BY <1>2, <3>1, <4>1, <4>2, <4>3
    <3>2. CASE j \notin 1..nextPsect
      <4>1. j \in (nextPsect + 1)..nextPsect'
        BY <1>1, <3>2
      <4>2. j = s /\ psectInfo'[j].name = name /\ psectInfo'[j].fileId = fileIdx
        BY <1>3, <2>2, <4>1
      <4>3. i \in 1..nextPsect
        <5> SUFFICES ASSUME i \notin 1..nextPsect PROVE FALSE
          OBVIOUS
        <5>1. i \in (nextPsect + 1)..nextPsect' /\ i # s
          BY <1>1, <2>2, <4>2
        <5> QED BY <1>3, <2>2, <5>1
      <4>4. i0 = 0 /\ i # s
        BY <1>1, <1>4, <2>2, <4>1, <4>2
      <4> QED BY <1>2, <1>7, <2>2, <4>2, <4>3, <4>4
    <3> QED BY <3>1, <3>2
  <2> QED BY <2>1, <2>2 DEF UniqueVisible
<1>9. Grows
  BY <1>1, <1>2 DEF Grows
<1>10. ASSUME NEW f \in Nat, NEW n \in Names, PsectFrom[f][n] # 0
       PROVE  PsectFrom'[f][n] = PsectFrom[f][n]
  <2> DEFINE t == PsectFrom[f][n]
  <2>1. t \in PsectsFrom(f, n) /\ \A j \in PsectsFrom(f, n) : t <= j
    BY <1>10, PsectFromIs
  <2> HIDE DEF t
  <2>2. t \in 1..nextPsect /\ psectInfo[t].name = n /\ psectInfo[t].kind = "PSECT"
        /\ (psectInfo[t].glob \/ psectInfo[t].fileId = f \/ job.R)
    BY <2>1 DEF PsectsFrom
  <2>3. t \in PsectsFrom(f, n)'
    BY <1>1, <1>2, <2>2 DEF PsectsFrom
  <2>4. \A j \in PsectsFrom(f, n)' : t <= j
    <3> SUFFICES ASSUME NEW j \in PsectsFrom(f, n)', ~(t <= j) PROVE FALSE
      OBVIOUS
    <3>1. j \in 1..nextPsect' /\ psectInfo'[j].name = n /\ psectInfo'[j].kind = "PSECT"
          /\ (psectInfo'[j].glob \/ psectInfo'[j].fileId = f \/ job.R)
      BY DEF PsectsFrom
    <3>2. j \in 1..nextPsect /\ j < t
      BY <1>1, <2>2, <3>1
    <3>3. j \notin PsectsFrom(f, n)
      BY <2>1
    <3>4. j = s /\ psectInfo[j].name = n /\ psectInfo[j].kind = "PSECT"
      BY <1>2, <3>1, <3>2, <3>3 DEF PsectsFrom
    <3>5. i0 # 0 /\ n = name
      BY <1>1, <1>4, <3>2, <3>4
    <3> QED BY <1>6, <2>2, <3>2, <3>4, <3>5
  <2>5. PsectFrom'[f][n] = t
    BY <2>3, <2>4, LeastFromNext
  <2> QED BY <2>5 DEF t
<1>11. PsectFrom'[fileIdx][name] = s
  <2>1. PsectFrom[fileIdx][name] = i0
    BY <1>1, SlotIs DEF i0
  <2>2. CASE i0 # 0
    BY <1>1, <1>4, <1>10, <2>1, <2>2
  <2>3. CASE i0 = 0
    <3>1. s \in PsectsFrom(fileIdx, name)'
      <4>1. s \in (nextPsect + 1)..nextPsect'
        BY <1>1, <1>4, <2>3
      <4> QED BY <1>1, <1>3, <4>1 DEF PsectsFrom
    <3>2. \A j \in PsectsFrom(fileIdx, name)' : s <= j
      <4> SUFFICES ASSUME NEW j \in PsectsFrom(fileIdx, name)', ~(s <= j) PROVE FALSE
        OBVIOUS
      <4>1. j \in 1..nextPsect' /\ psectInfo'[j].name = name /\ psectInfo'[j].kind = "PSECT"
            /\ (psectInfo'[j].glob \/ psectInfo'[j].fileId = fileIdx \/ job.R)
        BY DEF PsectsFrom
      <4>2. j \in 1..nextPsect /\ j # s
        BY <1>1, <1>4, <2>3, <4>1
      <4>3. ~job.R /\ ~psectInfo[j].glob /\ psectInfo[j].fileId < fileIdx
        BY <1>2, <1>7, <2>3, <4>1, <4>2
      <4> QED BY <1>1, <1>2, <1>5, <4>1, <4>2, <4>3
    <3>3. PICK f \in Nat : f = fileIdx
      BY <1>1
    <3> QED BY <3>1, <3>2, <3>3, LeastFromNext
  <2> QED BY <2>2, <2>3
<1> QED BY <1>8, <1>9, <1>10, <1>11 DEF KeepsFrom, s

-----------------------------------------------------------------------------
(* Sizes that are in bases stay there *)

LEMMA BasesSeq ==
  ASSUME BasesType
  PROVE  /\ Len(bases) \in Nat
         /\ \A k \in 1..Len(bases) : /\ k \in DOMAIN bases /\ k \in Nat
                                    /\ bases[k] \in UNION {[1..m -> Nat] : m \in 1..nextPsect}
<1> DEFINE U == UNION {[1..m -> Nat] : m \in 1..nextPsect}
<1>1. bases \in Seq(U)
  BY DEF BasesType
<1> HIDE DEF U
<1>2. /\ Len(bases) \in Nat
      /\ \A k \in 1..Len(bases) : k \in DOMAIN bases /\ k \in Nat /\ bases[k] \in U
  BY <1>1
<1> QED BY <1>2 DEF U

LEMMA BasesAreSeq ==
  ASSUME BasesType PROVE DOMAIN bases = 1..Len(bases)
<1> DEFINE U == UNION {[1..m -> Nat] : m \in 1..nextPsect}
<1>1. bases \in Seq(U)
  BY DEF BasesType
<1> HIDE DEF U
<1> QED BY <1>1

LEMMA BaseIs ==
  ASSUME TypeOK, BasesType, NEW k \in 1..Len(bases), NEW i \in 1..MaxPsects
  PROVE  /\ Base[k][i] = IF i \in DOMAIN bases[k] THEN bases[k][i] ELSE 0
         /\ Base[k][i] \in Nat
         /\ i > nextPsect => Base[k][i] = 0
<1>1. /\ bases[k] \in UNION {[1..m -> Nat] : m \in 1..nextPsect}
      /\ k \in DOMAIN bases /\ k \in Nat
  BY BasesSeq
<1>2. PICK m \in 1..nextPsect : bases[k] \in [1..m -> Nat]
  BY <1>1
<1>3. Base[k][i] = IF i \in DOMAIN bases[k] THEN bases[k][i] ELSE 0
  BY <1>1 DEF Base
<1>4. i > nextPsect => i \notin 1..m
  BY <1>2, Typed
<1> QED BY <1>2, <1>3, <1>4

\* the module that is read
LEMMA HereIs ==
  ASSUME TypeOK, Positions, pc = "rec"
  PROVE  /\ <<fileIdx, modIdx>> \in Places /\ Valid(<<fileIdx, modIdx>>)
         /\ RecsOf(<<fileIdx, modIdx>>) = CurMod.recs
<1>1. fileIdx \in Nat /\ modIdx \in Nat /\ fileIdx < Len(job.files) /\ modIdx < Len(CurFile.mods)
  BY DEF TypeOK, Positions
<1>2. ModsAt(<<fileIdx, modIdx>>) = CurFile.mods
  BY DEF ModsAt, CurFile
<1>3. RecsOf(<<fileIdx, modIdx>>) = CurMod.recs
  BY <1>2 DEF RecsOf, CurMod
<1> QED BY <1>1, <1>2, <1>3 DEF Valid, Places

LEMMA LoadedValid ==
  ASSUME TypeOK, OInv, pc \notin Lost, NEW k \in 1..Len(loaded[0])
  PROVE  loaded[0][k] \in Places /\ Valid(loaded[0][k])
<1>1. loaded[0][k] \in Places /\ Picked(loaded[0][k])
  BY HistoryType DEF OInv, Picked
<1>2. Chosen(loaded[0][k])
  BY <1>1 DEF OInv, PickedBehind, Rereading, TypeOK
<1> QED BY <1>1, <1>2 DEF Chosen, Valid

LEMMA EffectsKept ==
  ASSUME TypeOK, OInv, Effects, pc \notin Lost, Grows, \A f \in Nat : KeepsFrom(f),
         \A k \in 1..Completed : loaded'[0][k] = loaded[0][k],
         \A k \in 1..(Completed + 1) :
           /\ \A i \in 1..nextPsect : Base'[k][i] = Base[k][i]
           /\ \A i \in (nextPsect + 1)..nextPsect' : Base'[k][i] = 0
  PROVE  \A k \in 1..Completed : \A x \in Places : loaded'[0][k] = x => Effect(x, k)'
<1> SUFFICES ASSUME NEW k \in 1..Completed, NEW x \in Places, loaded'[0][k] = x
             PROVE  Effect(x, k)'
  OBVIOUS
<1>1. Len(loaded[0]) \in Nat
  BY HistoryType DEF OInv
<1>2. Completed \in Int /\ Completed <= Len(loaded[0])
  BY <1>1 DEF Completed
<1>3. k \in 1..Len(loaded[0]) /\ k \in 1..(Completed + 1) /\ k + 1 \in 1..(Completed + 1) /\ k \in Nat
  BY <1>1, <1>2
<1> HIDE DEF Completed
<1>4. loaded[0][k] = x /\ Valid(x)
  BY <1>3, LoadedValid
<1>5. Effect(x, k)
  BY <1>4 DEF Effects
<1>6. x[1] \in Nat
  BY DEF Places
<1>7. /\ \A i \in 1..nextPsect : Base'[k][i] = Base[k][i] /\ Base'[k + 1][i] = Base[k + 1][i]
      /\ \A i \in (nextPsect + 1)..nextPsect' : Base'[k][i] = 0 /\ Base'[k + 1][i] = 0
  BY <1>3
<1> QED BY <1>3, <1>4, <1>5, <1>6, <1>7, EffectKept

\* pass 0 and pass 1 read on in a module
LEMMA ReadsOn ==
  ASSUME TypeOK, Positions, OInv, SInv, pc = "rec", Rec.t # "END", NextRec,
         UNCHANGED <<job, loaded, bases>>, nextPsect' \in 1..MaxPsects, Grows,
         \A f \in Nat : KeepsFrom(f), UniqueVisible', OvrDeclared',
         \A i \in 1..nextPsect : psectInfo'[i].blk = psectInfo[i].blk,
         \A i \in (nextPsect + 1)..nextPsect' : psectInfo'[i].blk = 0,
         NEW x \in Places, x = <<fileIdx, modIdx>>, NEW n \in Nat, recIdx = n + 1,
         recIdx <= Len(CurMod.recs), pass = 0 => Found(x, n + 1)',
         \A i \in 1..nextPsect' : IsLongest(psectInfo'[i].end, TextEnds(x, n + 1, i)')
  PROVE  SInv'
<1>1. UniqueVisible /\ OvrDeclared /\ BasesType /\ EndsFit /\ SizesFit /\ Effects
  BY DEF SInv, Lost
<1>2. /\ UNCHANGED <<pc, pass, fileIdx, modIdx>> /\ recIdx' = n + 2
      /\ x = <<fileIdx', modIdx'>> /\ nextPsect \in Nat /\ MaxPsects \in Nat
      /\ nextPsect' \in Nat /\ nextPsect <= nextPsect'
      /\ Valid(x) /\ RecsOf(x) = CurMod.recs /\ RecsOf(x)' = RecsOf(x)
      /\ Len(RecsOf(x)) \in Nat
  <2>1. Valid(x) /\ RecsOf(x) = CurMod.recs
    BY HereIs
  <2>2. Len(RecsOf(x)) \in Nat
    BY <2>1, ValidRecs
  <2>3. RecsOf(x)' = RecsOf(x)
    BY SameJob
  <2> QED BY <2>1, <2>2, <2>3, Typed DEF NextRec, Grows
<1>3. /\ Len(loaded[0]) \in Nat /\ Len(loaded[1]) \in Nat /\ pass \in {0, 1}
      /\ pass = 0 => Len(bases) = Len(loaded[0]) /\ Len(loaded[0]) >= 1
      /\ pass = 1 => Len(bases) = Len(loaded[0]) + 1 /\ Len(loaded[1]) >= 1
                     /\ Len(loaded[1]) <= Len(loaded[0])
  <2>1. Len(loaded[0]) \in Nat /\ Len(loaded[1]) \in Nat /\ pass \in {0, 1}
        /\ loaded[0] \in Seq(Places) /\ loaded[1] \in Seq(Places)
    BY HistoryType DEF OInv, TypeOK
  <2>2. loaded[pass] # <<>>
    BY DEF OInv, EnteredLast
  <2>3. pass = 0 => Len(loaded[0]) >= 1
    BY <2>1, <2>2
  <2>4. pass = 1 => Len(loaded[1]) >= 1 /\ Len(loaded[1]) <= Len(loaded[0])
    BY <2>1, <2>2 DEF OInv, Rereading, Lost
  <2>5. Len(bases) = Len(loaded[0]) + (IF pass = 0 THEN 0 ELSE 1)
    BY <1>1 DEF BasesType, InPass0
  <2>6. pass = 0 => Len(bases) = Len(loaded[0])
    BY <2>1, <2>5
  <2>7. pass = 1 => Len(bases) = Len(loaded[0]) + 1
    BY <2>5
  <2> QED BY <2>1, <2>3, <2>4, <2>6, <2>7
<1>4. BasesType' /\ \A k \in 1..Len(bases) : \A i \in 1..MaxPsects : Base'[k][i] = Base[k][i]
  <2>1. bases' \in Seq(UNION {[1..m -> Nat] : m \in 1..nextPsect'})
    <3>1. UNION {[1..m -> Nat] : m \in 1..nextPsect}
            \subseteq UNION {[1..m -> Nat] : m \in 1..nextPsect'}
      BY <1>2
    <3>2. bases \in Seq(UNION {[1..m -> Nat] : m \in 1..nextPsect})
      BY <1>1 DEF BasesType
    <3> DEFINE A == UNION {[1..m -> Nat] : m \in 1..nextPsect}
               B == UNION {[1..m -> Nat] : m \in 1..nextPsect'}
    <3>3. A \subseteq B /\ bases \in Seq(A)
      BY <3>1, <3>2
    <3> HIDE DEF A, B
    <3>4. bases \in Seq(B)
      BY <3>3
    <3> QED BY <3>4 DEF B
  <2>2. Len(bases') = Len(loaded'[0]) + (IF InPass0' THEN 0 ELSE 1)
    BY <1>1, <1>2 DEF BasesType, InPass0
  <2>3. \A k \in 1..Len(bases) : \A i \in 1..MaxPsects : Base'[k][i] = Base[k][i]
    <3> SUFFICES ASSUME NEW k \in 1..Len(bases), NEW i \in 1..MaxPsects
                 PROVE  Base'[k][i] = Base[k][i]
      OBVIOUS
    <3>1. k \in DOMAIN bases /\ k \in Nat
      BY <1>1, BasesSeq
    <3> QED BY <3>1 DEF Base
  <2>4. \A i \in 1..nextPsect' : Base'[1][i] = 0
    <3> SUFFICES ASSUME NEW i \in 1..nextPsect' PROVE Base'[1][i] = 0
      OBVIOUS
    <3>1. i \in 1..MaxPsects /\ 1 \in 1..Len(bases)
      BY <1>2, <1>3
    <3>2. Base'[1][i] = Base[1][i]
      BY <2>3, <3>1
    <3>3. i > nextPsect => Base[1][i] = 0
      BY <1>1, <3>1, BaseIs
    <3>4. i \in 1..nextPsect => Base[1][i] = 0
      BY <1>1 DEF BasesType
    <3> QED BY <1>2, <3>2, <3>3, <3>4
  <2> QED BY <2>1, <2>2, <2>3, <2>4 DEF BasesType
<1>5. ASSUME NEW k \in 1..Len(bases)
      PROVE  /\ \A i \in 1..nextPsect : Base'[k][i] = Base[k][i]
             /\ \A i \in (nextPsect + 1)..nextPsect' : Base'[k][i] = 0 /\ Base[k][i] = 0
  <2>1. /\ \A i \in 1..nextPsect : i \in 1..MaxPsects
        /\ \A i \in (nextPsect + 1)..nextPsect' : i \in 1..MaxPsects /\ i > nextPsect
    BY <1>2, Typed
  <2> QED BY <1>1, <1>4, <2>1, BaseIs
<1>6. EndsFit'
  <2> SUFFICES ASSUME NEW y \in Places, NEW m \in Nat, y = <<fileIdx', modIdx'>>, recIdx' = m + 1
               PROVE  ReadSoFar(y, m)'
    BY <1>2 DEF EndsFit
  <2>1. y = x /\ m = n + 1
    BY <1>2
  <2>2. ReadSoFar(x, n)
    BY <1>1 DEF EndsFit
  <2>3. \A j \in 1..(n + 1) : InBody(RecsOf(x), j)
    <3>1. \A j \in 1..n : InBody(RecsOf(x), j)
      BY <2>2 DEF ReadSoFar
    <3>2. InBody(RecsOf(x), n + 1)
      <4>1. RecsOf(x)[n + 1].t # "END" /\ n + 1 \in 1..Len(RecsOf(x))
        BY <1>2 DEF Rec
      <4>2. \A j \in 1..n : RecsOf(x)[j].t # "END"
        <5> SUFFICES ASSUME NEW j \in 1..n PROVE RecsOf(x)[j].t # "END"
          OBVIOUS
        <5>1. InBody(RecsOf(x), j) /\ j \in 1..j
          BY <3>1
        <5> QED BY <5>1 DEF InBody
      <4>3. \A j \in 1..(n + 1) : j = n + 1 \/ j \in 1..n
        OBVIOUS
      <4> QED BY <4>1, <4>2, <4>3 DEF InBody
    <3>3. \A j \in 1..(n + 1) : j = n + 1 \/ j \in 1..n
      OBVIOUS
    <3> QED BY <3>1, <3>2, <3>3
  <2>4. pass = 0 => \A j \in 1..(n + 1) : Found(x, j)'
    <3> SUFFICES ASSUME pass = 0, NEW j \in 1..(n + 1) PROVE Found(x, j)'
      OBVIOUS
    <3>1. CASE j = n + 1
      BY <3>1
    <3>2. CASE j \in 1..n
      <4>1. Found(x, j)
        BY <2>2, <3>2 DEF ReadSoFar
      <4>2. j \in 1..Len(RecsOf(x)) /\ x[1] \in Nat
        BY <1>2, <3>2, ValidRecs
      <4> QED BY <1>2, <4>1, <4>2, FoundKept
    <3> QED BY <3>1, <3>2
  <2>5. (\A j \in 1..(n + 1) : InBody(RecsOf(x), j))'
    BY <1>2, <2>3
  <2>6. ReadSoFar(x, n + 1)'
    BY <1>2, <2>4, <2>5 DEF ReadSoFar
  <2> QED BY <2>1, <2>6
<1>7. SizesFit'
  <2>1. pass = 0 => Len(bases) \in 1..Len(bases)
    BY <1>3
  <2>2. pass = 1 => Len(loaded[1]) \in 1..Len(bases)
    BY <1>3
  <2> SUFFICES ASSUME NEW i \in 1..nextPsect'
               PROVE /\ pass = 0 => psectInfo'[i].blk = Base'[Len(bases)][i]
                     /\ pass = 1 => psectInfo'[i].blk = Base'[Len(loaded[1])][i]
    BY <1>2 DEF SizesFit, Layout
  <2>3. CASE i \in 1..nextPsect
    BY <1>1, <1>5, <2>1, <2>2, <2>3 DEF SizesFit
  <2>4. CASE i \in (nextPsect + 1)..nextPsect'
    BY <1>5, <2>1, <2>2, <2>4
  <2> QED BY <1>2, <2>3, <2>4
<1>8. Effects'
  <2>1. Completed' = Completed /\ Completed \in Int /\ Completed + 1 <= Len(bases)
    BY <1>2, <1>3 DEF Completed
  <2>2. \A k \in 1..(Completed + 1) : k \in 1..Len(bases)
    BY <1>3, <2>1
  <2>3. \A k \in 1..Completed : \A y \in Places : loaded'[0][k] = y => Effect(y, k)'
    <3> HIDE DEF Completed
    <3> QED BY <1>1, <1>5, <2>2, EffectsKept DEF Lost
  <2> QED BY <2>1, <2>3 DEF Effects
<1> QED BY <1>4, <1>6, <1>7, <1>8 DEF SInv

-----------------------------------------------------------------------------
(* The handlers of pass 0 that enter psects *)

\* the longest text so far, and one more
LEMMA LongestNext ==
  ASSUME NEW T \in SUBSET Nat, NEW e \in Nat, IsLongest(e, T), NEW end \in Nat,
         NEW g, g = IF e < end THEN end ELSE e
  PROVE  IsLongest(g, T \cup {end})
<1>1. e \in T \cup {0} /\ \A d \in T : d \in Nat /\ d <= e
  BY DEF IsLongest
<1>2. g \in (T \cup {end}) \cup {0}
  BY <1>1
<1>3. e <= g /\ end <= g /\ g \in Nat
  OBVIOUS
<1>4. \A d \in T \cup {end} : d <= g
  BY <1>1, <1>3
<1> QED BY <1>2, <1>4 DEF IsLongest

LEMMA EntersPasses ==
  ASSUME TypeOK, Positions, OInv, SInv, pc = "rec", pass = 0, recIdx <= Len(CurMod.recs),
         Rec.t # "END", NextRec, UNCHANGED <<job, loaded, bases>>, nextPsect' \in 1..MaxPsects,
         NEW name \in Names, NEW glob, NEW ovr, NEW end \in Nat,
         nextPsect + Missing(name, "PSECT") <= nextPsect',
         Enters(psectInfo', nextPsect', name, glob, ovr, end),
         Rec.t \in {"TEXT", "PSECT"} => Rec.psect = name,
         IF Rec.t = "TEXT" THEN end = Rec.off + Rec.len ELSE end = 0,
         ovr => Rec.t = "PSECT" /\ Rec.ovr, Rec.t = "PSECT" /\ Rec.ovr => ovr
  PROVE  SInv'
<1> DEFINE s == SlotAfter(name, "PSECT")
<1>1. UniqueVisible /\ OvrDeclared /\ EndsFit
  BY DEF SInv, Lost
<1>2. PICK x \in Places : x = <<fileIdx, modIdx>>
  BY HereIs
<1>3. PICK n \in Nat : recIdx = n + 1
  <2>1. recIdx \in Nat \ {0}
    BY DEF TypeOK
  <2>2. recIdx = (recIdx - 1) + 1 /\ recIdx - 1 \in Nat
    BY <2>1
  <2> QED BY <2>2
<1>4. /\ Valid(x) /\ RecsOf(x) = CurMod.recs /\ Len(RecsOf(x)) \in Nat
      /\ n + 1 \in 1..Len(RecsOf(x)) /\ RecsOf(x)[n + 1] = Rec /\ RecsOf(x)' = RecsOf(x)
      /\ n <= Len(RecsOf(x)) /\ x[1] = fileIdx /\ fileIdx \in Nat
  <2>1. Valid(x) /\ RecsOf(x) = CurMod.recs
    BY <1>2, HereIs
  <2>2. Len(RecsOf(x)) \in Nat
    BY <2>1, ValidRecs
  <2>3. n + 1 \in 1..Len(RecsOf(x)) /\ n <= Len(RecsOf(x))
    BY <1>3, <2>1, <2>2
  <2>4. RecsOf(x)[n + 1] = Rec
    BY <1>3, <2>1 DEF Rec
  <2>5. RecsOf(x)' = RecsOf(x)
    BY SameJob
  <2> QED BY <1>2, <2>1, <2>2, <2>3, <2>4, <2>5 DEF TypeOK
<1>5. /\ UniqueVisible' /\ Grows /\ \A f \in Nat : KeepsFrom(f)
      /\ PsectFrom'[fileIdx][name] = s
  <2>1. fileIdx' = fileIdx /\ nextPsect' \in Nat /\ nextPsect \in Nat /\ nextPsect <= nextPsect'
    <3>1. Missing(name, "PSECT") \in {0, 1}
      BY DEF Missing
    <3> HIDE DEF s
    <3> QED BY <3>1, Typed DEF NextRec
  <2> QED BY <1>1, <2>1, EntersKeeps
<1>6. /\ s \in 1..nextPsect' /\ nextPsect \in Nat /\ nextPsect' \in Nat /\ nextPsect <= nextPsect'
      /\ 1 \in 1..nextPsect
  <2>1. s \in 1..nextPsect'
    BY DEF Enters
  <2> HIDE DEF s
  <2> QED BY <1>5, <2>1, Typed DEF Grows
<1>7. \A i \in 1..nextPsect :
        /\ psectInfo'[i].name = psectInfo[i].name /\ psectInfo'[i].blk = psectInfo[i].blk
        /\ psectInfo'[i].ovr <=> psectInfo[i].ovr \/ (i = s /\ ovr)
        /\ psectInfo'[i].end = IF i = s /\ psectInfo[i].end < end THEN end ELSE psectInfo[i].end
        /\ psectInfo[i].end \in Nat
  BY Typed DEF Enters, PsectEntry
<1>8. \A i \in (nextPsect + 1)..nextPsect' :
        /\ psectInfo'[i].blk = 0
        /\ i = s => psectInfo'[i].name = name /\ (psectInfo'[i].ovr <=> ovr) /\ psectInfo'[i].end = end
        /\ i # s => ~psectInfo'[i].ovr /\ psectInfo'[i].end = 0
  BY DEF Enters
<1>9. s \in 1..nextPsect => psectInfo[s].name = name
  <2>1. PsectFrom'[fileIdx][name] \in PsectsFrom(fileIdx, name)'
    <3>1. PsectFrom[fileIdx][name] = Slot(name, "PSECT")
      BY <1>4, SlotIs
    <3>2. s = nextPsect + 1 \/ s = Slot(name, "PSECT")
      BY DEF SlotAfter
    <3>3. ASSUME s = nextPsect + 1 PROVE PsectFrom'[fileIdx][name] \in PsectsFrom(fileIdx, name)'
      <4>1. s \in (nextPsect + 1)..nextPsect'
        BY <1>6, <3>3
      <4>2. psectInfo'[s].name = name /\ psectInfo'[s].kind = "PSECT" /\ psectInfo'[s].fileId = fileIdx
        BY <4>1 DEF Enters
      <4> HIDE DEF s
      <4> QED BY <1>4, <1>5, <1>6, <4>2 DEF PsectsFrom, NextRec
    <3>4. ASSUME s # nextPsect + 1 PROVE PsectFrom'[fileIdx][name] \in PsectsFrom(fileIdx, name)'
      <4>1. s \in PsectsFrom(fileIdx, name)
        BY <1>4, <1>6, <3>1, <3>2, <3>4, PsectFromIs
      <4>2. /\ s \in 1..nextPsect /\ psectInfo[s].name = name /\ psectInfo[s].kind = "PSECT"
            /\ psectInfo[s].glob \/ psectInfo[s].fileId = fileIdx \/ job.R
        BY <4>1 DEF PsectsFrom
      <4>3. /\ psectInfo'[s].name = psectInfo[s].name /\ psectInfo'[s].kind = psectInfo[s].kind
            /\ psectInfo'[s].fileId = psectInfo[s].fileId
            /\ psectInfo[s].glob => psectInfo'[s].glob
        BY <4>2 DEF Enters
      <4> HIDE DEF s
      <4> QED BY <1>4, <1>5, <1>6, <4>2, <4>3 DEF PsectsFrom, NextRec
    <3> QED BY <3>3, <3>4
  <2>2. psectInfo'[s].name = name
    BY <1>5, <2>1 DEF PsectsFrom
  <2> HIDE DEF s
  <2> QED BY <1>7, <2>2
<1> HIDE DEF s
<1>10. OvrDeclared'
  <2>1. ovr => Overlaid(name)
    <3> SUFFICES ASSUME ovr PROVE Overlaid(name)
      OBVIOUS
    <3>1. Overlays(RecsOf(x), name)
      BY <1>4 DEF Overlays
    <3> QED BY <1>4, <3>1, ValidPlace DEF Overlaid
  <2>2. \A m : Overlaid(m)' <=> Overlaid(m)
    BY SameJob
  <2>3. ASSUME NEW i \in 1..nextPsect', psectInfo'[i].ovr PROVE Overlaid(psectInfo'[i].name)
    <3>1. CASE i \in 1..nextPsect
      BY <1>1, <1>7, <1>9, <2>1, <2>3, <3>1 DEF OvrDeclared
    <3>2. CASE i \notin 1..nextPsect
      <4>1. i \in (nextPsect + 1)..nextPsect'
        BY <1>6, <3>2
      <4> QED BY <1>8, <2>1, <2>3, <4>1
    <3> QED BY <3>1, <3>2
  <2>4. psectInfo'[1].ovr
    BY <1>1, <1>6, <1>7 DEF OvrDeclared
  <2> QED BY <2>2, <2>3, <2>4, SameJob DEF OvrDeclared, Overlaid
<1>11. Found(x, n + 1)'
  <2>1. psectInfo'[s].ovr \/ ~ovr
    <3>1. CASE s \in 1..nextPsect
      BY <1>7, <3>1
    <3>2. CASE s \notin 1..nextPsect
      <4>1. s \in (nextPsect + 1)..nextPsect'
        BY <1>6, <3>2
      <4> QED BY <1>8, <4>1
    <3> QED BY <3>1, <3>2
  <2>2. s # 0
    BY <1>6
  <2> QED BY <1>4, <1>5, <2>1, <2>2 DEF Found
<1>12. ReadSoFar(x, n)
  BY <1>1, <1>2, <1>3 DEF EndsFit
<1>13. ASSUME NEW i \in 1..nextPsect'
       PROVE  IsLongest(psectInfo'[i].end, TextEnds(x, n + 1, i)')
  <2> DEFINE T == TextEnds(x, n, i)
  <2>1. /\ TextEnds(x, n, i)' = T
        /\ i \notin 1..nextPsect => T = {}
    <3>1. \A j \in 1..n : Found(x, j)
      BY <1>12 DEF ReadSoFar
    <3>2. KeepsFrom(x[1])
      BY <1>4, <1>5
    <3>3. i \notin 1..nextPsect => i \notin 0..nextPsect
      BY <1>6
    <3> QED BY <1>4, <1>5, <3>1, <3>2, <3>3, TextEndsKept
  <2>2. TextEnds(x, n + 1, i)' = T \cup (IF Rec.t = "TEXT" /\ i = s THEN {end} ELSE {})
    <3>1. TextsOf(x, n + 1, i)' = TextsOf(x, n, i)'
             \cup (IF Rec.t = "TEXT" /\ i = s THEN {n + 1} ELSE {})
      <4>1. \A j : j \in 1..(n + 1) <=> j \in 1..n \/ j = n + 1
        OBVIOUS
      <4>2. n + 1 \in TextsOf(x, n + 1, i)' <=> Rec.t = "TEXT" /\ i = s
        BY <1>4, <1>5, <4>1 DEF TextsOf
      <4>3. \A j \in 1..n : j \in TextsOf(x, n + 1, i)' <=> j \in TextsOf(x, n, i)'
        BY <4>1 DEF TextsOf
      <4>4. /\ \A j \in TextsOf(x, n + 1, i)' : j \in 1..n \/ j = n + 1
            /\ \A j \in TextsOf(x, n, i)' : j \in 1..n
        BY <4>1 DEF TextsOf
      <4> QED BY <4>2, <4>3, <4>4
    <3>2. Rec.t = "TEXT" => end = RecsOf(x)[n + 1].off + RecsOf(x)[n + 1].len
      BY <1>4
    <3> HIDE DEF T
    <3>3. TextEnds(x, n + 1, i)' = TextEnds(x, n, i)' \cup (IF Rec.t = "TEXT" /\ i = s THEN {end} ELSE {})
      BY <1>4, <3>1, <3>2 DEF TextEnds
    <3> QED BY <2>1, <3>3
  <2>3. T \subseteq Nat
    BY <1>4, TextEndsType
  <2>4. i \in 1..nextPsect => IsLongest(psectInfo[i].end, T)
    BY <1>12 DEF ReadSoFar
  <2> HIDE DEF T
  <2>5. CASE i \in 1..nextPsect
    <3>1. /\ psectInfo[i].end \in T \cup {0} /\ \A d \in T : d <= psectInfo[i].end
          /\ psectInfo[i].end \in Nat
      BY <1>7, <2>4, <2>5 DEF IsLongest
    <3>2. psectInfo'[i].end = IF i = s /\ psectInfo[i].end < end THEN end ELSE psectInfo[i].end
      BY <1>7, <2>5
    <3>3. CASE Rec.t = "TEXT" /\ i = s
      <4>1. TextEnds(x, n + 1, i)' = T \cup {end}
        BY <2>2, <3>3
      <4>2. psectInfo'[i].end = IF psectInfo[i].end < end THEN end ELSE psectInfo[i].end
        BY <3>2, <3>3
      <4>3. T \in SUBSET Nat /\ IsLongest(psectInfo[i].end, T) /\ psectInfo[i].end \in Nat
        BY <2>3, <2>4, <2>5, <3>1
      <4> QED BY <4>1, <4>2, <4>3, LongestNext
    <3>4. CASE ~(Rec.t = "TEXT" /\ i = s)
      <4>1. TextEnds(x, n + 1, i)' = T /\ psectInfo'[i].end = psectInfo[i].end
        BY <2>2, <3>1, <3>2, <3>4
      <4> QED BY <3>1, <4>1 DEF IsLongest
    <3> QED BY <3>3, <3>4
  <2>6. CASE i \notin 1..nextPsect
    <3>1. i \in (nextPsect + 1)..nextPsect'
      BY <1>6, <2>6
    <3>2. psectInfo'[i].end = IF i = s THEN end ELSE 0
      BY <1>8, <3>1
    <3>3. TextEnds(x, n + 1, i)' = IF Rec.t = "TEXT" /\ i = s THEN {end} ELSE {}
      BY <2>1, <2>2, <2>6
    <3> QED BY <3>2, <3>3 DEF IsLongest
  <2> QED BY <2>5, <2>6
<1> QED BY <1>2, <1>3, <1>4, <1>5, <1>7, <1>8, <1>10, <1>11, <1>13, ReadsOn

\* A handler of pass 0 has entered the psect that its record names.
EntersRec ==
  /\ pc = "rec" /\ pass = 0 /\ recIdx <= Len(CurMod.recs) /\ Rec.t # "END" /\ NextRec
  /\ UNCHANGED <<job, loaded, bases>> /\ nextPsect' \in 1..MaxPsects
  /\ \E name \in Names, glob, ovr \in BOOLEAN, end \in Nat :
       /\ nextPsect + Missing(name, "PSECT") <= nextPsect'
       /\ Enters(psectInfo', nextPsect', name, glob, ovr, end)
       /\ Rec.t \in {"TEXT", "PSECT", "SYM"} => Rec.psect = name
       /\ IF Rec.t = "TEXT" THEN end = Rec.off + Rec.len ELSE end = 0
       /\ ovr => Rec.t = "PSECT" /\ Rec.ovr
       /\ Rec.t = "PSECT" /\ Rec.ovr => ovr

LEMMA FatalPasses == Fatal => SInv'
BY DEF Fatal, SInv, Lost

LEMMA LostPasses == pc' \in Lost => SInv'
BY DEF SInv

LEMMA EntersRecPasses ==
  ASSUME TypeOK, Positions, OInv, SInv, EntersRec PROVE SInv'
<1>1. PICK name \in Names, glob, ovr \in BOOLEAN, end \in Nat :
        /\ nextPsect + Missing(name, "PSECT") <= nextPsect'
        /\ Enters(psectInfo', nextPsect', name, glob, ovr, end)
        /\ Rec.t \in {"TEXT", "PSECT", "SYM"} => Rec.psect = name
        /\ IF Rec.t = "TEXT" THEN end = Rec.off + Rec.len ELSE end = 0
        /\ ovr => Rec.t = "PSECT" /\ Rec.ovr
        /\ Rec.t = "PSECT" /\ Rec.ovr => ovr
  BY DEF EntersRec
<1>2. /\ pc = "rec" /\ pass = 0 /\ recIdx <= Len(CurMod.recs) /\ Rec.t # "END" /\ NextRec
      /\ UNCHANGED <<job, loaded, bases>> /\ nextPsect' \in 1..MaxPsects
  BY DEF EntersRec
<1> QED BY <1>1, <1>2, EntersPasses

LEMMA NameEnters ==
  ASSUME pc = "rec", pass = 0, recIdx <= Len(CurMod.recs), Rec.t # "END", NextRec,
         UNCHANGED <<job, loaded, bases>>, nextPsect' \in 1..MaxPsects,
         NEW name \in Names, NEW glob \in BOOLEAN, NEW ovr \in BOOLEAN, NEW end \in Nat,
         nextPsect + Missing(name, "PSECT") <= nextPsect',
         Enters(psectInfo', nextPsect', name, glob, ovr, end),
         Rec.t \in {"TEXT", "PSECT", "SYM"} => Rec.psect = name,
         IF Rec.t = "TEXT" THEN end = Rec.off + Rec.len ELSE end = 0,
         ovr => Rec.t = "PSECT" /\ Rec.ovr, Rec.t = "PSECT" /\ Rec.ovr => ovr
  PROVE  EntersRec
BY Zenon DEF EntersRec

LEMMA PsectRecEnters ==
  ASSUME TypeOK, Positions, PsectRec PROVE EntersRec \/ Fatal
<1> DEFINE k == Missing(Rec.psect, "PSECT")
<1>1. CASE ~Room(k, 0)
  BY <1>1, Zenon DEF PsectRec
<1>2. CASE Room(k, 0)
  <2>1. /\ Rec \in Record /\ Rec.t = "PSECT" /\ pc = "rec" /\ pass = 0
        /\ recIdx <= Len(CurMod.recs)
    BY ReadingRec DEF PsectRec, Reading
  <2>2. /\ Rec.psect \in PsectNames /\ Rec.glob \in BOOLEAN
        /\ Rec.ovr \in BOOLEAN /\ Rec.abs \in BOOLEAN
    BY <2>1, RecordFields
  <2>3. k \in Nat /\ nextPsect + k <= MaxPsects
    <3>1. k \in Nat
      BY DEF Missing
    <3> QED BY <1>2, <3>1, RoomType
  <2>4. /\ psectInfo' = Entered(Rec.psect, "PSECT", Rec.glob, Rec.ovr, Rec.abs)
        /\ nextPsect' = nextPsect + k
        /\ NextRec /\ UNCHANGED <<job, loaded, bases>>
    BY <1>2 DEF PsectRec, histVars
  <2>5. Enters(psectInfo', nextPsect', Rec.psect, Rec.glob, Rec.ovr, 0)
    BY <2>2, <2>3, <2>4, EnteredEnters DEF AllNames
  <2>6. /\ nextPsect' \in 1..MaxPsects /\ nextPsect + k <= nextPsect' /\ Rec.psect \in Names
    <3> HIDE DEF k
    <3> QED BY <2>2, <2>3, <2>4, Typed DEF Names
  <2> QED BY <2>1, <2>2, <2>4, <2>5, <2>6, NameEnters
<1> QED BY <1>1, <1>2

LEMMA TextRecPass1Enters ==
  ASSUME TypeOK, Positions, TextRecPass1 PROVE EntersRec \/ Fatal
<1> DEFINE k == Missing(Rec.psect, "PSECT")
           i == SlotAfter(Rec.psect, "PSECT")
           new == Mentioned(Rec.psect)
           end == Rec.off + Rec.len
<1>1. CASE ~Room(k, 0)
  BY <1>1, Zenon DEF TextRecPass1
<1>2. CASE Room(k, 0)
  <2>1. /\ Rec \in Record /\ Rec.t = "TEXT" /\ pc = "rec" /\ pass = 0
        /\ recIdx <= Len(CurMod.recs)
    BY ReadingRec DEF TextRecPass1, Reading
  <2>2. Rec.psect \in Names /\ Rec.psect \in AllNames /\ end \in Nat
    BY <2>1, RecordFields DEF AllNames, Names
  <2>3. k \in Nat /\ nextPsect + k <= MaxPsects
    <3>1. k \in Nat
      BY DEF Missing
    <3> QED BY <1>2, <3>1, RoomType
  <2>4. /\ psectInfo' = Grown(new, i, end)
        /\ nextPsect' = nextPsect + k
        /\ NextRec /\ UNCHANGED <<job, loaded, bases>>
    BY <1>2 DEF TextRecPass1, histVars
  <2>5. Enters(new, nextPsect + k, Rec.psect, FALSE, FALSE, 0)
        /\ new \in [1..MaxPsects -> PsectEntry] /\ nextPsect + k \in 1..MaxPsects
    BY <2>2, <2>3, EnteredEnters, EnteredType DEF Mentioned
  <2> HIDE DEF new, end, k
  <2>6. nextPsect <= nextPsect + k
    BY <2>3, Typed
  <2>7. Enters(psectInfo', nextPsect', Rec.psect, FALSE, FALSE, end)
    BY <2>2, <2>4, <2>5, <2>6, GrownEnters
  <2>8. nextPsect' \in 1..MaxPsects /\ nextPsect + k <= nextPsect'
    BY <2>3, <2>4, <2>5, Typed
  <2> QED BY <2>1, <2>2, <2>4, <2>7, <2>8, NameEnters DEF k, end
<1> QED BY <1>1, <1>2

LEMMA SymNullPass1Enters ==
  ASSUME TypeOK, Positions, SymNullPass1 PROVE EntersRec \/ Fatal
<1> DEFINE k == Missing(Rec.psect, "PSECT")
           m == IF Rec.glob THEN NewSym(Rec.name) ELSE 0
<1>1. CASE ~Room(k, m)
  BY <1>1, Zenon DEF SymNullPass1
<1>2. CASE Room(k, m)
  <2>1. /\ Rec \in Record /\ Rec.t = "SYM" /\ Rec.low = "NULL" /\ pc = "rec" /\ pass = 0
        /\ recIdx <= Len(CurMod.recs)
    BY ReadingRec DEF SymNullPass1, Reading
  <2>2. Rec.psect \in Names /\ Rec.psect \in AllNames
    BY <2>1, RecordFields DEF AllNames, Names
  <2>3. k \in Nat /\ nextPsect + k <= MaxPsects
    <3>1. k \in Nat /\ m \in Nat
      BY DEF Missing, NewSym
    <3> QED BY <1>2, <3>1, RoomType
  <2>4. /\ psectInfo' = Mentioned(Rec.psect)
        /\ nextPsect' = nextPsect + k
        /\ NextRec /\ UNCHANGED <<job, loaded, bases>>
    BY <1>2 DEF SymNullPass1, histVars
  <2>5. Enters(psectInfo', nextPsect', Rec.psect, FALSE, FALSE, 0)
    BY <2>2, <2>3, <2>4, EnteredEnters DEF Mentioned
  <2>6. nextPsect' \in 1..MaxPsects /\ nextPsect + k <= nextPsect'
    <3> HIDE DEF k
    <3> QED BY <2>3, <2>4, Typed
  <2> QED BY <2>1, <2>2, <2>4, <2>5, <2>6, NameEnters
<1> QED BY <1>1, <1>2

LEMMA XpsectRecEnters ==
  ASSUME TypeOK, Positions, XpsectRec PROVE EntersRec \/ Fatal
<1> DEFINE n == Missing(Rec.psect, "PSECT")
           i == SlotAfter(Rec.psect, "PSECT")
           c == IF Slot(Rec.cls, "CLASS") = 0 THEN nextPsect + n + 1 ELSE Slot(Rec.cls, "CLASS")
           k == IF Rec.cls = NoName THEN 0 ELSE Missing(Rec.cls, "CLASS")
           withPsect == Mentioned(Rec.psect)
           withClass == IF k = 1
                        THEN [withPsect EXCEPT ![c] = NewPsect(Rec.cls, "CLASS", TRUE, FALSE, FALSE)]
                        ELSE withPsect
<1>1. CASE ~Room(n + k, 0)
  BY <1>1, Zenon DEF XpsectRec
<1>2. CASE Room(n + k, 0)
  <2>1. /\ Rec \in Record /\ Rec.t = "XPSECT" /\ pc = "rec" /\ pass = 0
        /\ recIdx <= Len(CurMod.recs)
    BY ReadingRec DEF XpsectRec, Reading
  <2>2. /\ Rec.psect \in Names /\ Rec.psect \in AllNames /\ Rec.cls \in ClassNames \cup {NoName}
    BY <2>1, RecordFields DEF AllNames, Names
  <2>3. n \in {0, 1} /\ k \in {0, 1} /\ nextPsect \in Nat /\ MaxPsects \in Nat
    BY Typed DEF Missing
  <2>4. nextPsect + (n + k) <= MaxPsects
    BY <1>2, <2>3, RoomType
  <2>5. nextPsect + n <= MaxPsects
    <3> HIDE DEF n, k
    <3> QED BY <2>3, <2>4
  <2>6. /\ withPsect \in [1..MaxPsects -> PsectEntry]
        /\ Enters(withPsect, nextPsect + n, Rec.psect, FALSE, FALSE, 0)
    BY <2>2, <2>5, EnteredType, EnteredEnters DEF Mentioned
  <2>7. /\ Enters(withClass, nextPsect + n + k, Rec.psect, FALSE, FALSE, 0)
        /\ withClass \in [1..MaxPsects -> PsectEntry]
    <3>1. CASE k = 1
      <4>1. Rec.cls \in AllNames /\ c = nextPsect + n + 1
        BY <2>2, <3>1 DEF AllNames, Missing
      <4>2. NewPsect(Rec.cls, "CLASS", TRUE, FALSE, FALSE) \in PsectEntry
        BY <4>1, NewEntry DEF TypeOK
      <4> HIDE DEF n, k, c, withPsect
      <4>3. nextPsect + n + 1 <= MaxPsects
        BY <2>3, <2>4, <3>1
      <4> DEFINE tab == [withPsect EXCEPT ![nextPsect + n + 1]
                                             = NewPsect(Rec.cls, "CLASS", TRUE, FALSE, FALSE)]
      <4>4. Enters(tab, nextPsect + n + 1, Rec.psect, FALSE, FALSE, 0)
        BY <2>3, <2>6, <4>1, <4>3, ClassEnters
      <4>5. tab \in [1..MaxPsects -> PsectEntry]
        BY <2>6, <4>2
      <4>6. withClass = tab /\ nextPsect + n + k = nextPsect + n + 1
        BY <3>1, <4>1
      <4> HIDE DEF tab, withClass
      <4> QED BY <4>4, <4>5, <4>6
    <3>2. CASE k = 0
      <4>1. nextPsect + n + k = nextPsect + n
        <5> HIDE DEF n, k
        <5> QED BY <2>3, <3>2
      <4>2. withClass = withPsect
        BY <3>2
      <4> HIDE DEF n, k, withClass, withPsect
      <4> QED BY <2>6, <4>1, <4>2
    <3> HIDE DEF n, k, withClass
    <3> QED BY <2>3, <3>1, <3>2
  <2>8. /\ psectInfo' = [withClass EXCEPT
             ![i].cls = IF Rec.cls # NoName /\ @ = 0 THEN c ELSE @,
             ![i].max = IF Rec.max # 0 /\ (@ = 0 \/ Rec.max < @) THEN Rec.max ELSE @,
             ![i].align = IF Rec.align # 0 /\ (@ = 0 \/ Rec.align < @) THEN Rec.align ELSE @]
        /\ nextPsect' = nextPsect + n + k
        /\ NextRec /\ UNCHANGED <<job, loaded, bases>>
    BY <1>2 DEF XpsectRec, histVars
  <2> HIDE DEF n, i, c, k, withClass
  <2>9. \A j \in 1..MaxPsects : /\ psectInfo'[j].name = withClass[j].name
                                /\ psectInfo'[j].kind = withClass[j].kind
                                /\ psectInfo'[j].fileId = withClass[j].fileId
                                /\ psectInfo'[j].glob = withClass[j].glob
                                /\ psectInfo'[j].ovr = withClass[j].ovr
                                /\ psectInfo'[j].blk = withClass[j].blk
                                /\ psectInfo'[j].end = withClass[j].end
    BY <2>7, <2>8 DEF PsectEntry
  <2>10. nextPsect' \in 1..MaxPsects /\ nextPsect + n <= nextPsect' /\ nextPsect' = nextPsect + n + k
    BY <2>3, <2>4, <2>8, Typed
  <2>11. Enters(psectInfo', nextPsect', Rec.psect, FALSE, FALSE, 0)
    <3>1. /\ \A j \in 1..nextPsect : j \in 1..MaxPsects
          /\ \A j \in (nextPsect + 1)..nextPsect' : j \in 1..MaxPsects
      BY <2>3, <2>10
    <3> QED BY <2>7, <2>9, <2>10, <3>1 DEF Enters
  <2> QED BY <2>1, <2>2, <2>8, <2>10, <2>11, NameEnters DEF n
<1> QED BY <1>1, <1>2

-----------------------------------------------------------------------------
(* Records that enter no psect *)

LEMMA SameTexts ==
  ASSUME TypeOK, SameEntries, NEW x, Valid(x), NEW n \in Nat, n <= Len(RecsOf(x))
  PROVE  \A i : TextEnds(x, n, i)' = TextEnds(x, n, i)
<1>1. RecsOf(x)' = RecsOf(x)
  BY SameJob DEF SameEntries
<1>2. \A j \in 1..n : RecsOf(x)[j].t = "TEXT" =>
        PsectFrom'[x[1]][RecsOf(x)[j].psect] = PsectFrom[x[1]][RecsOf(x)[j].psect]
  <2> SUFFICES ASSUME NEW j \in 1..n, RecsOf(x)[j].t = "TEXT"
               PROVE  PsectFrom'[x[1]][RecsOf(x)[j].psect] = PsectFrom[x[1]][RecsOf(x)[j].psect]
    OBVIOUS
  <2>1. j \in 1..Len(RecsOf(x)) /\ x[1] \in Nat
    BY ValidRecs
  <2>2. RecsOf(x)[j].psect \in Names
    BY <2>1, ValidRecs
  <2> QED BY <2>1, <2>2, SameFrom
<1>3. \A i : TextsOf(x, n, i)' = TextsOf(x, n, i)
  BY <1>1, <1>2 DEF TextsOf
<1> QED BY <1>1, <1>3 DEF TextEnds

LEMMA StillReads ==
  ASSUME TypeOK, Positions, OInv, SInv, pc = "rec", recIdx <= Len(CurMod.recs),
         Rec.t # "END", pass = 0 => Rec.t \notin {"TEXT", "PSECT"},
         NextRec, UNCHANGED <<job, loaded, bases>>, SameEntries,
         \A i \in 1..nextPsect :
           /\ psectInfo'[i].blk = psectInfo[i].blk
           /\ psectInfo'[i].end
                = IF /\ Rec.t = "TEXT" /\ PsectFrom[fileIdx][Rec.psect] = i
                     /\ psectInfo[i].end < Rec.off + Rec.len
                  THEN Rec.off + Rec.len ELSE psectInfo[i].end
  PROVE  SInv'
<1>1. UniqueVisible /\ OvrDeclared /\ EndsFit
  BY DEF SInv, Lost
<1>2. PICK x \in Places : x = <<fileIdx, modIdx>>
  BY HereIs
<1>3. PICK n \in Nat : recIdx = n + 1
  <2>1. recIdx \in Nat \ {0}
    BY DEF TypeOK
  <2>2. recIdx = (recIdx - 1) + 1 /\ recIdx - 1 \in Nat
    BY <2>1
  <2> QED BY <2>2
<1>4. /\ Valid(x) /\ RecsOf(x) = CurMod.recs /\ Len(RecsOf(x)) \in Nat
      /\ n + 1 \in 1..Len(RecsOf(x)) /\ RecsOf(x)[n + 1] = Rec /\ RecsOf(x)' = RecsOf(x)
      /\ n <= Len(RecsOf(x)) /\ x[1] = fileIdx /\ fileIdx \in Nat
  <2>1. Valid(x) /\ RecsOf(x) = CurMod.recs
    BY <1>2, HereIs
  <2>2. Len(RecsOf(x)) \in Nat
    BY <2>1, ValidRecs
  <2>3. n + 1 \in 1..Len(RecsOf(x)) /\ n <= Len(RecsOf(x))
    BY <1>3, <2>1, <2>2
  <2>4. RecsOf(x)[n + 1] = Rec
    BY <1>3, <2>1 DEF Rec
  <2>5. RecsOf(x)' = RecsOf(x)
    BY SameJob
  <2> QED BY <1>2, <2>1, <2>2, <2>3, <2>4, <2>5 DEF TypeOK
<1>5. /\ Grows /\ \A f \in Nat : KeepsFrom(f)
      /\ nextPsect' = nextPsect /\ nextPsect \in Nat /\ nextPsect' \in 1..MaxPsects
      /\ (nextPsect + 1)..nextPsect' = {}
  BY SameGrows, SameFrom, Typed DEF SameEntries
<1>6. \A i \in 1..nextPsect : /\ psectInfo'[i].name = psectInfo[i].name
                              /\ psectInfo'[i].kind = psectInfo[i].kind
                              /\ psectInfo'[i].glob = psectInfo[i].glob
                              /\ psectInfo'[i].fileId = psectInfo[i].fileId
                              /\ psectInfo'[i].ovr = psectInfo[i].ovr
  BY DEF SameEntries, SameNames
<1>7. UniqueVisible'
  BY <1>1, <1>5, <1>6 DEF UniqueVisible, NextRec
<1>8. OvrDeclared'
  <2>1. 1 \in 1..nextPsect
    BY Typed
  <2> QED BY <1>1, <1>5, <1>6, <2>1 DEF OvrDeclared, Overlaid
<1>9. pass = 0 => Found(x, n + 1)'
  BY <1>4 DEF Found
<1>10. ASSUME NEW i \in 1..nextPsect'
       PROVE  IsLongest(psectInfo'[i].end, TextEnds(x, n + 1, i)')
  <2> DEFINE T == TextEnds(x, n, i)
             mine == Rec.t = "TEXT" /\ PsectFrom[fileIdx][Rec.psect] = i
             end == Rec.off + Rec.len
  <2>1. i \in 1..nextPsect /\ IsLongest(psectInfo[i].end, T) /\ T \in SUBSET Nat
        /\ psectInfo[i].end \in Nat
    <3>1. ReadSoFar(x, n) /\ i \in 1..nextPsect
      BY <1>1, <1>2, <1>3, <1>5 DEF EndsFit
    <3>2. T \in SUBSET Nat
      BY <1>4, TextEndsType
    <3>3. IsLongest(psectInfo[i].end, T)
      BY <3>1 DEF ReadSoFar
    <3> QED BY <3>1, <3>2, <3>3, Typed DEF PsectEntry
  <2>2. TextEnds(x, n + 1, i)' = TextEnds(x, n + 1, i)
    BY <1>4, SameTexts
  <2>3. TextsOf(x, n + 1, i) = TextsOf(x, n, i) \cup (IF mine THEN {n + 1} ELSE {})
    <3>1. \A j : j \in 1..(n + 1) <=> j \in 1..n \/ j = n + 1
      OBVIOUS
    <3>2. n + 1 \in TextsOf(x, n + 1, i) <=> mine
      BY <1>4, <3>1 DEF TextsOf
    <3>3. \A j \in 1..n : j \in TextsOf(x, n + 1, i) <=> j \in TextsOf(x, n, i)
      BY <3>1 DEF TextsOf
    <3>4. /\ \A j \in TextsOf(x, n + 1, i) : j \in 1..n \/ j = n + 1
          /\ \A j \in TextsOf(x, n, i) : j \in 1..n
      BY <3>1 DEF TextsOf
    <3> HIDE DEF mine
    <3> QED BY <3>2, <3>3, <3>4
  <2>4. TextEnds(x, n + 1, i) = TextEnds(x, n, i) \cup (IF mine THEN {end} ELSE {})
    <3> HIDE DEF mine
    <3> QED BY <1>4, <2>3 DEF TextEnds
  <2>5. CASE mine
    <3>1. end \in Nat
      BY <1>4, <2>5, ValidRecs
    <3>2. psectInfo'[i].end = IF psectInfo[i].end < end THEN end ELSE psectInfo[i].end
      BY <2>1, <2>5
    <3>3. TextEnds(x, n + 1, i)' = T \cup {end}
      BY <2>2, <2>4, <2>5
    <3> HIDE DEF T, end
    <3> QED BY <2>1, <3>1, <3>2, <3>3, LongestNext
  <2>6. CASE ~mine
    <3>1. psectInfo'[i].end = psectInfo[i].end
      BY <2>1, <2>6
    <3>2. TextEnds(x, n + 1, i)' = T
      BY <2>2, <2>4, <2>6
    <3> QED BY <2>1, <3>1, <3>2
  <2> QED BY <2>5, <2>6
<1> QED BY <1>2, <1>3, <1>4, <1>5, <1>7, <1>8, <1>9, <1>10, ReadsOn

\* records that say nothing of psects
Quiet == /\ pc = "rec" /\ recIdx <= Len(CurMod.recs) /\ NextRec
         /\ Rec.t \notin {"END", "TEXT"} /\ (pass = 0 => Rec.t # "PSECT")
         /\ UNCHANGED <<job, loaded, bases, psectInfo, nextPsect>>

LEMMA QuietPasses ==
  ASSUME TypeOK, Positions, OInv, SInv, Quiet PROVE SInv'
<1>1. SameEntries
  BY DEF Quiet, SameEntries, SameNames
<1> QED BY <1>1, StillReads DEF Quiet

LEMMA QuietRecs ==
  ASSUME TypeOK, Positions, OInv, SInv,
         \/ IdentRec \/ RelocRecPass1 \/ SymExternPass1 \/ SymCommPass1
         \/ RelocRecPass2 \/ SymRecPass2 \/ StartRecPass2 \/ SkipRec \/ NoEndRecord
  PROVE  SInv'
<1> USE DEF tabVars, layVars, histVars, Reading
<1>1. CASE IdentRec
  BY <1>1, QuietPasses, FatalPasses DEF IdentRec, Quiet
<1>2. CASE RelocRecPass1 \/ SymExternPass1
  BY <1>2, QuietPasses, FatalPasses DEF RelocRecPass1, SymExternPass1, Mention, Quiet
<1>3. CASE SymCommPass1
  BY <1>3, QuietPasses, FatalPasses DEF SymCommPass1, Quiet
<1>4. CASE RelocRecPass2
  <2>1. Fatal \/ pc' = "crash" \/ Quiet
    BY <1>4 DEF RelocRecPass2, Quiet
  <2> QED BY <2>1, QuietPasses, FatalPasses DEF SInv, Lost
<1>5. CASE SymRecPass2 \/ StartRecPass2
  BY <1>5, QuietPasses DEF SymRecPass2, StartRecPass2, Quiet
<1>6. CASE SkipRec
  BY <1>6, QuietPasses DEF SkipRec, Quiet
<1>7. CASE NoEndRecord
  BY <1>7, FatalPasses DEF NoEndRecord
<1> QED BY <1>1, <1>2, <1>3, <1>4, <1>5, <1>6, <1>7

LEMMA TextRecPass2Passes ==
  ASSUME TypeOK, Positions, OInv, SInv, TextRecPass2 PROVE SInv'
<1> DEFINE i == Slot(Rec.psect, "PSECT")
           end == Rec.off + Rec.len
<1>1. /\ psectInfo' = Grown(psectInfo, i, end) /\ i # 0 /\ nextPsect' = nextPsect
      /\ pc = "rec" /\ pass = 1 /\ recIdx <= Len(CurMod.recs) /\ Rec.t = "TEXT"
      /\ NextRec /\ UNCHANGED <<job, loaded, bases>>
  BY DEF TextRecPass2, Reading, histVars
<1>2. i \in 1..nextPsect /\ nextPsect \in Nat
  BY <1>1, PsectSlot, Typed
<1>3. i = PsectFrom[fileIdx][Rec.psect]
  <2>1. Rec.psect \in Names
    BY <1>1, ReadingRec, RecordFields DEF Names
  <2> QED BY <2>1, SlotIs DEF TypeOK
<1> HIDE DEF i, end
<1>4. \A j \in 1..nextPsect : /\ psectInfo'[j].name = psectInfo[j].name
                              /\ psectInfo'[j].kind = psectInfo[j].kind
                              /\ psectInfo'[j].glob = psectInfo[j].glob
                              /\ psectInfo'[j].fileId = psectInfo[j].fileId
                              /\ psectInfo'[j].ovr = psectInfo[j].ovr
                              /\ psectInfo'[j].blk = psectInfo[j].blk
                              /\ psectInfo'[j].end = IF j = i /\ psectInfo[j].end < end THEN end
                                                     ELSE psectInfo[j].end
  BY <1>1, <1>2, Typed DEF Grown, PsectEntry
<1>5. SameEntries
  BY <1>1, <1>4 DEF SameEntries, SameNames
<1>6. \A j \in 1..nextPsect :
        psectInfo'[j].end = IF /\ Rec.t = "TEXT" /\ PsectFrom[fileIdx][Rec.psect] = j
                               /\ psectInfo[j].end < Rec.off + Rec.len
                            THEN Rec.off + Rec.len ELSE psectInfo[j].end
  BY <1>1, <1>3, <1>4 DEF end
<1> QED BY <1>1, <1>4, <1>5, <1>6, StillReads

-----------------------------------------------------------------------------
(* Steps that leave the entries as they are, and may add to bases *)

LEMMA BasesGrow ==
  ASSUME TypeOK, BasesType, nextPsect' = nextPsect,
         bases' = bases \/ bases' = Append(bases, Sizes)
  PROVE  /\ bases' \in Seq(UNION {[1..m -> Nat] : m \in 1..nextPsect'})
         /\ Len(bases) \in Nat
         /\ bases' = Append(bases, Sizes) =>
              /\ Len(bases') = Len(bases) + 1
              /\ \A i \in 1..nextPsect : Base'[Len(bases) + 1][i] = psectInfo[i].blk
         /\ \A k \in 1..Len(bases) : \A i \in 1..MaxPsects : Base'[k][i] = Base[k][i]
<1> DEFINE U == UNION {[1..m -> Nat] : m \in 1..nextPsect}
<1>1. bases \in Seq(U) /\ Len(bases) \in Nat
  BY BasesSeq DEF BasesType
<1>2. Sizes \in U /\ Sizes \in [1..nextPsect -> Nat] /\ nextPsect \in 1..nextPsect
  <2>1. Sizes \in [1..nextPsect -> Nat]
    BY Typed DEF Sizes, PsectEntry
  <2>2. nextPsect \in 1..nextPsect
    BY Typed
  <2> QED BY <2>1, <2>2
<1>3. U' = U
  OBVIOUS
<1> HIDE DEF U
<1>4. bases' \in Seq(U)
  BY <1>1, <1>2
<1>5. \A k \in 1..Len(bases) : k \in DOMAIN bases /\ k \in DOMAIN bases' /\ bases'[k] = bases[k] /\ k \in Nat
  BY <1>1, <1>2
<1>6. \A k \in 1..Len(bases) : \A i \in 1..MaxPsects : Base'[k][i] = Base[k][i]
  BY <1>5 DEF Base
<1>7. ASSUME bases' = Append(bases, Sizes)
      PROVE  /\ Len(bases') = Len(bases) + 1
             /\ \A i \in 1..nextPsect : Base'[Len(bases) + 1][i] = psectInfo[i].blk
  <2>1. /\ Len(bases') = Len(bases) + 1 /\ bases'[Len(bases) + 1] = Sizes
        /\ Len(bases) + 1 \in DOMAIN bases' /\ Len(bases) + 1 \in Nat
    BY <1>1, <1>2, <1>7
  <2>2. PICK k \in Nat : k = Len(bases) + 1
    BY <2>1
  <2>3. \A i \in 1..nextPsect : Base'[k][i] = psectInfo[i].blk
    <3> SUFFICES ASSUME NEW i \in 1..nextPsect PROVE Base'[k][i] = psectInfo[i].blk
      OBVIOUS
    <3>1. i \in 1..MaxPsects /\ i \in DOMAIN Sizes /\ Sizes[i] = psectInfo[i].blk
      BY Typed DEF Sizes
    <3> QED BY <2>1, <2>2, <3>1 DEF Base
  <2> QED BY <2>1, <2>2, <2>3
<1>8. UNION {[1..m -> Nat] : m \in 1..nextPsect'} = U
  BY DEF U
<1> QED BY <1>1, <1>4, <1>6, <1>7, <1>8

\* how far bases are known
LEMMA HowFar ==
  ASSUME TypeOK, OInv, BasesType, pc \notin Lost
  PROVE  /\ Len(loaded[0]) \in Nat /\ Len(bases) \in Nat /\ Completed \in Int
         /\ pass = 0 /\ pc = "rec" => Len(bases) >= 1 /\ Completed + 1 = Len(bases)
                                      /\ Completed + 1 = Len(loaded[0])
         /\ pass = 0 /\ pc \in {"open", "scan"} => Completed = Len(bases)
         /\ ~InPass0 => Completed + 1 = Len(bases) /\ Len(bases) >= 1
         /\ pc # "rec" => Completed = Len(loaded[0])
<1>1. /\ Len(loaded[0]) \in Nat /\ Len(bases) \in Nat /\ loaded[0] \in Seq(Places)
  BY HistoryType, BasesSeq DEF OInv
<1>2. Len(bases) = Len(loaded[0]) + (IF InPass0 THEN 0 ELSE 1)
  BY DEF BasesType
<1>3. pass = 0 /\ pc = "rec" => loaded[0] # <<>>
  BY DEF OInv, EnteredLast
<1>4. pass = 0 /\ pc = "rec" => Len(loaded[0]) >= 1
  BY <1>1, <1>3
<1>5. pass = 0 /\ pc \in {"open", "scan", "rec"} => Len(bases) = Len(loaded[0])
  BY <1>1, <1>2 DEF InPass0
<1>6. ~InPass0 => Len(bases) = Len(loaded[0]) + 1
  BY <1>2
<1>7. Completed = IF pass = 0 /\ pc = "rec" THEN Len(loaded[0]) - 1 ELSE Len(loaded[0])
  BY DEF Completed
<1>8. ~(pass = 0 /\ pc = "rec") => Completed = Len(loaded[0])
  BY <1>7
<1>9. ~InPass0 => ~(pass = 0 /\ pc = "rec")
  BY DEF InPass0
<1> QED BY <1>1, <1>4, <1>5, <1>6, <1>7, <1>8, <1>9

LEMMA TablesStay ==
  ASSUME TypeOK, OInv, SInv, pc \notin Lost, SameEntries,
         pass' = 0 => pass = 0 /\ fileIdx \in Nat /\ fileIdx' \in Nat /\ fileIdx <= fileIdx',
         bases' = bases \/ bases' = Append(bases, Sizes),
         \A k \in 1..Completed : loaded'[0][k] = loaded[0][k],
         pass = 0 /\ pc \in {"open", "scan"} =>
           \A i \in 1..nextPsect : psectInfo'[i].blk = psectInfo[i].blk
  PROVE  /\ UniqueVisible' /\ OvrDeclared'
         /\ \A k \in 1..Completed : \A x \in Places : loaded'[0][k] = x => Effect(x, k)'
         /\ \A i \in 1..nextPsect' : Base'[1][i] = 0
<1>1. UniqueVisible /\ OvrDeclared /\ BasesType /\ EndsFit /\ SizesFit /\ Effects
  BY DEF SInv
<1>2. /\ nextPsect' = nextPsect /\ nextPsect \in Nat
      /\ \A i \in 1..nextPsect : /\ psectInfo'[i].name = psectInfo[i].name
                                 /\ psectInfo'[i].kind = psectInfo[i].kind
                                 /\ psectInfo'[i].glob = psectInfo[i].glob
                                 /\ psectInfo'[i].fileId = psectInfo[i].fileId
                                 /\ psectInfo'[i].ovr = psectInfo[i].ovr
                                 /\ psectInfo[i].fileId \in Nat
  BY Typed DEF SameEntries, SameNames, PsectEntry
<1>3. UniqueVisible'
  <2>1. ASSUME NEW i \in 1..nextPsect, pass' = 0 PROVE psectInfo'[i].fileId <= fileIdx'
    <3>1. psectInfo[i].fileId <= fileIdx /\ psectInfo[i].fileId \in Nat
      BY <1>1, <1>2, <2>1 DEF UniqueVisible
    <3> QED BY <1>2, <2>1, <3>1
  <2>2. \A i, j \in 1..nextPsect :
          i < j /\ psectInfo'[i].kind = "PSECT" /\ psectInfo'[j].kind = "PSECT"
                /\ psectInfo'[i].name = psectInfo'[j].name =>
            ~job'.R /\ ~psectInfo'[i].glob /\ psectInfo'[i].fileId < psectInfo'[j].fileId
    BY <1>1, <1>2 DEF UniqueVisible, SameEntries
  <2> QED BY <1>2, <2>1, <2>2 DEF UniqueVisible
<1>4. OvrDeclared'
  <2>1. 1 \in 1..nextPsect
    BY Typed
  <2> QED BY <1>1, <1>2, <2>1 DEF OvrDeclared, Overlaid, SameEntries
<1>5. Grows /\ \A f \in Nat : KeepsFrom(f)
  BY SameGrows, SameFrom
<1>6. /\ Len(bases) \in Nat /\ Completed \in Int
      /\ Completed + 1 <= Len(bases) \/ Completed = Len(bases)
      /\ Completed + 1 > Len(bases) => pass = 0 /\ pc \in {"open", "scan"}
  BY <1>1, HowFar DEF InPass0
\* sizes before the module that comes next are still those of psectInfo
<1>7. ASSUME pass = 0, pc \in {"open", "scan"}, NEW i \in 1..nextPsect
      PROVE  Base'[Len(bases) + 1][i] = Base[Len(bases) + 1][i]
  <2>1. /\ Len(bases) + 1 \in Nat /\ i \in 1..MaxPsects
        /\ Len(bases) + 1 \notin DOMAIN bases
    <3>1. DOMAIN bases = 1..Len(bases) /\ i \in 1..MaxPsects
      BY <1>1, BasesAreSeq, Typed
    <3>2. Len(bases) + 1 \in Nat /\ Len(bases) + 1 \notin 1..Len(bases)
      BY <1>6
    <3> QED BY <3>1, <3>2
  <2>2. Base[Len(bases) + 1][i] = psectInfo[i].blk
    BY <2>1 DEF Base
  <2>3. CASE bases' = bases
    BY <1>7, <2>1, <2>2, <2>3 DEF Base
  <2>4. CASE bases' = Append(bases, Sizes)
    BY <1>1, <1>2, <2>2, <2>4, BasesGrow
  <2> QED BY <2>3, <2>4
<1>8. ASSUME NEW k \in 1..(Completed + 1)
      PROVE  /\ \A i \in 1..nextPsect : Base'[k][i] = Base[k][i]
             /\ \A i \in (nextPsect + 1)..nextPsect' : Base'[k][i] = 0
  <2>1. (nextPsect + 1)..nextPsect' = {}
    BY <1>2
  <2>2. CASE k \in 1..Len(bases)
    <3>1. \A i \in 1..nextPsect : i \in 1..MaxPsects
      BY Typed
    <3> QED BY <1>1, <1>2, <2>1, <2>2, <3>1, BasesGrow
  <2>3. CASE k \notin 1..Len(bases)
    <3>1. k = Len(bases) + 1 /\ pass = 0 /\ pc \in {"open", "scan"}
      BY <1>6, <2>3
    <3> QED BY <1>7, <2>1, <3>1
  <2> QED BY <2>2, <2>3
<1>9. \A k \in 1..Completed : \A x \in Places : loaded'[0][k] = x => Effect(x, k)'
  BY <1>1, <1>5, <1>8, EffectsKept
<1>10. \A i \in 1..nextPsect' : Base'[1][i] = 0
  <2> SUFFICES ASSUME NEW i \in 1..nextPsect PROVE Base'[1][i] = 0
    BY <1>2
  <2>1. Base[1][i] = 0 /\ i \in 1..MaxPsects
    BY <1>1, Typed DEF BasesType
  <2>2. CASE Len(bases) >= 1
    <3>1. 1 \in 1..Len(bases)
      BY <1>6, <2>2
    <3> QED BY <1>1, <1>2, <2>1, <3>1, BasesGrow
  <2>3. CASE Len(bases) = 0
    <3>1. InPass0 /\ ~(pass = 0 /\ pc = "rec")
      BY <1>1, <2>3, HowFar
    <3>2. pass = 0 /\ pc \in {"open", "scan"} /\ Len(bases) + 1 = 1
      BY <2>3, <3>1 DEF InPass0
    <3> QED BY <1>7, <2>1, <3>2
  <2> QED BY <1>6, <2>2, <2>3
<1> QED BY <1>3, <1>4, <1>9, <1>10

-----------------------------------------------------------------------------
(* The end of a module *)

\* A psect into which the module puts text is overlaid by then if it ever is.
LEMMA OverIsOvr ==
  ASSUME TypeOK, Entries, OverlaysDeclared, OvrDeclared, NEW x, Valid(x), NEW n \in Nat,
         EndAt(RecsOf(x), n + 1), NEW j \in 1..n,
         \A m \in 1..n : InBody(RecsOf(x), m) /\ Found(x, m), RecsOf(x)[j].t = "TEXT",
         NEW i, i = PsectFrom[x[1]][RecsOf(x)[j].psect]
  PROVE  psectInfo[i].ovr <=> Over(i)
<1> DEFINE r == RecsOf(x)[j]
<1>1. /\ Len(RecsOf(x)) \in Nat /\ j \in 1..Len(RecsOf(x)) /\ x[1] \in Nat /\ r.psect \in Names
      /\ n + 1 \in 1..Len(RecsOf(x)) /\ RecsOf(x)[n + 1].t = "END"
  <2>1. Len(RecsOf(x)) \in Nat /\ x[1] \in Nat
    BY ValidRecs
  <2>2. n + 1 \in 1..Len(RecsOf(x)) /\ RecsOf(x)[n + 1].t = "END"
    BY DEF EndAt
  <2>3. j \in 1..Len(RecsOf(x))
    BY <2>1, <2>2
  <2> QED BY <2>1, <2>2, <2>3, ValidRecs
<1>2. i \in 1..nextPsect /\ psectInfo[i].name = r.psect /\ i \in PsectsFrom(x[1], r.psect)
      /\ \A m \in PsectsFrom(x[1], r.psect) : i <= m
  <2>1. i # 0
    BY DEF Found
  <2>2. /\ i \in 0..nextPsect /\ nextPsect \in Nat /\ i \in PsectsFrom(x[1], r.psect)
        /\ \A m \in PsectsFrom(x[1], r.psect) : i <= m
    BY <1>1, <2>1, PsectFromIs
  <2> HIDE DEF r
  <2> QED BY <2>1, <2>2 DEF PsectsFrom
<1>3. psectInfo[i].ovr => Over(i)
  BY <1>2 DEF OvrDeclared, Over
<1>4. ASSUME Over(i) PROVE psectInfo[i].ovr
  <2>1. \/ r.psect = Abs
        \/ \E q \in 1..Len(RecsOf(x)) : /\ InBody(RecsOf(x), q) /\ RecsOf(x)[q].t = "PSECT"
                                        /\ RecsOf(x)[q].psect = r.psect /\ RecsOf(x)[q].ovr
    <3>1. Overlaid(r.psect) /\ InBody(RecsOf(x), j)
      BY <1>2, <1>4 DEF Over
    <3>2. PICK f \in 1..Len(job.files) : f = x[1] + 1
      BY ValidPlace
    <3>3. PICK m \in 1..Len(job.files[f].mods) : m = x[2] + 1
      BY <3>2, ValidPlace
    <3>4. RecsOf(x) = job.files[f].mods[m].recs
      BY <3>2, <3>3, ValidPlace
    <3> DEFINE recs == job.files[f].mods[m].recs
    <3>5. \A k \in 1..Len(recs) :
            InBody(recs, k) /\ recs[k].t = "TEXT" /\ Overlaid(recs[k].psect) =>
              \/ recs[k].psect = Abs
              \/ \E q \in 1..Len(recs) : /\ InBody(recs, q) /\ recs[q].t = "PSECT"
                                         /\ recs[q].psect = recs[k].psect /\ recs[q].ovr
      BY Zenon DEF OverlaysDeclared
    <3> HIDE DEF recs
    <3> QED BY <1>1, <3>1, <3>4, <3>5 DEF recs
  <2>2. CASE r.psect = Abs
    <3>1. 1 \in PsectsFrom(x[1], Abs) /\ nextPsect \in Nat
      BY Typed DEF PsectsFrom, Entries, AbsFirst
    <3>2. i = 1
      BY <1>2, <2>2, <3>1
    <3> QED BY <3>2 DEF OvrDeclared
  <2>3. ASSUME NEW q \in 1..Len(RecsOf(x)), InBody(RecsOf(x), q), RecsOf(x)[q].t = "PSECT",
               RecsOf(x)[q].psect = r.psect, RecsOf(x)[q].ovr
        PROVE  psectInfo[i].ovr
    <3>1. q \in 1..n
      <4> SUFFICES ASSUME ~(q <= n) PROVE FALSE
        OBVIOUS
      <4>1. n + 1 \in 1..q
        BY <1>1
      <4> QED BY <1>1, <2>3, <4>1 DEF InBody
    <3>2. Found(x, q)
      BY <3>1
    <3> QED BY <2>3, <3>2 DEF Found
  <2> QED BY <2>1, <2>2, <2>3
<1> QED BY <1>3, <1>4

LEMMA ModuleGrows ==
  ASSUME TypeOK, Entries, OverlaysDeclared, OvrDeclared, NEW x, Valid(x), NEW n \in Nat,
         EndAt(RecsOf(x), n + 1), \A m \in 1..n : InBody(RecsOf(x), m) /\ Found(x, m),
         NEW i \in 1..nextPsect, IsLongest(psectInfo[i].end, TextEnds(x, n, i))
  PROVE  EndOfModule(psectInfo[i]).blk = GrowBy(Over(i), psectInfo[i].blk, psectInfo[i].end)
<1>1. psectInfo[i] \in PsectEntry /\ psectInfo[i].end \in Nat /\ psectInfo[i].blk \in Nat
      /\ psectInfo[i].ovr \in BOOLEAN
  BY Typed DEF PsectEntry
<1>2. EndOfModule(psectInfo[i]).blk
        = IF psectInfo[i].ovr
          THEN IF psectInfo[i].blk < psectInfo[i].end THEN psectInfo[i].end ELSE psectInfo[i].blk
          ELSE psectInfo[i].blk + psectInfo[i].end
  BY <1>1 DEF EndOfModule, PsectEntry
<1>3. CASE psectInfo[i].end = 0
  BY <1>1, <1>2, <1>3 DEF GrowBy
<1>4. CASE psectInfo[i].end # 0
  <2>1. psectInfo[i].end \in TextEnds(x, n, i)
    BY <1>4 DEF IsLongest
  <2>2. PICK j \in TextsOf(x, n, i) : TRUE
    BY <2>1 DEF TextEnds
  <2>3. j \in 1..n /\ RecsOf(x)[j].t = "TEXT" /\ i = PsectFrom[x[1]][RecsOf(x)[j].psect]
    BY <2>2 DEF TextsOf
  <2>4. psectInfo[i].ovr <=> Over(i)
    BY <2>3, OverIsOvr
  <2> QED BY <1>2, <1>4, <2>4 DEF GrowBy
<1> QED BY <1>3, <1>4

\* the module that pass 1 reads was read by pass 0, with all its records
LEMMA AllFound ==
  ASSUME TypeOK, Positions, OInv, SInv, pc = "rec",
         NEW x \in Places, x = <<fileIdx, modIdx>>, NEW n \in Nat, recIdx = n + 1,
         EndAt(RecsOf(x), n + 1)
  PROVE  /\ \A j \in 1..n : InBody(RecsOf(x), j) /\ Found(x, j)
         /\ pass = 1 =>
              /\ Len(loaded[1]) \in Nat /\ Len(loaded[1]) >= 1 /\ Len(loaded[1]) <= Len(loaded[0])
              /\ \A i \in 1..nextPsect : \A e \in Nat :
                   IsLongest(e, TextEnds(x, n, i)) =>
                     Base[Len(loaded[1]) + 1][i] = GrowBy(Over(i), Base[Len(loaded[1])][i], e)
<1>1. ReadSoFar(x, n) /\ Effects
  BY DEF SInv, Lost, EndsFit
<1>2. \A j \in 1..n : InBody(RecsOf(x), j)
  BY <1>1 DEF ReadSoFar
<1>3. CASE pass = 0
  BY <1>1, <1>2, <1>3 DEF ReadSoFar
<1>4. CASE pass # 0
  <2>1. pass = 1
    BY <1>4 DEF TypeOK
  <2> DEFINE k == Len(loaded[1])
  <2>2. /\ k \in Nat /\ k >= 1 /\ k <= Len(loaded[0]) /\ Len(loaded[0]) \in Nat
        /\ loaded[0][k] = x
    <3>1. /\ loaded[1] \in Seq(Places) /\ k \in Nat /\ Len(loaded[0]) \in Nat
          /\ loaded[1] # <<>> /\ loaded[1][k] = x
      BY <2>1, HistoryType DEF OInv, EnteredLast
    <3>2. k >= 1
      BY <3>1
    <3>3. k <= Len(loaded[0]) /\ \A m \in 1..k : loaded[1][m] = loaded[0][m]
      BY <2>1 DEF OInv, Rereading, Lost
    <3> QED BY <3>1, <3>2, <3>3
  <2>3. k \in 1..Completed
    BY <2>1, <2>2 DEF Completed
  <2> HIDE DEF k
  <2>4. Effect(x, k)
    BY <1>1, <2>2, <2>3 DEF Effects
  <2>5. PICK m \in Nat :
          /\ EndAt(RecsOf(x), m + 1)
          /\ \A j \in 1..m : Found(x, j)
          /\ \A i \in 1..nextPsect : \E e \in Nat :
               IsLongest(e, TextEnds(x, m, i)) /\ Base[k + 1][i] = GrowBy(Over(i), Base[k][i], e)
    BY <2>4 DEF Effect
  <2>6. m = n
    <3>1. ~(m + 1 <= n)
      <4> SUFFICES ASSUME m + 1 <= n PROVE FALSE
        OBVIOUS
      <4>1. InBody(RecsOf(x), m + 1) /\ m + 1 \in 1..(m + 1)
        BY <1>2
      <4> QED BY <2>5, <4>1 DEF InBody, EndAt
    <3>2. ~(n + 1 <= m)
      <4> SUFFICES ASSUME n + 1 <= m PROVE FALSE
        OBVIOUS
      <4>1. Found(x, n + 1)
        BY <2>5
      <4> QED BY <4>1 DEF Found, EndAt
    <3> QED BY <3>1, <3>2
  <2>7. \A j \in 1..n : Found(x, j)
    BY <2>5, <2>6
  <2>8. \A i \in 1..nextPsect : \A e \in Nat :
          IsLongest(e, TextEnds(x, n, i)) => Base[k + 1][i] = GrowBy(Over(i), Base[k][i], e)
    <3> SUFFICES ASSUME NEW i \in 1..nextPsect, NEW e \in Nat, IsLongest(e, TextEnds(x, n, i))
                 PROVE  Base[k + 1][i] = GrowBy(Over(i), Base[k][i], e)
      OBVIOUS
    <3>1. PICK d \in Nat : IsLongest(d, TextEnds(x, n, i)) /\ Base[k + 1][i] = GrowBy(Over(i), Base[k][i], d)
      BY <2>5, <2>6
    <3>2. Valid(x) /\ n <= Len(RecsOf(x))
      BY <2>5, <2>6, HereIs, ValidRecs DEF EndAt
    <3>3. TextEnds(x, n, i) \in SUBSET Nat
      BY <3>2, TextEndsType
    <3>4. d = e
      BY <3>1, <3>3, OneLongest
    <3> QED BY <3>1, <3>4
  <2> QED BY <1>2, <2>2, <2>7, <2>8 DEF k
<1> QED BY <1>3, <1>4

LEMMA EndRecPasses ==
  ASSUME TypeOK, Positions, Entries, OverlaysDeclared, OInv, SInv, EndRec PROVE SInv'
<1>1. /\ psectInfo' = [i \in 1..MaxPsects |->
                         IF i <= nextPsect THEN EndOfModule(psectInfo[i]) ELSE psectInfo[i]]
      /\ pc = "rec" /\ recIdx <= Len(CurMod.recs) /\ Rec.t = "END"
      /\ pc' \in {"scan", "open"} /\ fileIdx' \in {fileIdx, fileIdx + 1}
      /\ UNCHANGED <<job, pass, nextPsect, loaded, bases>>
  BY DEF EndRec, histVars
<1>2. /\ UniqueVisible /\ OvrDeclared /\ BasesType /\ EndsFit /\ SizesFit /\ Effects
      /\ pc \notin Lost /\ fileIdx \in Nat /\ fileIdx' \in Nat /\ fileIdx <= fileIdx'
      /\ pass = 0 \/ pass = 1
  BY <1>1 DEF SInv, Lost, TypeOK
<1>3. PICK x \in Places : x = <<fileIdx, modIdx>>
  BY <1>1, HereIs
<1>4. PICK n \in Nat : recIdx = n + 1
  <2>1. recIdx \in Nat \ {0}
    BY DEF TypeOK
  <2>2. recIdx = (recIdx - 1) + 1 /\ recIdx - 1 \in Nat
    BY <2>1
  <2> QED BY <2>2
<1>5. Valid(x) /\ EndAt(RecsOf(x), n + 1) /\ n <= Len(RecsOf(x))
  <2>1. Valid(x) /\ RecsOf(x) = CurMod.recs /\ Len(RecsOf(x)) \in Nat
    BY <1>1, <1>3, HereIs, ValidRecs
  <2>2. n + 1 \in 1..Len(RecsOf(x)) /\ RecsOf(x)[n + 1].t = "END"
    BY <1>1, <1>4, <2>1 DEF Rec
  <2> QED BY <2>1, <2>2 DEF EndAt
<1>6. \A i \in 1..nextPsect : psectInfo'[i] = EndOfModule(psectInfo[i])
                              /\ psectInfo[i] \in PsectEntry
                              /\ psectInfo[i].end \in Nat /\ psectInfo[i].blk \in Nat
  <2>1. \A i \in 1..nextPsect : i \in 1..MaxPsects /\ i <= nextPsect /\ psectInfo[i] \in PsectEntry
    BY Typed
  <2> QED BY <1>1, <2>1 DEF PsectEntry
<1>7. \A i \in 1..nextPsect : /\ psectInfo'[i].name = psectInfo[i].name
                              /\ psectInfo'[i].kind = psectInfo[i].kind
                              /\ psectInfo'[i].glob = psectInfo[i].glob
                              /\ psectInfo'[i].fileId = psectInfo[i].fileId
                              /\ psectInfo'[i].ovr = psectInfo[i].ovr
                              /\ psectInfo'[i].end = 0
  BY <1>6 DEF EndOfModule, PsectEntry
<1>8. SameEntries
  BY <1>1, <1>7 DEF SameEntries, SameNames
<1>9. /\ \A j \in 1..n : InBody(RecsOf(x), j) /\ Found(x, j)
      /\ pass = 1 =>
           /\ Len(loaded[1]) \in Nat /\ Len(loaded[1]) >= 1 /\ Len(loaded[1]) <= Len(loaded[0])
           /\ \A i \in 1..nextPsect : \A e \in Nat :
                IsLongest(e, TextEnds(x, n, i)) =>
                  Base[Len(loaded[1]) + 1][i] = GrowBy(Over(i), Base[Len(loaded[1])][i], e)
  BY <1>1, <1>3, <1>4, <1>5, AllFound
<1>10. \A i \in 1..nextPsect :
         /\ IsLongest(psectInfo[i].end, TextEnds(x, n, i))
         /\ psectInfo'[i].blk = GrowBy(Over(i), psectInfo[i].blk, psectInfo[i].end)
  <2>1. ReadSoFar(x, n)
    BY <1>1, <1>2, <1>3, <1>4 DEF EndsFit
  <2> SUFFICES ASSUME NEW i \in 1..nextPsect
               PROVE  psectInfo'[i].blk = GrowBy(Over(i), psectInfo[i].blk, psectInfo[i].end)
    BY <2>1 DEF ReadSoFar
  <2>2. IsLongest(psectInfo[i].end, TextEnds(x, n, i))
    BY <2>1 DEF ReadSoFar
  <2> QED BY <1>2, <1>5, <1>6, <1>9, <2>2, ModuleGrows
<1>11. /\ UniqueVisible' /\ OvrDeclared'
       /\ \A k \in 1..Completed : \A y \in Places : loaded'[0][k] = y => Effect(y, k)'
       /\ \A i \in 1..nextPsect' : Base'[1][i] = 0
  BY <1>1, <1>2, <1>8, TablesStay
<1>12. /\ Len(loaded[0]) \in Nat /\ Len(bases) \in Nat
       /\ pass = 0 => Len(bases) >= 1 /\ Completed + 1 = Len(bases) /\ Len(bases) = Len(loaded[0])
       /\ pass = 1 => Len(bases) = Len(loaded[0]) + 1 /\ Completed = Len(loaded[0])
       /\ Completed \in Int
  <2>1. /\ Len(loaded[0]) \in Nat /\ Len(bases) \in Nat /\ Completed \in Int
        /\ pass = 0 /\ pc = "rec" => Len(bases) >= 1 /\ Completed + 1 = Len(bases)
                                     /\ Completed + 1 = Len(loaded[0])
        /\ ~InPass0 => Completed + 1 = Len(bases)
    BY <1>2, HowFar
  <2>2. pass = 1 => ~InPass0 /\ Completed = Len(loaded[0])
    BY DEF InPass0, Completed
  <2> QED BY <1>1, <2>1, <2>2
<1>13. /\ bases' \in Seq(UNION {[1..m -> Nat] : m \in 1..nextPsect'})
       /\ \A k \in 1..Len(bases) : \A i \in 1..MaxPsects : Base'[k][i] = Base[k][i]
  BY <1>1, <1>2, BasesGrow
<1>14. BasesType'
  <2>1. InPass0' <=> pass = 0
    BY <1>1 DEF InPass0
  <2>2. CASE pass = 0
    BY <1>1, <1>11, <1>12, <1>13, <2>1, <2>2 DEF BasesType
  <2>3. CASE pass = 1
    BY <1>1, <1>11, <1>12, <1>13, <2>1, <2>3 DEF BasesType
  <2> QED BY <1>2, <2>2, <2>3
<1>15. EndsFit'
  <2>1. pc' # "rec" /\ nextPsect' = nextPsect
    BY <1>1
  <2> QED BY <1>7, <2>1 DEF EndsFit
<1>16. SizesFit'
  <2>1. pass' = pass /\ pc' # "rec" /\ pc' \notin Layout /\ nextPsect' = nextPsect /\ loaded' = loaded
    BY <1>1 DEF Layout
  <2> SUFFICES ASSUME pass = 1, NEW i \in 1..nextPsect
               PROVE  psectInfo'[i].blk = Base'[Len(loaded[1]) + 1][i]
    BY <1>2, <2>1 DEF SizesFit
  <2>2. Len(loaded[1]) + 1 \in 1..Len(bases) /\ i \in 1..MaxPsects
    <3>1. Len(bases) = Len(loaded[0]) + 1 /\ Len(loaded[0]) \in Nat
      BY <1>12
    <3>2. Len(loaded[1]) \in Nat /\ Len(loaded[1]) <= Len(loaded[0])
      BY <1>9
    <3>3. i \in 1..MaxPsects
      BY Typed
    <3> QED BY <3>1, <3>2, <3>3
  <2>3. Base'[Len(loaded[1]) + 1][i] = Base[Len(loaded[1]) + 1][i]
    BY <1>13, <2>2
  <2>4. psectInfo[i].blk = Base[Len(loaded[1])][i]
    BY <1>1, <1>2 DEF SizesFit
  <2> QED BY <1>6, <1>9, <1>10, <2>3, <2>4
<1>17. Effects'
  <2>1. CASE pass = 1
    <3>1. Completed' = Completed
      BY <1>1, <2>1 DEF Completed
    <3> QED BY <1>11, <3>1 DEF Effects
  <2>2. CASE pass = 0
    <3>1. Completed' = Len(loaded[0])
      BY <1>1, <2>2 DEF Completed
    <3>2. loaded[0][Len(loaded[0])] = x
      BY <1>1, <1>3, <2>2 DEF OInv, EnteredLast
    <3>6. PICK k \in Nat : k = Len(bases)
      BY <1>12
    <3>3. Effect(x, k)'
      <4>1. EndAt(RecsOf(x), n + 1)'
        BY <1>1, <1>5, SameJob DEF EndAt
      <4>2. \A j \in 1..n : Found(x, j)'
        <5> SUFFICES ASSUME NEW j \in 1..n PROVE Found(x, j)'
          OBVIOUS
        <5>1. Found(x, j) /\ j \in 1..Len(RecsOf(x)) /\ x[1] \in Nat
          BY <1>5, <1>9, ValidRecs
        <5> QED BY <1>5, <1>8, <5>1, SameGrows, SameFrom, FoundKept
      <4>3. ASSUME NEW i \in 1..nextPsect'
            PROVE  \E e \in Nat : /\ IsLongest(e, TextEnds(x, n, i)')
                                  /\ Base'[k + 1][i] = GrowBy(Over(i)', Base'[k][i], e)
        <5>1. i \in 1..nextPsect /\ i \in 1..MaxPsects /\ k \in 1..Len(bases)
              /\ k + 1 \in Nat
          BY <1>1, <1>12, <2>2, <3>6, Typed
        <5>2. TextEnds(x, n, i)' = TextEnds(x, n, i) /\ TextEnds(x, n, i) \in SUBSET Nat
          BY <1>5, <1>8, SameTexts, TextEndsType
        <5>3. PICK e \in Nat : e = psectInfo[i].end
          BY <5>1, Typed DEF PsectEntry
        <5>4. Over(i)' <=> Over(i)
          BY <1>8, <5>1, SameGrows, OverKept
        <5>5. Base'[k][i] = psectInfo[i].blk
          <6>1. Base'[k][i] = Base[k][i]
            BY <1>13, <5>1
          <6>2. psectInfo[i].blk = Base[k][i]
            BY <1>1, <1>2, <2>2, <3>6, <5>1 DEF SizesFit
          <6> QED BY <6>1, <6>2
        <5>6. Base'[k + 1][i] = psectInfo'[i].blk
          <6>1. k + 1 \notin DOMAIN bases'
            <7>1. DOMAIN bases = 1..Len(bases) /\ bases' = bases
              BY <1>1, <1>2, BasesAreSeq
            <7>2. Len(bases) + 1 \notin 1..Len(bases)
              BY <1>12
            <7> QED BY <3>6, <7>1, <7>2
          <6> QED BY <5>1, <6>1 DEF Base
        <5>7. psectInfo'[i].blk = GrowBy(Over(i), psectInfo[i].blk, e)
          BY <1>10, <5>1, <5>3
        <5>8. IsLongest(e, TextEnds(x, n, i)')
          BY <1>10, <5>1, <5>2, <5>3
        <5>9. Base'[k + 1][i] = GrowBy(Over(i)', Base'[k][i], e)
          BY <5>4, <5>5, <5>6, <5>7 DEF GrowBy
        <5> QED BY <5>8, <5>9
      <4>4. n \in Nat /\ EndAt(RecsOf(x), n + 1)' /\ (\A j \in 1..n : Found(x, j)')
        BY <4>1, <4>2
      <4>5. \A i \in 1..nextPsect' : \E e \in Nat :
              IsLongest(e, TextEnds(x, n, i)') /\ Base'[k + 1][i] = GrowBy(Over(i)', Base'[k][i], e)
        BY <4>3
      <4> QED BY <4>4, <4>5 DEF Effect, IsLongest
    <3>4. \A m \in 1..Len(loaded[0]) : m \in 1..Completed \/ m = k
      BY <1>12, <2>2, <3>6
    <3>5. loaded'[0][k] = x
      BY <1>1, <1>12, <2>2, <3>6, <3>2
    <3> QED BY <1>11, <3>1, <3>3, <3>4, <3>5 DEF Effects
  <2> QED BY <1>2, <2>1, <2>2
<1> QED BY <1>11, <1>14, <1>15, <1>16, <1>17 DEF SInv

-----------------------------------------------------------------------------
(* From one module to the next *)

\* a file or a module that is passed over
Passing == /\ pc \in {"open", "scan"} /\ pc' \in {"open", "scan"}
           /\ fileIdx' \in {fileIdx, fileIdx + 1}
           /\ UNCHANGED <<job, pass, psectInfo, nextPsect, loaded, bases>>

LEMMA PassingPasses ==
  ASSUME TypeOK, OInv, SInv, Passing PROVE SInv'
<1>1. /\ UniqueVisible /\ OvrDeclared /\ BasesType /\ EndsFit /\ SizesFit /\ Effects
      /\ pc \notin Lost /\ fileIdx \in Nat /\ fileIdx' \in Nat /\ fileIdx <= fileIdx'
      /\ InPass0' = InPass0 /\ Completed' = Completed /\ Base' = Base
      /\ SameEntries /\ bases' = bases /\ loaded' = loaded /\ nextPsect' = nextPsect
  <2>1. /\ UniqueVisible /\ OvrDeclared /\ BasesType /\ EndsFit /\ SizesFit /\ Effects
        /\ pc \notin Lost
    BY DEF SInv, Lost, Passing
  <2>2. fileIdx \in Nat /\ fileIdx' \in Nat /\ fileIdx <= fileIdx'
    BY DEF Passing, TypeOK
  <2>3. InPass0' = InPass0 /\ Completed' = Completed /\ Base' = Base
    BY DEF Passing, InPass0, Completed, Base
  <2>4. SameEntries /\ bases' = bases /\ loaded' = loaded /\ nextPsect' = nextPsect
    BY DEF Passing, SameEntries, SameNames
  <2> QED BY <2>1, <2>2, <2>3, <2>4
<1>2. /\ UniqueVisible' /\ OvrDeclared'
      /\ \A k \in 1..Completed : \A x \in Places : loaded'[0][k] = x => Effect(x, k)'
      /\ \A i \in 1..nextPsect' : Base'[1][i] = 0
  BY <1>1, TablesStay DEF Passing
<1>3. BasesType'
  <2>1. bases' \in Seq(UNION {[1..m -> Nat] : m \in 1..nextPsect'})
    BY <1>1, BasesGrow
  <2>2. Len(bases') = Len(loaded'[0]) + (IF InPass0' THEN 0 ELSE 1)
    BY <1>1 DEF BasesType
  <2> QED BY <1>2, <2>1, <2>2 DEF BasesType
<1>4. EndsFit' /\ SizesFit'
  BY <1>1 DEF EndsFit, SizesFit, Passing, Layout
<1>5. Effects'
  BY <1>1, <1>2 DEF Effects
<1> QED BY <1>2, <1>3, <1>4, <1>5 DEF SInv

\* a module is started
LEMMA StartsPasses ==
  ASSUME TypeOK, OInv, SInv, Starts, recIdx' = 1, UNCHANGED <<psectInfo, nextPsect>>, Bases
  PROVE  SInv'
<1>1. /\ UniqueVisible /\ OvrDeclared /\ BasesType /\ EndsFit /\ SizesFit /\ Effects
      /\ pc \notin Lost /\ pc \in {"open", "scan"} /\ pc' = "rec"
      /\ fileIdx \in Nat /\ fileIdx' = fileIdx /\ pass' = pass /\ modIdx' \in Nat
      /\ pass = 0 \/ pass = 1
  BY DEF SInv, Lost, Starts, TypeOK
<1>2. SameEntries
  BY DEF Starts, SameEntries, SameNames
<1>3. /\ bases' = IF pass = 0 THEN Append(bases, Sizes) ELSE bases
      /\ \A i \in 1..nextPsect : psectInfo'[i].blk = psectInfo[i].blk
      /\ nextPsect' = nextPsect
  BY DEF Bases
<1>4. /\ Len(loaded[0]) \in Nat /\ Len(loaded[1]) \in Nat
      /\ Len(loaded'[0]) = Len(loaded[0]) + (IF pass = 0 THEN 1 ELSE 0)
      /\ Len(loaded'[1]) = Len(loaded[1]) + (IF pass = 1 THEN 1 ELSE 0)
      /\ \A k \in 1..Len(loaded[0]) : loaded'[0][k] = loaded[0][k]
  <2>1. /\ loaded[0] \in Seq(Places) /\ loaded[1] \in Seq(Places)
        /\ loaded \in [{0, 1} -> Seq(Places)]
    BY HistoryType DEF OInv, Histories
  <2>2. loaded' = [loaded EXCEPT ![pass] = Append(@, <<fileIdx, modIdx'>>)]
    BY DEF Starts
  <2>3. <<fileIdx, modIdx'>> \in Places
    BY <1>1 DEF Places
  <2>4. CASE pass = 0
    <3>1. loaded'[0] = Append(loaded[0], <<fileIdx, modIdx'>>) /\ loaded'[1] = loaded[1]
      BY <2>1, <2>2, <2>4
    <3> QED BY <2>1, <2>3, <2>4, <3>1
  <2>5. CASE pass = 1
    <3>1. loaded'[1] = Append(loaded[1], <<fileIdx, modIdx'>>) /\ loaded'[0] = loaded[0]
      BY <2>1, <2>2, <2>5
    <3> QED BY <2>1, <2>3, <2>5, <3>1
  <2> QED BY <1>1, <2>4, <2>5
<1>5. /\ Len(bases) \in Nat /\ Completed = Len(loaded[0])
      /\ Len(bases) = Len(loaded[0]) + (IF pass = 0 THEN 0 ELSE 1)
      /\ Len(bases') = Len(bases) + (IF pass = 0 THEN 1 ELSE 0)
      /\ bases' \in Seq(UNION {[1..m -> Nat] : m \in 1..nextPsect'})
  <2>1. Len(bases) = Len(loaded[0]) + (IF pass = 0 THEN 0 ELSE 1)
    BY <1>1 DEF BasesType, InPass0
  <2>2. bases' \in Seq(UNION {[1..m -> Nat] : m \in 1..nextPsect'}) /\ Len(bases) \in Nat
        /\ (bases' = Append(bases, Sizes) => Len(bases') = Len(bases) + 1)
    BY <1>1, <1>3, BasesGrow
  <2>3. Completed = Len(loaded[0])
    BY <1>1 DEF Completed
  <2>4. Len(bases') = Len(bases) + (IF pass = 0 THEN 1 ELSE 0)
    BY <1>1, <1>3, <2>2
  <2> QED BY <2>1, <2>2, <2>3, <2>4
<1>6. /\ UniqueVisible' /\ OvrDeclared'
      /\ \A k \in 1..Completed : \A x \in Places : loaded'[0][k] = x => Effect(x, k)'
      /\ \A i \in 1..nextPsect' : Base'[1][i] = 0
  <2>1. \A k \in 1..Completed : loaded'[0][k] = loaded[0][k]
    BY <1>4, <1>5
  <2>2. pass' = 0 => pass = 0 /\ fileIdx \in Nat /\ fileIdx' \in Nat /\ fileIdx <= fileIdx'
    BY <1>1
  <2> QED BY <1>1, <1>2, <1>3, <2>1, <2>2, TablesStay
<1>7. BasesType'
  <2>1. InPass0' <=> pass = 0
    BY <1>1 DEF InPass0
  <2>2. CASE pass = 0
    <3>1. Len(bases') = Len(loaded'[0])
      BY <1>4, <1>5, <2>2
    <3> QED BY <1>4, <1>5, <1>6, <2>1, <2>2, <3>1 DEF BasesType
  <2>3. CASE pass = 1
    <3>1. Len(bases') = Len(loaded'[0]) + 1
      BY <1>4, <1>5, <2>3
    <3> QED BY <1>4, <1>5, <1>6, <2>1, <2>3, <3>1 DEF BasesType
  <2> QED BY <1>1, <2>2, <2>3
<1>8. EndsFit'
  <2> SUFFICES ASSUME NEW x \in Places, NEW n \in Nat, recIdx' = n + 1
               PROVE  ReadSoFar(x, n)'
    BY <1>1 DEF EndsFit
  <2>1. n = 0 /\ 1..n = {}
    OBVIOUS
  <2>2. \A i : TextEnds(x, n, i)' = {}
    BY <2>1 DEF TextEnds, TextsOf
  <2>3. \A i \in 1..nextPsect' : psectInfo'[i].end = 0
    BY <1>1, <1>3 DEF EndsFit
  <2>4. \A i \in 1..nextPsect' : IsLongest(psectInfo'[i].end, TextEnds(x, n, i)')
    BY <2>2, <2>3 DEF IsLongest
  <2> QED BY <2>1, <2>4 DEF ReadSoFar
<1>9. SizesFit'
  <2> SUFFICES ASSUME NEW i \in 1..nextPsect
               PROVE /\ pass = 0 => psectInfo'[i].blk = Base'[Len(bases')][i]
                     /\ pass = 1 => psectInfo'[i].blk = Base'[Len(loaded'[1])][i]
    BY <1>1, <1>3 DEF SizesFit, Layout
  <2>1. CASE pass = 0
    <3>1. bases' = Append(bases, Sizes) /\ Len(bases') = Len(bases) + 1
      BY <1>3, <1>5, <2>1
    <3>2. Base'[Len(bases) + 1][i] = psectInfo[i].blk
      BY <1>1, <1>3, <3>1, BasesGrow
    <3> QED BY <1>3, <2>1, <3>1, <3>2
  <2>2. CASE pass = 1
    <3>1. Len(loaded'[1]) = Len(loaded[1]) + 1 /\ bases' = bases
      BY <1>3, <1>4, <2>2
    <3>2. psectInfo[i].blk = Base[Len(loaded[1]) + 1][i]
      BY <1>1, <2>2 DEF SizesFit
    <3>3. Base' = Base
      BY <3>1 DEF Base
    <3> QED BY <1>3, <2>2, <3>1, <3>2, <3>3
  <2> QED BY <1>1, <2>1, <2>2
<1>10. Effects'
  <2>1. Completed' = Completed
    <3>1. CASE pass = 0
      BY <1>1, <1>4, <1>5, <3>1 DEF Completed
    <3>2. CASE pass = 1
      BY <1>1, <1>4, <1>5, <3>2 DEF Completed
    <3> QED BY <1>1, <3>1, <3>2
  <2> QED BY <1>6, <2>1 DEF Effects
<1> QED BY <1>6, <1>7, <1>8, <1>9, <1>10 DEF SInv

LEMMA BetweenPasses ==
  ASSUME TypeOK, Positions, OInv, SInv, OpenFile \/ ScanModule \/ DoModule \/ CloseLibrary
  PROVE  SInv'
<1> USE DEF histVars, tabVars
<1>1. CASE OpenFile
  <2>1. CASE CurFile.kind = "missing" /\ Fatal
    BY <2>1, FatalPasses
  <2>2. CASE CurFile.kind = "lib"
    <3>1. Passing
      BY <1>1, <2>2 DEF OpenFile, Passing
    <3> QED BY <3>1, PassingPasses
  <2>3. CASE CurFile.kind = "obj"
    <3>1. /\ pc = "open" /\ fileIdx < Len(job.files) /\ modIdx' = 0 /\ StartModule
          /\ UNCHANGED <<job, pass, fileIdx, libFileIdx, psectInfo, nextPsect>>
      BY <1>1, <2>3 DEF OpenFile
    <3>2. Starts
      BY <2>3, <3>1 DEF Starts, StartModule, Enter, Cursor
    <3> QED BY <3>1, <3>2, StartsPasses DEF StartModule
  <2> QED BY <1>1, <2>1, <2>2, <2>3 DEF OpenFile
<1>2. CASE ScanModule \/ DoModule
  <2>1. /\ pc = "scan" /\ fileIdx < Len(job.files) /\ CurFile.kind = "lib" /\ modIdx \in Nat
        /\ Cursor = <<fileIdx, modIdx>>
    BY <1>2 DEF ScanModule, DoModule, Positions, OInv, Whereabouts, TypeOK, Cursor
  <2>2. CASE /\ modIdx' = modIdx /\ StartModule
             /\ UNCHANGED <<job, pass, fileIdx, libFileIdx, psectInfo, nextPsect>>
    <3>1. Starts
      BY <2>1, <2>2 DEF Starts, StartModule, Enter
    <3> QED BY <2>2, <3>1, StartsPasses DEF StartModule
  <2>3. CASE /\ modIdx' = modIdx + 1
             /\ UNCHANGED <<job, pc, pass, fileIdx, psectInfo, nextPsect, loaded, bases>>
    <3>1. Passing
      BY <2>1, <2>3 DEF Passing
    <3> QED BY <3>1, PassingPasses
  <2> QED BY <1>2, <2>2, <2>3 DEF ScanModule, DoModule
<1>3. CASE CloseLibrary
  <2>1. Passing
    BY <1>3 DEF CloseLibrary, Passing
  <2> QED BY <2>1, PassingPasses
<1> QED BY <1>1, <1>2, <1>3

-----------------------------------------------------------------------------
(* finPass1 *)

LEMMA FinPass1Passes ==
  ASSUME TypeOK, Positions, OInv, SInv, FinPass1 PROVE SInv'
<1>1. /\ UniqueVisible /\ OvrDeclared /\ BasesType /\ EndsFit /\ SizesFit /\ Effects
      /\ pc \notin Lost /\ pc = "open" /\ pc' \in {"spec", "place"} /\ pass = 0 /\ pass' = 0
      /\ fileIdx \in Nat /\ fileIdx' = fileIdx
      /\ idx' = 1 /\ bases' = Append(bases, Sizes)
      /\ UNCHANGED <<job, psectInfo, nextPsect, loaded>>
  BY DEF SInv, Lost, FinPass1, tabVars, Bases, TypeOK
<1>2. SameEntries
  BY <1>1 DEF SameEntries, SameNames
<1>3. /\ InPass0 /\ ~InPass0' /\ Completed = Len(loaded[0]) /\ Completed' = Completed
      /\ Len(bases) = Len(loaded[0]) /\ Len(loaded[0]) \in Nat
      /\ Len(bases') = Len(bases) + 1
      /\ bases' \in Seq(UNION {[1..m -> Nat] : m \in 1..nextPsect'})
  <2>1. InPass0 /\ ~InPass0' /\ Completed = Len(loaded[0]) /\ Completed' = Completed
    BY <1>1 DEF InPass0, Completed
  <2>2. Len(bases) = Len(loaded[0]) /\ Len(loaded[0]) \in Nat
    BY <1>1, <2>1, HistoryType DEF BasesType, OInv
  <2>3. /\ Len(bases') = Len(bases) + 1
        /\ bases' \in Seq(UNION {[1..m -> Nat] : m \in 1..nextPsect'})
    BY <1>1, BasesGrow
  <2> QED BY <2>1, <2>2, <2>3
<1>4. /\ UniqueVisible' /\ OvrDeclared'
      /\ \A k \in 1..Completed : \A x \in Places : loaded'[0][k] = x => Effect(x, k)'
      /\ \A i \in 1..nextPsect' : Base'[1][i] = 0
  BY <1>1, <1>2, TablesStay
<1>5. BasesType'
  <2>1. Len(bases') = Len(loaded'[0]) + (IF InPass0' THEN 0 ELSE 1)
    BY <1>1, <1>3
  <2> QED BY <1>3, <1>4, <2>1 DEF BasesType
<1>6. EndsFit'
  BY <1>1 DEF EndsFit
<1>7. SizesFit'
  BY <1>1 DEF SizesFit
<1>8. Effects'
  BY <1>3, <1>4 DEF Effects
<1> QED BY <1>4, <1>5, <1>6, <1>7, <1>8 DEF SInv

\* The loops over psectInfo set addresses, and sizes back to 0 for those they are done with.
LaysOut ==
  /\ pc \in Layout /\ pc' \in Layout
  /\ UNCHANGED <<pass, fileIdx, loaded, bases>> /\ SameEntries
  /\ \A i \in 1..nextPsect :
       /\ psectInfo'[i].end = psectInfo[i].end
       /\ psectInfo'[i].blk = psectInfo[i].blk \/ psectInfo'[i].blk = 0
  /\ \/ idx' = idx
     \/ idx' = idx + 1 /\ psectInfo'[idx].blk = 0

LEMMA LaysOutPasses ==
  ASSUME TypeOK, OInv, SInv, LaysOut PROVE SInv'
<1>1. /\ UniqueVisible /\ OvrDeclared /\ BasesType /\ EndsFit /\ SizesFit /\ Effects
      /\ pc \notin Lost /\ pc \in Layout /\ pc' \in Layout /\ pass = 0 /\ pass' = 0
      /\ fileIdx \in Nat /\ fileIdx' = fileIdx /\ idx \in Nat
      /\ SameEntries /\ bases' = bases /\ loaded' = loaded /\ nextPsect' = nextPsect
      /\ pc \notin {"open", "scan", "rec"} /\ pc' \notin {"open", "scan", "rec"}
  BY DEF SInv, LaysOut, SameEntries, Layout, Lost, TypeOK, OInv, Whereabouts
<1>2. InPass0' = InPass0 /\ Completed' = Completed
  BY <1>1 DEF InPass0, Completed
<1>3. /\ UniqueVisible' /\ OvrDeclared'
      /\ \A k \in 1..Completed : \A x \in Places : loaded'[0][k] = x => Effect(x, k)'
      /\ \A i \in 1..nextPsect' : Base'[1][i] = 0
  BY <1>1, TablesStay
<1>4. BasesType'
  <2>1. bases' \in Seq(UNION {[1..m -> Nat] : m \in 1..nextPsect'})
    BY <1>1, BasesGrow
  <2>2. Len(bases') = Len(loaded'[0]) + (IF InPass0' THEN 0 ELSE 1)
    BY <1>1, <1>2 DEF BasesType
  <2> QED BY <1>3, <2>1, <2>2 DEF BasesType
<1>5. EndsFit'
  BY <1>1 DEF EndsFit, LaysOut
<1>6. SizesFit'
  <2> SUFFICES ASSUME NEW i \in 1..nextPsect, i < idx' PROVE psectInfo'[i].blk = 0
    BY <1>1 DEF SizesFit
  <2>1. i < idx => psectInfo[i].blk = 0
    BY <1>1 DEF SizesFit
  <2>2. i \in Int /\ (i < idx \/ (i = idx /\ idx' = idx + 1))
    BY <1>1 DEF LaysOut
  <2> QED BY <2>1, <2>2 DEF LaysOut
<1>7. Effects'
  BY <1>2, <1>3 DEF Effects
<1> QED BY <1>3, <1>4, <1>5, <1>6, <1>7, <1>1 DEF SInv

\* one entry gets new addresses, or the size 0
LEMMA OneLaidOut ==
  ASSUME TypeOK, NEW i \in 1..nextPsect, NEW q,
         psectInfo' = [psectInfo EXCEPT ![i] = q], UNCHANGED <<job, nextPsect>>,
         q.name = psectInfo[i].name, q.kind = psectInfo[i].kind,
         q.glob = psectInfo[i].glob, q.fileId = psectInfo[i].fileId,
         q.ovr = psectInfo[i].ovr, q.end = psectInfo[i].end,
         q.blk = psectInfo[i].blk \/ q.blk = 0
  PROVE  /\ SameEntries
         /\ \A j \in 1..nextPsect :
              /\ psectInfo'[j].end = psectInfo[j].end
              /\ psectInfo'[j].blk = psectInfo[j].blk \/ psectInfo'[j].blk = 0
         /\ psectInfo'[i] = q
<1>1. \A j \in 1..nextPsect : psectInfo'[j] = IF j = i THEN q ELSE psectInfo[j]
  BY Typed
<1>2. SameNames
  BY OneEntryKept
<1> QED BY <1>1, <1>2 DEF SameEntries

LEMMA SetOriginRest ==
  ASSUME NEW p \in PsectEntry
  PROVE  SetOrigin(p).ovr = p.ovr /\ SetOrigin(p).end = p.end /\ SetOrigin(p).blk = p.blk
BY DEF SetOrigin, PsectEntry

LEMMA FinalKeeps ==
  ASSUME NEW p \in PsectEntry
  PROVE  /\ Final(p).name = p.name /\ Final(p).kind = p.kind /\ Final(p).glob = p.glob
         /\ Final(p).fileId = p.fileId /\ Final(p).ovr = p.ovr /\ Final(p).end = p.end
         /\ Final(p).blk = p.blk
BY SetOriginNames, SetOriginRest DEF Final

LEMMA SameLaidOut ==
  ASSUME UNCHANGED <<job, psectInfo, nextPsect>>
  PROVE  /\ SameEntries
         /\ \A j \in 1..nextPsect :
              /\ psectInfo'[j].end = psectInfo[j].end
              /\ psectInfo'[j].blk = psectInfo[j].blk \/ psectInfo'[j].blk = 0
BY DEF SameEntries, SameNames

LEMMA FinishPsectOut ==
  ASSUME TypeOK, pc \in Layout, idx \in 1..nextPsect,
         NEW p \in PsectEntry, p.name = psectInfo[idx].name, p.kind = psectInfo[idx].kind,
         p.glob = psectInfo[idx].glob, p.fileId = psectInfo[idx].fileId,
         p.ovr = psectInfo[idx].ovr, p.end = psectInfo[idx].end, FinishPsect(idx, p)
  PROVE  LaysOut
<1> DEFINE q == [p EXCEPT !.blk = 0]
<1>1. /\ psectInfo' = [psectInfo EXCEPT ![idx] = q] /\ pc' = "place" /\ idx' = idx + 1
      /\ UNCHANGED <<job, pass, fileIdx, nextPsect, loaded, bases>>
  BY DEF FinishPsect, histVars
<1>2. /\ q.name = p.name /\ q.kind = p.kind /\ q.glob = p.glob /\ q.fileId = p.fileId
      /\ q.ovr = p.ovr /\ q.end = p.end /\ q.blk = 0
  BY DEF PsectEntry
<1> HIDE DEF q
<1>3. /\ SameEntries
      /\ \A j \in 1..nextPsect :
           /\ psectInfo'[j].end = psectInfo[j].end
           /\ psectInfo'[j].blk = psectInfo[j].blk \/ psectInfo'[j].blk = 0
      /\ psectInfo'[idx] = q
  <2>1. /\ q.name = psectInfo[idx].name /\ q.kind = psectInfo[idx].kind
        /\ q.glob = psectInfo[idx].glob /\ q.fileId = psectInfo[idx].fileId
        /\ q.ovr = psectInfo[idx].ovr /\ q.end = psectInfo[idx].end
    BY <1>2
  <2> QED BY <1>1, <1>2, <2>1, OneLaidOut
<1> QED BY <1>1, <1>2, <1>3 DEF LaysOut, Layout

LEMMA PlaceSpecOut ==
  ASSUME TypeOK, Positions,
         \/ PlaceSpecPsect \/ PlaceSpecClass \/ SpecUnknown \/ SpecDone
  PROVE  LaysOut \/ pc' \in Lost
<1>1. CASE PlaceSpecPsect
  <2> DEFINE i == ItemSlot
  <2>1. CASE Fatal
    BY <2>1 DEF Fatal, Lost
  <2>2. CASE ~Fatal
    <3>1. /\ psectInfo' = [psectInfo EXCEPT ![i].link = ItemLink, ![i].load = ItemLoad,
                                            ![i].set = TRUE]
          /\ UNCHANGED <<job, pc, pass, fileIdx, nextPsect, idx, loaded, bases>>
          /\ pc = "spec" /\ specIdx <= Len(job.loc) /\ i # 0
      BY <1>1, <2>2 DEF PlaceSpecPsect, posVars, histVars
    <3>2. i \in 1..nextPsect /\ psectInfo[i] \in PsectEntry
      BY <3>1, ItemType, Typed
    <3> DEFINE q == [psectInfo[i] EXCEPT !.link = ItemLink, !.load = ItemLoad, !.set = TRUE]
    <3> HIDE DEF i
    <3>3. psectInfo' = [psectInfo EXCEPT ![i] = q]
      BY <3>1, <3>2
    <3>4. /\ q.name = psectInfo[i].name /\ q.kind = psectInfo[i].kind
          /\ q.glob = psectInfo[i].glob /\ q.fileId = psectInfo[i].fileId
          /\ q.ovr = psectInfo[i].ovr /\ q.end = psectInfo[i].end /\ q.blk = psectInfo[i].blk
      BY <3>2 DEF PsectEntry
    <3> HIDE DEF q
    <3>5. LaysOut
      BY <3>1, <3>2, <3>3, <3>4, OneLaidOut DEF LaysOut, Layout
    <3> QED BY <3>5
  <2> QED BY <2>1, <2>2
<1>2. CASE PlaceSpecClass \/ SpecDone
  <2>1. /\ pc \in Layout /\ pc' \in Layout /\ idx' = idx
        /\ UNCHANGED <<job, pass, fileIdx, nextPsect, psectInfo, loaded, bases>>
    BY <1>2 DEF PlaceSpecClass, SpecDone, Layout, tabVars, histVars, layVars
  <2>2. LaysOut
    BY <2>1, SameLaidOut DEF LaysOut
  <2> QED BY <2>2
<1>3. CASE SpecUnknown
  BY <1>3, Zenon DEF SpecUnknown, Fatal, Lost
<1> QED BY <1>1, <1>2, <1>3

LEMMA PlaceMembersOut ==
  ASSUME TypeOK, Positions,
         PlaceClassMember \/ SkipClassMember \/ PlaceClass \/ PlaceStray
  PROVE  LaysOut \/ pc' \in Lost
<1>1. CASE PlaceClassMember
  <2>1. CASE Fatal
    BY <2>1 DEF Fatal, Lost
  <2>2. CASE ~Fatal
    <3>1. PICK link, load :
             /\ psectInfo' = [psectInfo EXCEPT ![member].link = link, ![member].load = load,
                                              ![member].set = TRUE]
             /\ UNCHANGED <<job, pc, pass, fileIdx, nextPsect, idx, loaded, bases>>
             /\ pc = "class" /\ member <= nextPsect
      BY <1>1, <2>2 DEF PlaceClassMember, posVars, histVars
    <3>2. member \in 1..nextPsect /\ psectInfo[member] \in PsectEntry
      BY <3>1, Typed
    <3> DEFINE q == [psectInfo[member] EXCEPT !.link = link, !.load = load, !.set = TRUE]
    <3>3. psectInfo' = [psectInfo EXCEPT ![member] = q]
      BY <3>1, <3>2
    <3>4. /\ q.name = psectInfo[member].name /\ q.kind = psectInfo[member].kind
          /\ q.glob = psectInfo[member].glob /\ q.fileId = psectInfo[member].fileId
          /\ q.ovr = psectInfo[member].ovr /\ q.end = psectInfo[member].end
          /\ q.blk = psectInfo[member].blk
      BY <3>2 DEF PsectEntry
    <3> HIDE DEF q
    <3>5. LaysOut
      BY <3>1, <3>2, <3>3, <3>4, OneLaidOut DEF LaysOut, Layout
    <3> QED BY <3>5
  <2> QED BY <2>1, <2>2
<1>2. CASE SkipClassMember \/ PlaceClass
  <2>1. /\ pc \in Layout /\ pc' \in Layout /\ idx' = idx
        /\ UNCHANGED <<job, pass, fileIdx, nextPsect, psectInfo, loaded, bases>>
    BY <1>2 DEF SkipClassMember, PlaceClass, Layout, tabVars, histVars
  <2>2. LaysOut
    BY <2>1, SameLaidOut DEF LaysOut
  <2> QED BY <2>2
<1>3. CASE PlaceStray
  <2> DEFINE p == psectInfo[member]
  <2>1. /\ UNCHANGED <<job, pc, pass, fileIdx, nextPsect, idx, loaded, bases>>
        /\ pc = "stray" /\ member <= nextPsect
        /\ psectInfo' = [psectInfo EXCEPT ![member] = SetOrigin(p)] \/ psectInfo' = psectInfo
    BY <1>3 DEF PlaceStray, posVars, histVars
  <2>2. member \in 1..nextPsect /\ p \in PsectEntry
    BY <2>1, Typed
  <2>3. LaysOut
    <3>1. CASE psectInfo' = psectInfo
      BY <2>1, <3>1, SameLaidOut DEF LaysOut, Layout
    <3>2. CASE psectInfo' = [psectInfo EXCEPT ![member] = SetOrigin(p)]
      BY <2>1, <2>2, <3>2, SetOriginNames, SetOriginRest, OneLaidOut DEF LaysOut, Layout
    <3> QED BY <2>1, <3>1, <3>2
  <2> QED BY <2>3
<1> QED BY <1>1, <1>2, <1>3

LEMMA PlacesOut ==
  ASSUME TypeOK, Positions, Entries,
         PlaceReloc \/ PlacePsect \/ PlaceClassDone \/ CommonCrash
  PROVE  LaysOut \/ pc' \in Lost
<1>1. CASE PlaceReloc
  <2>1. /\ psectInfo' = [psectInfo EXCEPT ![idx].blk = 0] /\ idx' = idx + 1
        /\ UNCHANGED <<job, pc, pass, fileIdx, nextPsect, loaded, bases>>
        /\ pc = "place" /\ idx <= nextPsect
    BY <1>1 DEF PlaceReloc, posVars, histVars
  <2>2. idx \in 1..nextPsect /\ psectInfo[idx] \in PsectEntry
    BY <2>1, Typed
  <2> DEFINE q == [psectInfo[idx] EXCEPT !.blk = 0]
  <2>3. /\ q.name = psectInfo[idx].name /\ q.kind = psectInfo[idx].kind
        /\ q.glob = psectInfo[idx].glob /\ q.fileId = psectInfo[idx].fileId
        /\ q.ovr = psectInfo[idx].ovr /\ q.end = psectInfo[idx].end /\ q.blk = 0
        /\ psectInfo' = [psectInfo EXCEPT ![idx] = q]
    BY <2>1, <2>2 DEF PsectEntry
  <2> HIDE DEF q
  <2>4. LaysOut
    BY <2>1, <2>2, <2>3, OneLaidOut DEF LaysOut, Layout
  <2> QED BY <2>4
<1>2. CASE PlacePsect
  <2> DEFINE p == psectInfo[idx]
  <2>1. CASE ~LabelRoom(idx, Final(p))
    BY <1>2, <2>1 DEF PlacePsect, Fatal, Lost
  <2>2. CASE LabelRoom(idx, Final(p))
    <3>1. idx <= nextPsect /\ FinishPsect(idx, Final(p)) /\ pc \in Layout
      BY <1>2, <2>2 DEF PlacePsect, Layout
    <3>2. idx \in 1..nextPsect /\ p \in PsectEntry
      BY <3>1, Typed
    <3> HIDE DEF p
    <3>3. Final(p) \in PsectEntry
      BY <3>2, SetOriginType DEF Final
    <3> QED BY <3>1, <3>2, <3>3, FinalKeeps, FinishPsectOut DEF p
  <2> QED BY <2>1, <2>2
<1>3. CASE PlaceClassDone
  <2>1. FinishPsect(idx, psectInfo[idx]) /\ pc \in Layout /\ idx <= nextPsect
    BY <1>3 DEF PlaceClassDone, Positions, Layout
  <2>2. idx \in 1..nextPsect /\ psectInfo[idx] \in PsectEntry
    BY <2>1, Typed
  <2> QED BY <2>1, <2>2, FinishPsectOut
<1>4. CASE CommonCrash
  BY <1>4 DEF CommonCrash, Lost
<1> QED BY <1>1, <1>2, <1>3, <1>4

\* pass 1 starts with all sizes at 0, as pass 0 did
LEMMA StartPass2Passes ==
  ASSUME TypeOK, Positions, OInv, SInv, RelocateSymbols \/ KeepRelocatable
  PROVE  SInv'
<1>1. CASE pc' = "failed"
  BY <1>1 DEF SInv, Lost
<1>2. CASE pc' # "failed"
  <2>1. /\ pc = "place" /\ idx > nextPsect /\ idx \in Nat /\ pc' = "open" /\ pass' = 1
        /\ UNCHANGED <<job, psectInfo, nextPsect, loaded, bases>>
    BY <1>2 DEF RelocateSymbols, KeepRelocatable, StartPass2, histVars, TypeOK
  <2>2. /\ UniqueVisible /\ OvrDeclared /\ BasesType /\ EndsFit /\ SizesFit /\ Effects
        /\ pc \notin Lost /\ pc \in Layout /\ pass = 0
    BY <2>1 DEF SInv, Layout, Lost, OInv, Whereabouts
  <2>3. SameEntries
    BY <2>1 DEF SameEntries, SameNames
  <2>4. InPass0' = InPass0 /\ Completed' = Completed /\ Base' = Base
    BY <2>1 DEF InPass0, Completed, Base
  <2>5. /\ UniqueVisible' /\ OvrDeclared'
        /\ \A k \in 1..Completed : \A x \in Places : loaded'[0][k] = x => Effect(x, k)'
        /\ \A i \in 1..nextPsect' : Base'[1][i] = 0
    BY <2>1, <2>2, <2>3, TablesStay
  <2>6. BasesType'
    <3>1. bases' \in Seq(UNION {[1..m -> Nat] : m \in 1..nextPsect'})
      BY <2>1, <2>2, BasesGrow
    <3>2. Len(bases') = Len(loaded'[0]) + (IF InPass0' THEN 0 ELSE 1)
      BY <2>1, <2>2, <2>4 DEF BasesType
    <3> QED BY <2>5, <3>1, <3>2 DEF BasesType
  <2>7. EndsFit'
    BY <2>1, <2>2 DEF EndsFit
  <2>8. SizesFit'
    <3> SUFFICES ASSUME NEW i \in 1..nextPsect
                 PROVE  psectInfo'[i].blk = Base'[Len(loaded'[1]) + 1][i]
      BY <2>1 DEF SizesFit, Layout
    <3>1. psectInfo[i].blk = 0
      <4>1. i < idx
        BY <2>1, Typed
      <4> QED BY <2>2, <4>1 DEF SizesFit
    <3>2. loaded'[1] = <<>> /\ Len(loaded'[1]) + 1 = 1
      BY <2>1, <2>2 DEF OInv, PickedBehind
    <3> QED BY <2>1, <2>5, <3>1, <3>2
  <2>9. Effects'
    BY <2>4, <2>5 DEF Effects
  <2> QED BY <2>5, <2>6, <2>7, <2>8, <2>9 DEF SInv
<1> QED BY <1>1, <1>2

LEMMA DonePasses ==
  ASSUME TypeOK, OInv, SInv, FinPass2 \/ UNCHANGED vars PROVE SInv'
<1>1. CASE UNCHANGED vars
  <2>1. /\ UNCHANGED <<job, pc, pass, fileIdx, modIdx, recIdx, idx>>
        /\ UNCHANGED <<psectInfo, nextPsect, loaded, bases>>
    BY <1>1 DEF vars, posVars, tabVars, layVars, histVars
  <2>2. UniqueVisible' = UniqueVisible /\ OvrDeclared' = OvrDeclared
    BY <2>1 DEF UniqueVisible, OvrDeclared, Overlaid
  <2>3. Base' = Base /\ InPass0' = InPass0 /\ Completed' = Completed /\ PsectFrom' = PsectFrom
    BY <2>1 DEF Base, InPass0, Completed, PsectFrom, PsectsFrom
  <2>4. BasesType' = BasesType /\ SizesFit' = SizesFit
    BY <2>1, <2>3 DEF BasesType, SizesFit
  <2>5. EndsFit' = EndsFit
    BY <2>1, <2>3 DEF EndsFit, ReadSoFar, RecsOf, ModsAt, Found, TextEnds, TextsOf
  <2>6. Effects' = Effects
    BY <2>1, <2>3 DEF Effects, Effect, RecsOf, ModsAt, Found, TextEnds, TextsOf, Over, Overlaid
  <2> QED BY <2>1, <2>2, <2>4, <2>5, <2>6 DEF SInv
<1>2. CASE FinPass2
  <2>1. CASE pc' = "failed"
    BY <2>1 DEF SInv, Lost
  <2>2. CASE pc' # "failed"
    <3>1. /\ pc = "open" /\ pc' = "done" /\ pass = 1
          /\ UNCHANGED <<job, pass, fileIdx, psectInfo, nextPsect, loaded, bases>>
      BY <1>2, <2>2 DEF FinPass2, tabVars, histVars
    <3>2. /\ UniqueVisible /\ OvrDeclared /\ BasesType /\ EndsFit /\ SizesFit /\ Effects
          /\ pc \notin Lost /\ fileIdx \in Nat /\ InPass0' = InPass0 /\ Completed' = Completed
          /\ Base' = Base /\ SameEntries
      BY <3>1 DEF SInv, Lost, TypeOK, InPass0, Completed, Base, SameEntries, SameNames
    <3>3. /\ UniqueVisible' /\ OvrDeclared'
          /\ \A k \in 1..Completed : \A x \in Places : loaded'[0][k] = x => Effect(x, k)'
          /\ \A i \in 1..nextPsect' : Base'[1][i] = 0
      BY <3>1, <3>2, TablesStay
    <3>4. BasesType'
      <4>1. bases' \in Seq(UNION {[1..m -> Nat] : m \in 1..nextPsect'})
        BY <3>1, <3>2, BasesGrow
      <4>2. Len(bases') = Len(loaded'[0]) + (IF InPass0' THEN 0 ELSE 1)
        BY <3>1, <3>2 DEF BasesType
      <4> QED BY <3>3, <4>1, <4>2 DEF BasesType
    <3>5. EndsFit' /\ SizesFit' /\ Effects'
      BY <3>1, <3>2, <3>3 DEF EndsFit, SizesFit, Effects, Layout
    <3> QED BY <3>3, <3>4, <3>5 DEF SInv
  <2> QED BY <2>1, <2>2
<1> QED BY <1>1, <1>2

-----------------------------------------------------------------------------
(* The theorem *)

LEMMA InitPasses == Init => SInv
<1> SUFFICES ASSUME Init PROVE SInv
  OBVIOUS
<1>1. /\ pc = "open" /\ pass = 0 /\ fileIdx = 0 /\ nextPsect = 1
      /\ loaded = [p \in {0, 1} |-> <<>>] /\ bases = <<>>
      /\ 1 \in 1..MaxPsects /\ psectInfo[1] = AbsEntry
  BY LinkAssumption DEF Init
<1>2. /\ psectInfo[1].name = Abs /\ psectInfo[1].fileId = 0 /\ psectInfo[1].ovr
      /\ psectInfo[1].blk = 0 /\ psectInfo[1].end = 0
  BY <1>1 DEF AbsEntry, NewPsect
<1>3. 1..nextPsect = {1}
  BY <1>1
<1>4. UniqueVisible /\ OvrDeclared /\ EndsFit
  BY <1>1, <1>2, <1>3 DEF UniqueVisible, OvrDeclared, Overlaid, EndsFit
<1>5. BasesType
  <2>1. Base[1][1] = 0
    BY <1>1, <1>2 DEF Base
  <2> QED BY <1>1, <1>3, <2>1 DEF BasesType, InPass0
<1>6. SizesFit
  BY <1>1 DEF SizesFit, Layout
<1>7. Effects
  BY <1>1 DEF Effects, Completed
<1> QED BY <1>4, <1>5, <1>6, <1>7 DEF SInv

LEMMA JobStays ==
  ASSUME OInv, [Next]_vars PROVE job' = job
<1>1. CASE Pass1Rec \/ Pass2Rec \/ NoEndRecord \/ SkipRec
  BY <1>1, HandlersStay DEF StaysPut, posHist
<1>2. CASE LayoutStep /\ ~RelocateSymbols /\ ~KeepRelocatable
  BY <1>2, LayoutStays DEF StaysPut, posHist
<1>3. CASE RelocateSymbols \/ KeepRelocatable
  BY <1>3 DEF RelocateSymbols, KeepRelocatable, StartPass2
<1>4. CASE OpenFile \/ CloseLibrary \/ EndRec
  BY <1>4 DEF OpenFile, CloseLibrary, EndRec, Fatal
<1>5. CASE ScanModule \/ DoModule
  BY <1>5 DEF ScanModule, DoModule
<1>6. CASE FinPass2 \/ UNCHANGED vars
  BY <1>6 DEF FinPass2, vars
<1> QED BY <1>1, <1>2, <1>3, <1>4, <1>5, <1>6 DEF Next, Step, Exited, ReadStep

LEMMA NextPasses ==
  ASSUME IInv, CInv, OInv, OverlaysDeclared => SInv, [Next]_vars
  PROVE  (OverlaysDeclared => SInv)'
<1>1. OverlaysDeclared' <=> OverlaysDeclared
  <2>1. job' = job
    BY JobStays
  <2> QED BY <2>1, SameJob
<1> SUFFICES ASSUME OverlaysDeclared, SInv PROVE SInv'
  BY <1>1
<1> USE DEF IInv, CInv
<1>2. CASE OpenFile \/ ScanModule \/ DoModule \/ CloseLibrary
  BY <1>2, BetweenPasses
<1>3. CASE PsectRec \/ XpsectRec \/ TextRecPass1 \/ SymNullPass1 \/ TextRecPass2
  BY <1>3, PsectRecEnters, XpsectRecEnters, TextRecPass1Enters, SymNullPass1Enters,
     EntersRecPasses, FatalPasses, TextRecPass2Passes
<1>4. CASE EndRec
  BY <1>4, EndRecPasses
<1>5. CASE \/ IdentRec \/ RelocRecPass1 \/ SymExternPass1 \/ SymCommPass1
           \/ RelocRecPass2 \/ SymRecPass2 \/ StartRecPass2 \/ SkipRec \/ NoEndRecord
  BY <1>5, QuietRecs
<1>6. CASE FinPass1
  BY <1>6, FinPass1Passes
<1>7. CASE PlaceSpecPsect \/ PlaceSpecClass \/ SpecUnknown \/ SpecDone
  BY <1>7, PlaceSpecOut, LaysOutPasses, LostPasses
<1>8. CASE PlaceClassMember \/ SkipClassMember \/ PlaceClass \/ PlaceStray
  BY <1>8, PlaceMembersOut, LaysOutPasses, LostPasses
<1>9. CASE PlaceReloc \/ PlacePsect \/ PlaceClassDone \/ CommonCrash
  BY <1>9, PlacesOut, LaysOutPasses, LostPasses
<1>10. CASE RelocateSymbols \/ KeepRelocatable
  BY <1>10, StartPass2Passes
<1>11. CASE FinPass2 \/ UNCHANGED vars
  BY <1>11, DonePasses
<1> QED BY <1>2, <1>3, <1>4, <1>5, <1>6, <1>7, <1>8, <1>9, <1>10, <1>11
        DEF Next, Step, Exited, ReadStep, LayoutStep, Pass1Rec, Pass2Rec

LEMMA PassesImply ==
  ASSUME TypeOK, OInv, SInv PROVE PassesAgree
<1> SUFFICES ASSUME pass = 1, pc = "rec" PROVE PassesAgree
  BY DEF PassesAgree
<1>1. Current <= Len(loaded[0]) /\ loaded[1][Current] = loaded[0][Current]
  BY OrderImplies DEF SameModules
<1>2. BasesType /\ SizesFit
  BY DEF SInv, Lost
<1>3. PICK k \in Nat : k = Len(loaded[1])
  BY HistoryType DEF OInv
<1>4. k \in 1..Len(bases)
  <2>1. loaded[1] # <<>> /\ loaded[1] \in Seq(Places)
    BY HistoryType DEF OInv, EnteredLast
  <2>2. Len(bases) = Len(loaded[0]) + 1 /\ Len(loaded[0]) \in Nat
    BY <1>2, HistoryType DEF BasesType, InPass0, OInv
  <2> QED BY <1>1, <1>3, <2>1, <2>2 DEF Current
<1>5. ASSUME NEW i \in 1..nextPsect
      PROVE  psectInfo[i].blk = IF i \in DOMAIN bases[k] THEN bases[k][i] ELSE 0
  <2>1. psectInfo[i].blk = Base[k][i]
    BY <1>2, <1>3 DEF SizesFit
  <2>2. i \in 1..MaxPsects
    BY Typed
  <2> QED BY <1>2, <1>4, <2>1, <2>2, BaseIs
<1> QED BY <1>1, <1>3, <1>5 DEF PassesAgree, Current

\* Pass 1 meets the modules of pass 0 in the same order, and finds every psect,
\* before each, at the size it had there in pass 0, if whoever puts text into an
\* overlaid psect says itself that it is one: the base of a module's text is the
\* one its symbols were given (link/text.c textRecPass1, textRecPass2; link/sym.c
\* addSym, psectRecPass1, endRecPass1, endRecPass2).
THEOREM PassesMeet == Spec => [](OverlaysDeclared => PassesAgree)
<1>1. Init => IInv /\ CInv /\ OInv /\ (OverlaysDeclared => SInv)
  BY InitInv, InitCounts, InitOrder, InitPasses
<1>2. /\ IInv /\ CInv /\ OInv /\ (OverlaysDeclared => SInv)
      /\ [Next]_vars
      => (IInv /\ CInv /\ OInv /\ (OverlaysDeclared => SInv))'
  BY NextInv, NextCounts, NextOrder, NextPasses
<1>3. IInv /\ OInv /\ (OverlaysDeclared => SInv) => (OverlaysDeclared => PassesAgree)
  BY PassesImply DEF IInv
<1> QED BY <1>1, <1>2, <1>3, PTL DEF Spec

-----------------------------------------------------------------------------
(***************************************************************************)
(* What exit status 0 of module Link means: every reference was resolved,  *)
(* and the modules linked do not contradict each other.                    *)
(*                                                                         *)
(* The argument: what a record of pass 0 said stays in the tables, so the  *)
(* second of two records that contradict each other finds the first, and   *)
(* is counted; the count never goes down, and decides the exit status.     *)
(* Pass 1 meets no record that pass 0 has not met.                         *)
(***************************************************************************)

-----------------------------------------------------------------------------
(* The inductive invariant *)

\* record j of the k-th module of pass p has been read
Seen(p, k, j) ==
  /\ k \in 1..Len(loaded[p]) /\ j \in BodyOf(loaded[p][k])
  /\ pass = p /\ pc = "rec" /\ k = Len(loaded[p]) => j < recIdx
RecAt(p, k, j) == ModOf(loaded[p][k]).recs[j]

NoEndYet ==
  pc = "rec" => /\ recIdx <= Len(CurMod.recs) + 1
                /\ \A m \in 1..(recIdx - 1) : CurMod.recs[m].t # "END"

\* what the tables hold of a record of pass 0
Recorded(r) ==
  /\ r.t = "IDENT" => ident = r.order /\ ident # NoOrder
  /\ r.t = "RELOC" /\ r.kind \in {"RNAME", "RRNAME"} => r.name \in Syms /\ Known(r.name)
  /\ r.t = "SYM" /\ r.low = "NULL" /\ r.glob =>
       r.name \in Syms /\ (sym[r.name].low = "NULL" \/ errCnt # 0)
  /\ r.t = "SYM" /\ r.low = "COMM" => r.name \in Syms /\ sym[r.name].low \in {"NULL", "COMM"}
AllRecorded == \A k, j \in Nat : Seen(0, k, j) => Recorded(RecAt(0, k, j))

\* x defines a symbol that y defines too
Clash(x, y) ==
  /\ x.t = "SYM" /\ x.low = "NULL" /\ x.glob
  /\ y.t = "SYM" /\ (y.low = "COMM" \/ (y.low = "NULL" /\ y.glob))
  /\ x.name = y.name
NoClash ==
  errCnt = 0 => \A j, q, k, r \in Nat : Seen(0, j, q) /\ Seen(0, k, r) /\ j # k =>
                  ~Clash(RecAt(0, j, q), RecAt(0, k, r))

OneStart ==
  errCnt = 0 =>
    /\ entry = <<>> \/ Len(entry) = 1
    /\ \A k, j \in Nat : Seen(1, k, j) /\ RecAt(1, k, j).t = "START" => entry # <<>>
    /\ \A j, q, k, r \in Nat : Seen(1, j, q) /\ Seen(1, k, r) /\ j # k =>
         ~(RecAt(1, j, q).t = "START" /\ RecAt(1, k, r).t = "START")

NoneOpen ==
  pass = 1 /\ ~job.R => /\ Commons = {}
                        /\ ~job.I /\ errCnt = 0 => Externs = {}

FixesRight ==
  /\ pass = 0 => fixes = {} /\ entry = <<>>
  /\ \A x \in fixes : errCnt = 0 /\ ~job.R /\ x.kind = "RNAME" =>
       /\ x.name \in Syms /\ Known(x.name)
       /\ x.field = sym[x.name].value + Signed(x.add)

NoErrorAtEnd == pc = "done" => errCnt = 0 /\ pass = 1

GInv == pc \notin Lost => /\ NoEndYet /\ AllRecorded /\ NoClash /\ OneStart
                          /\ NoneOpen /\ FixesRight /\ NoErrorAtEnd

-----------------------------------------------------------------------------
(* Which records have been read *)

LEMMA HereSeen ==
  ASSUME TypeOK, Positions, OInv, pc = "rec"
  PROVE  /\ Len(loaded[pass]) \in Nat /\ Len(loaded[pass]) >= 1
         /\ loaded[pass][Len(loaded[pass])] = <<fileIdx, modIdx>>
         /\ ModOf(<<fileIdx, modIdx>>) = CurMod
         /\ RecAt(pass, Len(loaded[pass]), recIdx) = Rec
         /\ Len(CurMod.recs) \in Nat
<1>1. /\ loaded[pass] # <<>> /\ loaded[pass][Len(loaded[pass])] = <<fileIdx, modIdx>>
      /\ loaded[0] \in Seq(Places) /\ loaded[1] \in Seq(Places) /\ pass \in {0, 1}
  BY HistoryType DEF OInv, EnteredLast, TypeOK
<1>2. loaded[pass] \in Seq(Places)
  BY <1>1
<1>3. Len(loaded[pass]) \in Nat /\ Len(loaded[pass]) >= 1
  BY <1>1, <1>2
<1>4. ModOf(<<fileIdx, modIdx>>) = CurMod
  BY DEF ModOf, CurMod, CurFile
<1>5. RecAt(pass, Len(loaded[pass]), recIdx) = Rec
  BY <1>1, <1>4 DEF RecAt, Rec
<1>6. Len(CurMod.recs) \in Nat
  BY HereIs, ValidRecs
<1> QED BY <1>1, <1>3, <1>4, <1>5, <1>6

SeenSame == \A p \in {0, 1} : \A k, j \in Nat :
              Seen(p, k, j)' => Seen(p, k, j) /\ RecAt(p, k, j)' = RecAt(p, k, j)

\* one more record has been read
SeenMore == \A p \in {0, 1} : \A k, j \in Nat :
              Seen(p, k, j)' =>
                /\ RecAt(p, k, j)' = RecAt(p, k, j)
                /\ \/ Seen(p, k, j)
                   \/ p = pass /\ k = Len(loaded[pass]) /\ j = recIdx /\ RecAt(p, k, j) = Rec

LEMMA Reads ==
  ASSUME TypeOK, Positions, OInv, NoEndYet, pc = "rec", recIdx <= Len(CurMod.recs),
         Rec.t # "END", NextRec, UNCHANGED <<job, loaded>>
  PROVE  SeenMore /\ NoEndYet'
<1>1. /\ recIdx' = recIdx + 1 /\ pc' = "rec" /\ pass' = pass /\ CurMod' = CurMod
      /\ recIdx \in Nat
  BY DEF NextRec, CurMod, CurFile, TypeOK
<1>2. SeenMore
  <2> SUFFICES ASSUME NEW p \in {0, 1}, NEW k \in Nat, NEW j \in Nat, Seen(p, k, j)'
               PROVE  /\ RecAt(p, k, j)' = RecAt(p, k, j)
                      /\ \/ Seen(p, k, j)
                         \/ /\ p = pass /\ k = Len(loaded[pass]) /\ j = recIdx
                            /\ RecAt(p, k, j) = Rec
    BY DEF SeenMore
  <2>1. RecAt(p, k, j)' = RecAt(p, k, j)
    BY DEF RecAt, ModOf
  <2>2. /\ k \in 1..Len(loaded[p]) /\ j \in BodyOf(loaded[p][k])
        /\ pass = p /\ k = Len(loaded[p]) => j < recIdx + 1
    BY <1>1 DEF Seen, BodyOf, ModOf
  <2>3. Seen(p, k, j) \/ (p = pass /\ k = Len(loaded[pass]) /\ j = recIdx)
    BY <1>1, <2>2 DEF Seen
  <2> QED BY <2>1, <2>3, HereSeen
<1>3. NoEndYet'
  <2>1. Len(CurMod.recs) \in Nat
    BY HereSeen
  <2>2. \A m \in 1..recIdx : CurMod.recs[m].t # "END"
    BY <1>1 DEF NoEndYet, Rec
  <2> QED BY <1>1, <2>1, <2>2 DEF NoEndYet
<1> QED BY <1>2, <1>3

\* no module is being read, before or after the step
LEMMA SeenBetween ==
  ASSUME UNCHANGED <<job, loaded>>, pc # "rec", pc' # "rec"
  PROVE  SeenSame /\ NoEndYet'
<1>1. \A p \in {0, 1} : \A k, j \in Nat : Seen(p, k, j)' => Seen(p, k, j)
  BY DEF Seen, BodyOf, ModOf
<1>2. \A p \in {0, 1} : \A k, j \in Nat : RecAt(p, k, j)' = RecAt(p, k, j)
  BY DEF RecAt, ModOf
<1> QED BY <1>1, <1>2 DEF SeenSame, NoEndYet

LEMMA SeenAtEnd ==
  ASSUME TypeOK, Positions, OInv, pc = "rec", recIdx <= Len(CurMod.recs), Rec.t = "END",
         UNCHANGED <<job, loaded>>, pc' # "rec"
  PROVE  SeenSame /\ NoEndYet'
<1>1. \A p \in {0, 1} : \A k, j \in Nat : RecAt(p, k, j)' = RecAt(p, k, j)
  BY DEF RecAt, ModOf
<1>2. ASSUME NEW p \in {0, 1}, NEW k \in Nat, NEW j \in Nat, Seen(p, k, j)'
      PROVE  Seen(p, k, j)
  <2>1. k \in 1..Len(loaded[p]) /\ j \in BodyOf(loaded[p][k])
    BY <1>2 DEF Seen, BodyOf, ModOf
  <2>2. ASSUME pass = p, k = Len(loaded[p]) PROVE j < recIdx
    <3>1. /\ j \in 1..Len(CurMod.recs) /\ \A m \in 1..j : CurMod.recs[m].t # "END"
          /\ recIdx \in Nat \ {0} /\ Len(CurMod.recs) \in Nat
      BY <2>1, <2>2, HereSeen DEF BodyOf, TypeOK
    <3>2. CurMod.recs[recIdx].t = "END"
      BY DEF Rec
    <3> QED BY <3>1, <3>2
  <2> QED BY <2>1, <2>2 DEF Seen
<1> QED BY <1>1, <1>2 DEF SeenSame, NoEndYet

LEMMA RecsNext == (TypeOK /\ Positions /\ pc = "rec" => Len(CurMod.recs) \in Nat)'
<1>1. TypeOK /\ Positions /\ pc = "rec" => Len(CurMod.recs) \in Nat
  BY HereIs, ValidRecs
<1> QED BY <1>1, PTL

LEMMA SeenAtStart ==
  ASSUME TypeOK, OInv, Starts, recIdx' = 1, TypeOK', Positions'
  PROVE  SeenSame /\ NoEndYet'
<1>1. /\ pc # "rec" /\ pc' = "rec" /\ job' = job /\ pass' = pass /\ fileIdx' = fileIdx
      /\ loaded' = [loaded EXCEPT ![pass] = Append(@, <<fileIdx, modIdx'>>)]
      /\ pass \in {0, 1} /\ fileIdx < Len(job.files)
      /\ loaded \in [{0, 1} -> Seq(Places)]
  BY DEF Starts, TypeOK, OInv, Histories
<1>2. ASSUME NEW p \in {0, 1}, NEW k \in Nat, NEW j \in Nat, Seen(p, k, j)'
      PROVE  Seen(p, k, j) /\ RecAt(p, k, j)' = RecAt(p, k, j)
  <2>1. /\ k \in 1..Len(loaded'[p]) /\ j \in BodyOf(loaded[p][k])' /\ j \in Nat \ {0}
        /\ pass = p /\ k = Len(loaded'[p]) => j < 1
    BY <1>1, <1>2 DEF Seen, BodyOf
  <2>2. loaded[p] \in Seq(Places) /\ Len(loaded[p]) \in Nat
    BY <1>1
  <2>3. k \in 1..Len(loaded[p]) /\ loaded'[p][k] = loaded[p][k]
    <3>1. CASE p = pass
      <4>1. loaded'[p] = Append(loaded[p], <<fileIdx, modIdx'>>)
        BY <1>1, <3>1
      <4>2. Len(loaded'[p]) = Len(loaded[p]) + 1
        BY <2>2, <4>1
      <4>3. k \in 1..Len(loaded[p])
        BY <2>1, <2>2, <3>1, <4>2
      <4> QED BY <2>2, <4>1, <4>3
    <3>2. CASE p # pass
      BY <1>1, <2>1, <3>2
    <3> QED BY <3>1, <3>2
  <2>4. RecAt(p, k, j)' = RecAt(p, k, j) /\ j \in BodyOf(loaded[p][k])
    BY <1>1, <2>1, <2>3 DEF RecAt, ModOf, BodyOf
  <2> QED BY <1>1, <2>3, <2>4 DEF Seen
<1>3. NoEndYet'
  BY <1>1, RecsNext DEF NoEndYet
<1> QED BY <1>2, <1>3 DEF SeenSame

-----------------------------------------------------------------------------
(* What the tables hold stays there *)

TablesKeep ==
  /\ errCnt \in Nat /\ errCnt' \in Nat /\ errCnt <= errCnt'
  /\ ident # NoOrder => ident' = ident
  /\ \A s \in Syms : /\ Known(s) => Known(s)'
                     /\ sym[s].low \in {"NULL", "COMM"} => sym'[s].low = sym[s].low

LEMMA RecordedKept ==
  ASSUME TablesKeep, NEW r, Recorded(r)
  PROVE  Recorded(r)'
<1>1. r.t = "IDENT" => ident' = r.order /\ ident' # NoOrder
  BY DEF TablesKeep, Recorded
<1>2. r.t = "RELOC" /\ r.kind \in {"RNAME", "RRNAME"} => r.name \in Syms /\ Known(r.name)'
  BY DEF TablesKeep, Recorded
<1>3. r.t = "SYM" /\ r.low = "NULL" /\ r.glob =>
        r.name \in Syms /\ (sym'[r.name].low = "NULL" \/ errCnt' # 0)
  BY DEF TablesKeep, Recorded
<1>4. r.t = "SYM" /\ r.low = "COMM" => r.name \in Syms /\ sym'[r.name].low \in {"NULL", "COMM"}
  BY DEF TablesKeep, Recorded
<1> QED BY <1>1, <1>2, <1>3, <1>4 DEF Recorded

LEMMA RecordsKept ==
  ASSUME SeenSame, TablesKeep, AllRecorded, NoClash
  PROVE  AllRecorded' /\ NoClash'
<1>1. AllRecorded'
  <2> SUFFICES ASSUME NEW k \in Nat, NEW j \in Nat, Seen(0, k, j)'
               PROVE  Recorded(RecAt(0, k, j))'
    BY DEF AllRecorded
  <2>1. PICK r : r = RecAt(0, k, j)
    OBVIOUS
  <2>2. Recorded(r) /\ RecAt(0, k, j)' = r
    BY <2>1 DEF SeenSame, AllRecorded
  <2>3. Recorded(r)'
    BY <2>2, RecordedKept
  <2> QED BY <2>2, <2>3 DEF Recorded
<1>2. NoClash'
  <2> SUFFICES ASSUME errCnt' = 0, NEW j \in Nat, NEW q \in Nat, NEW k \in Nat, NEW m \in Nat,
                      Seen(0, j, q)', Seen(0, k, m)', j # k
               PROVE  ~Clash(RecAt(0, j, q), RecAt(0, k, m))'
    BY DEF NoClash
  <2>1. PICK x, y : x = RecAt(0, j, q) /\ y = RecAt(0, k, m)
    OBVIOUS
  <2>2. /\ RecAt(0, j, q)' = x /\ RecAt(0, k, m)' = y /\ errCnt = 0
        /\ Seen(0, j, q) /\ Seen(0, k, m)
    BY <2>1 DEF SeenSame, TablesKeep
  <2>3. ~Clash(x, y)
    BY <2>1, <2>2 DEF NoClash
  <2> QED BY <2>2, <2>3 DEF Clash
<1> QED BY <1>1, <1>2

\* One more record of pass 0: what it says is recorded, and if it contradicts
\* one that was recorded before it is counted.
Records(r) ==
  /\ Recorded(r)'
  /\ errCnt' = 0 => \A y : Recorded(y) => ~Clash(r, y) /\ ~Clash(y, r)

LEMMA GoodRead ==
  ASSUME TypeOK, Positions, OInv, GInv, pc = "rec", pass = 0, recIdx <= Len(CurMod.recs),
         Rec.t # "END", NextRec, UNCHANGED <<job, loaded, entry, fixes>>,
         TablesKeep, NEW r, r = Rec, Records(r)
  PROVE  GInv'
<1>1. /\ NoEndYet /\ AllRecorded /\ NoClash /\ OneStart /\ FixesRight
      /\ pc' = "rec" /\ pass' = 0
  BY DEF GInv, Lost, NextRec
<1>2. SeenMore /\ NoEndYet'
  BY <1>1, Reads
<1>3. AllRecorded'
  <2> SUFFICES ASSUME NEW k \in Nat, NEW j \in Nat, Seen(0, k, j)'
               PROVE  Recorded(RecAt(0, k, j))'
    BY DEF AllRecorded
  <2>1. PICK y : y = RecAt(0, k, j)
    OBVIOUS
  <2>2. (Recorded(y) \/ y = r) /\ RecAt(0, k, j)' = y
    BY <1>1, <1>2, <2>1 DEF SeenMore, AllRecorded
  <2>3. Recorded(y)'
    BY <2>2, RecordedKept DEF Records
  <2> QED BY <2>2, <2>3 DEF Recorded
<1>4. NoClash'
  <2> SUFFICES ASSUME errCnt' = 0, NEW j \in Nat, NEW q \in Nat, NEW k \in Nat, NEW m \in Nat,
                      Seen(0, j, q)', Seen(0, k, m)', j # k
               PROVE  ~Clash(RecAt(0, j, q), RecAt(0, k, m))'
    BY DEF NoClash
  <2>1. PICK x, y : x = RecAt(0, j, q) /\ y = RecAt(0, k, m)
    OBVIOUS
  <2>2. RecAt(0, j, q)' = x /\ RecAt(0, k, m)' = y /\ errCnt = 0
    BY <1>2, <2>1 DEF SeenMore, TablesKeep
  <2>3. \/ Seen(0, j, q) /\ Seen(0, k, m)
        \/ Seen(0, j, q) /\ y = r
        \/ Seen(0, k, m) /\ x = r
    BY <1>2, <2>1 DEF SeenMore
  <2>4. ~Clash(x, y)
    BY <1>1, <2>1, <2>2, <2>3 DEF NoClash, AllRecorded, Records
  <2> QED BY <2>2, <2>4 DEF Clash
<1>5. OneStart'
  BY <1>1, <1>2 DEF OneStart, SeenMore, TablesKeep
<1>6. NoneOpen' /\ FixesRight' /\ NoErrorAtEnd'
  BY <1>1 DEF NoneOpen, FixesRight, NoErrorAtEnd
<1> QED BY <1>2, <1>3, <1>4, <1>5, <1>6 DEF GInv

\* One more record of pass 1
LEMMA GoodReread ==
  ASSUME TypeOK, Positions, OInv, GInv, pc = "rec", pass = 1, recIdx <= Len(CurMod.recs),
         Rec.t # "END", NextRec, UNCHANGED <<job, loaded, sym, ident>>,
         errCnt' \in Nat, errCnt <= errCnt', OneStart', FixesRight'
  PROVE  GInv'
<1>1. /\ NoEndYet /\ AllRecorded /\ NoClash /\ OneStart /\ NoneOpen
      /\ pc' = "rec" /\ pass' = 1 /\ errCnt \in Nat
  BY DEF GInv, Lost, NextRec, TypeOK
<1>2. SeenMore /\ NoEndYet'
  BY <1>1, Reads
<1>3. TablesKeep
  BY <1>1 DEF TablesKeep, Known
<1>4. AllRecorded' /\ NoClash'
  <2>1. \A k, j \in Nat : Seen(0, k, j)' => Seen(0, k, j) /\ RecAt(0, k, j)' = RecAt(0, k, j)
    BY <1>2 DEF SeenMore
  <2>2. AllRecorded'
    <3> SUFFICES ASSUME NEW k \in Nat, NEW j \in Nat, Seen(0, k, j)'
                 PROVE  Recorded(RecAt(0, k, j))'
      BY DEF AllRecorded
    <3>1. PICK r : r = RecAt(0, k, j)
      OBVIOUS
    <3>2. Recorded(r) /\ RecAt(0, k, j)' = r
      BY <1>1, <2>1, <3>1 DEF AllRecorded
    <3>3. Recorded(r)'
      BY <1>3, <3>2, RecordedKept
    <3> QED BY <3>2, <3>3 DEF Recorded
  <2>3. NoClash'
    BY <1>1, <1>3, <2>1 DEF NoClash, TablesKeep, Clash
  <2> QED BY <2>2, <2>3
<1>5. NoneOpen' /\ NoErrorAtEnd'
  BY <1>1, <1>3 DEF NoneOpen, Commons, Externs, Extern, TablesKeep, NoErrorAtEnd
<1> QED BY <1>2, <1>4, <1>5 DEF GInv

\* a step between two modules, or in finPass1
LEMMA GoodBetween ==
  ASSUME GInv, pc \notin Lost, SeenSame, NoEndYet', TablesKeep, pass' = pass,
         pc' # "done", UNCHANGED <<job, entry, fixes>>,
         pass \in {0, 1}, pass = 1 => UNCHANGED <<sym, errCnt>>
  PROVE  GInv'
<1>1. /\ AllRecorded /\ NoClash /\ OneStart /\ NoneOpen /\ FixesRight
  BY DEF GInv
<1>2. AllRecorded' /\ NoClash'
  BY <1>1, RecordsKept
<1>3. OneStart'
  BY <1>1 DEF OneStart, SeenSame, TablesKeep
<1>4. NoneOpen'
  BY <1>1 DEF NoneOpen, Commons, Externs, Extern
<1>5. FixesRight'
  <2>1. CASE pass = 0
    BY <1>1, <2>1 DEF FixesRight
  <2>2. CASE pass = 1
    BY <1>1, <2>2 DEF FixesRight, Known, Signed
  <2> QED BY <2>1, <2>2
<1> QED BY <1>2, <1>3, <1>4, <1>5 DEF GInv, NoErrorAtEnd

-----------------------------------------------------------------------------
(* The record handlers of pass 0 *)

LEMMA FatalGood == Fatal => GInv'
BY DEF Fatal, GInv, Lost

\* a handler that enters no symbol, of a record that says nothing of one
LEMMA GoodQuiet ==
  ASSUME IInv, OInv, GInv, pc = "rec", pass = 0, recIdx <= Len(CurMod.recs), NextRec,
         UNCHANGED <<job, loaded, entry, fixes, sym, ident>>, errCnt' \in Nat, errCnt <= errCnt',
         \/ Rec.t \in {"PSECT", "XPSECT", "TEXT", "START"}
         \/ Rec.t = "RELOC" /\ Rec.kind \notin {"RNAME", "RRNAME"}
         \/ Rec.t = "SYM" /\ Rec.low = "NULL" /\ ~Rec.glob
  PROVE  GInv'
<1>1. TablesKeep
  BY DEF TablesKeep, Known, IInv, TypeOK
<1>2. PICK r : r = Rec
  OBVIOUS
<1>3. Records(r)
  BY <1>2 DEF Records, Recorded, Clash
<1> QED BY <1>1, <1>2, <1>3, GoodRead DEF IInv

LEMMA IdentRecGood ==
  ASSUME IInv, OInv, GInv, IdentRec PROVE GInv'
<1>1. /\ pc = "rec" /\ pass = 0 /\ recIdx <= Len(CurMod.recs) /\ Rec.t = "IDENT"
      /\ Rec \in Record /\ errCnt \in Nat
  BY ReadingRec DEF IdentRec, Reading, IInv, TypeOK
<1>2. CASE ident \notin {NoOrder, Rec.order}
  BY <1>2, FatalGood DEF IdentRec
<1>3. CASE ident \in {NoOrder, Rec.order}
  <2>1. /\ ident' = Rec.order /\ NextRec
        /\ UNCHANGED <<job, loaded, entry, fixes, sym, errCnt>>
    BY <1>3 DEF IdentRec, tabVars, outVars, histVars
  <2>2. ident' # NoOrder
    BY <1>1, <2>1, RecordFields, LinkAssumption
  <2>3. TablesKeep
    BY <1>1, <1>3, <2>1 DEF TablesKeep, Known
  <2>4. PICK r : r = Rec
    OBVIOUS
  <2>5. Records(r)
    BY <1>1, <2>1, <2>2, <2>4 DEF Records, Recorded, Clash
  <2> QED BY <1>1, <2>1, <2>3, <2>4, <2>5, GoodRead DEF IInv
<1> QED BY <1>2, <1>3

LEMMA MentionGood ==
  ASSUME IInv, OInv, GInv, pc = "rec", pass = 0, recIdx <= Len(CurMod.recs),
         NEW s \in Syms, s = Rec.name, Mention(s),
         \/ Rec.t = "RELOC"
         \/ Rec.t = "SYM" /\ Rec.low = "EXTERN"
  PROVE  GInv'
<1>1. sym \in [Syms -> SymEntry] /\ errCnt \in Nat
  BY DEF IInv, TypeOK
<1>2. CASE ~Room(0, NewSym(s))
  BY <1>2, FatalGood DEF Mention
<1>3. CASE Room(0, NewSym(s))
  <2>1. /\ sym' = IF Known(s) THEN sym ELSE [sym EXCEPT ![s] = Unresolved]
        /\ NextRec /\ UNCHANGED <<job, loaded, entry, fixes, ident, errCnt>>
    BY <1>3 DEF Mention, outVars, histVars
  <2>2. /\ \A x \in Syms : sym'[x].low = IF x = s /\ ~Known(s) THEN "EXTERN" ELSE sym[x].low
    BY <1>1, <2>1 DEF Unresolved
  <2>3. TablesKeep /\ Known(s)'
    BY <1>1, <2>1, <2>2 DEF TablesKeep, Known
  <2>4. PICK r : r = Rec
    OBVIOUS
  <2>5. Records(r)
    BY <2>3, <2>4 DEF Records, Recorded, Clash
  <2> QED BY <2>1, <2>3, <2>4, <2>5, GoodRead DEF IInv
<1> QED BY <1>2, <1>3

\* What defineSym leaves of a symbol that is mentioned, defined or common
LEMMA DefineKeeps ==
  ASSUME TypeOK, NEW s \in Syms, NEW low \in {"NULL", "COMM"}, NEW val, NEW psect, NEW off,
         DefineSym(s, low, val, psect, off)
  PROVE  /\ \A x \in Syms : sym'[x].low = IF x = s /\ sym[s].low \in {"none", "EXTERN"}
                                          THEN low ELSE sym[x].low
         /\ errCnt \in Nat /\ errCnt' \in Nat /\ errCnt <= errCnt'
         /\ errCnt' = 0 => errCnt = 0 /\ ~Redefined(s, low)
<1>1. sym \in [Syms -> SymEntry] /\ errCnt \in Nat
  BY DEF TypeOK
<1>2. Defined(s, low, val, psect, off).low = IF sym[s].low \in {"none", "EXTERN"}
                                              THEN low ELSE sym[s].low
  <2>1. sym[s] \in SymEntry
    BY <1>1
  <2> QED BY <2>1 DEF Defined, SymEntry
<1>3. \A x \in Syms : sym'[x].low = IF x = s /\ sym[s].low \in {"none", "EXTERN"}
                                    THEN low ELSE sym[x].low
  BY <1>1, <1>2 DEF DefineSym
<1> QED BY <1>1, <1>3 DEF DefineSym

LEMMA DefineGood ==
  ASSUME IInv, OInv, GInv, pc = "rec", pass = 0, recIdx <= Len(CurMod.recs), NextRec,
         UNCHANGED <<job, loaded, entry, fixes, ident>>,
         NEW s \in Syms, NEW low \in {"NULL", "COMM"}, NEW val, NEW psect, NEW off,
         DefineSym(s, low, val, psect, off),
         Rec.t = "SYM", Rec.low = low, Rec.name = s, low = "NULL" => Rec.glob
  PROVE  GInv'
<1>1. /\ \A x \in Syms : sym'[x].low = IF x = s /\ sym[s].low \in {"none", "EXTERN"}
                                       THEN low ELSE sym[x].low
      /\ errCnt \in Nat /\ errCnt' \in Nat /\ errCnt <= errCnt'
      /\ errCnt' = 0 => errCnt = 0 /\ ~Redefined(s, low)
  BY DefineKeeps DEF IInv
<1>2. sym[s].low \in {"none", "EXTERN", "NULL", "COMM"}
  BY DEF IInv, TypeOK, SymEntry
<1>3. TablesKeep
  BY <1>1, <1>2 DEF TablesKeep, Known
<1>4. PICK r : r = Rec
  OBVIOUS
<1>5. Recorded(r)'
  BY <1>1, <1>2, <1>4 DEF Recorded, Redefined
<1>6. errCnt' = 0 => \A y : Recorded(y) => ~Clash(r, y) /\ ~Clash(y, r)
  BY <1>1, <1>4 DEF Recorded, Clash, Redefined
<1> QED BY <1>3, <1>4, <1>5, <1>6, GoodRead DEF IInv, Records

LEMMA Pass1RecGood ==
  ASSUME IInv, IInv', OInv, GInv, Pass1Rec PROVE GInv'
<1> USE DEF Pass1Rec, Reading
<1>1. /\ pc = "rec" /\ pass = 0 /\ recIdx <= Len(CurMod.recs) /\ Rec \in Record
      /\ errCnt \in Nat /\ errCnt' \in Nat
  <2>1. pc = "rec" /\ pass = 0 /\ recIdx <= Len(CurMod.recs)
    BY DEF IdentRec, PsectRec, XpsectRec, TextRecPass1, RelocRecPass1, SymExternPass1,
           SymCommPass1, SymNullPass1
  <2> QED BY <2>1, ReadingRec DEF IInv, TypeOK
<1>2. CASE PsectRec
  <2>1. CASE ~Room(Missing(Rec.psect, "PSECT"), 0)
    BY <1>2, <2>1, FatalGood DEF PsectRec
  <2>2. CASE Room(Missing(Rec.psect, "PSECT"), 0)
    <3>1. /\ NextRec /\ Rec.t = "PSECT" /\ errCnt <= errCnt'
          /\ UNCHANGED <<job, loaded, entry, fixes, sym, ident>>
      BY <1>1, <1>2, <2>2 DEF PsectRec, outVars, histVars
    <3> QED BY <1>1, <3>1, GoodQuiet
  <2> QED BY <2>1, <2>2
<1>3. CASE XpsectRec
  <2>1. CASE Fatal
    BY <2>1, FatalGood
  <2>2. CASE ~Fatal
    <3>1. /\ NextRec /\ Rec.t = "XPSECT"
          /\ UNCHANGED <<job, loaded, entry, fixes, sym, ident>>
      BY <1>3, <2>2 DEF XpsectRec, outVars, histVars
    <3>2. errCnt' = errCnt + 1 \/ errCnt' = errCnt
      BY <1>3, <2>2, Zenon DEF XpsectRec
    <3>3. errCnt <= errCnt'
      BY <1>1, <3>2
    <3> QED BY <1>1, <3>1, <3>3, GoodQuiet
  <2> QED BY <2>1, <2>2
<1>4. CASE TextRecPass1
  <2>1. CASE ~Room(Missing(Rec.psect, "PSECT"), 0)
    BY <1>4, <2>1, FatalGood DEF TextRecPass1
  <2>2. CASE Room(Missing(Rec.psect, "PSECT"), 0)
    <3>1. /\ NextRec /\ Rec.t = "TEXT" /\ errCnt <= errCnt'
          /\ UNCHANGED <<job, loaded, entry, fixes, sym, ident>>
      BY <1>1, <1>4, <2>2 DEF TextRecPass1, outVars, histVars
    <3> QED BY <1>1, <3>1, GoodQuiet
  <2> QED BY <2>1, <2>2
<1>5. CASE RelocRecPass1
  <2>1. CASE Rec.kind \in {"RNAME", "RRNAME"}
    <3>1. Mention(Rec.name) /\ Rec.t = "RELOC" /\ Rec.name \in Syms
      BY <1>1, <1>5, <2>1, RecordFields DEF RelocRecPass1
    <3>2. PICK s \in Syms : s = Rec.name
      BY <3>1
    <3> QED BY <1>1, <3>1, <3>2, MentionGood
  <2>2. CASE Rec.kind \notin {"RNAME", "RRNAME"}
    <3>1. /\ NextRec /\ Rec.t = "RELOC" /\ errCnt <= errCnt'
          /\ UNCHANGED <<job, loaded, entry, fixes, sym, ident>>
      BY <1>1, <1>5, <2>2 DEF RelocRecPass1, tabVars, outVars, histVars
    <3> QED BY <1>1, <2>2, <3>1, GoodQuiet
  <2> QED BY <2>1, <2>2
<1>6. CASE SymExternPass1
  <2>1. Mention(Rec.name) /\ Rec.t = "SYM" /\ Rec.low = "EXTERN" /\ Rec.name \in Syms
    BY <1>1, <1>6, RecordFields DEF SymExternPass1
  <2>2. PICK s \in Syms : s = Rec.name
    BY <2>1
  <2> QED BY <1>1, <2>1, <2>2, MentionGood
<1>7. CASE SymCommPass1
  <2>1. CASE ~Room(0, NewSym(Rec.name))
    BY <1>7, <2>1, FatalGood DEF SymCommPass1
  <2>2. CASE Room(0, NewSym(Rec.name))
    <3>1. /\ NextRec /\ Rec.t = "SYM" /\ Rec.low = "COMM" /\ Rec.name \in Syms
          /\ DefineSym(Rec.name, "COMM", Rec.val, 0, 0)
          /\ UNCHANGED <<job, loaded, entry, fixes, ident>>
      BY <1>1, <1>7, <2>2, RecordFields DEF SymCommPass1, outVars, histVars
    <3>2. PICK s \in Syms, val \in {Rec.val} : s = Rec.name
      BY <3>1
    <3>3. DefineSym(s, "COMM", val, 0, 0)
      BY <3>1, <3>2
    <3> QED BY <1>1, <3>1, <3>2, <3>3, DefineGood
  <2> QED BY <2>1, <2>2
<1>8. CASE SymNullPass1
  <2> DEFINE i == SlotAfter(Rec.psect, "PSECT")
             new == Mentioned(Rec.psect)
             off == IF new[i].ovr THEN 0 ELSE new[i].blk
  <2>1. Rec.t = "SYM" /\ Rec.low = "NULL" /\ Rec.name \in Syms
    BY <1>1, <1>8, RecordFields DEF SymNullPass1
  <2>2. CASE Fatal
    BY <2>2, FatalGood
  <2>3. CASE ~Fatal
    <3>1. /\ NextRec /\ UNCHANGED <<job, loaded, entry, fixes, ident>>
          /\ IF Rec.glob THEN DefineSym(Rec.name, "NULL", Rec.val, i, off)
             ELSE UNCHANGED <<sym, cntUnresolved, errCnt>>
      BY <1>8, <2>3 DEF SymNullPass1, outVars, histVars
    <3>2. CASE Rec.glob
      <4>1. PICK s \in Syms, val \in {Rec.val}, psect \in {i}, base \in {off} : s = Rec.name
        BY <2>1
      <4> HIDE DEF i, off
      <4>2. DefineSym(s, "NULL", val, psect, base)
        BY <3>1, <3>2, <4>1
      <4> QED BY <1>1, <2>1, <3>1, <3>2, <4>1, <4>2, DefineGood
    <3>3. CASE ~Rec.glob
      BY <1>1, <2>1, <3>1, <3>3, GoodQuiet
    <3> QED BY <3>2, <3>3
  <2> QED BY <2>2, <2>3
<1> QED BY <1>2, <1>3, <1>4, <1>5, <1>6, <1>7, <1>8, IdentRecGood

-----------------------------------------------------------------------------
(* The record handlers of pass 1 *)

\* A record that pass 1 reads is one that pass 0 has read.
LEMMA ReadBefore ==
  ASSUME IInv, OInv, GInv, pc = "rec", pass = 1, recIdx <= Len(CurMod.recs), Rec.t # "END"
  PROVE  Recorded(Rec)
<1>1. /\ Len(loaded[1]) \in Nat /\ Len(loaded[1]) >= 1
      /\ ModOf(loaded[1][Len(loaded[1])]) = CurMod
      /\ RecAt(1, Len(loaded[1]), recIdx) = Rec
      /\ Len(CurMod.recs) \in Nat /\ recIdx \in Nat \ {0}
  BY HereSeen DEF IInv, TypeOK
<1>2. PICK k \in Nat : k = Len(loaded[1])
  BY <1>1
<1>3. k \in 1..Len(loaded[0]) /\ loaded[1][k] = loaded[0][k]
  <2>1. Len(loaded[0]) \in Nat
    BY HistoryType DEF OInv
  <2> QED BY <1>1, <1>2, <2>1, OrderImplies DEF IInv, SameModules, Current
<1>4. recIdx \in BodyOf(loaded[0][k])
  <2>1. \A m \in 1..recIdx : CurMod.recs[m].t # "END"
    BY <1>1 DEF GInv, Lost, NoEndYet, Rec
  <2> QED BY <1>1, <1>2, <1>3, <2>1 DEF BodyOf
<1>5. Seen(0, k, recIdx) /\ RecAt(0, k, recIdx) = Rec
  BY <1>1, <1>2, <1>3, <1>4 DEF Seen, RecAt
<1>6. AllRecorded /\ recIdx \in Nat
  BY <1>1 DEF GInv, Lost
<1> QED BY <1>2, <1>5, <1>6 DEF AllRecorded

\* a handler that resolves no reference by name, and is not of a START record
LEMMA GoodOther ==
  ASSUME IInv, OInv, GInv, pc = "rec", pass = 1, recIdx <= Len(CurMod.recs), NextRec,
         Rec.t \notin {"END", "START"}, UNCHANGED <<job, loaded, sym, ident, entry>>,
         errCnt' \in Nat, errCnt <= errCnt', FixesRight'
  PROVE  GInv'
<1>1. OneStart'
  <2>1. NoEndYet /\ OneStart /\ errCnt \in Nat
    BY DEF GInv, Lost, IInv, TypeOK
  <2>2. SeenMore
    BY <2>1, Reads DEF IInv
  <2>3. \A k, j \in Nat : Seen(1, k, j)' /\ RecAt(1, k, j)'.t = "START" =>
          Seen(1, k, j) /\ RecAt(1, k, j).t = "START"
    BY <2>2 DEF SeenMore
  <2> QED BY <2>1, <2>3 DEF OneStart
<1> QED BY <1>1, GoodReread DEF IInv

\* arithmetic modulo m
LEMMA DivMod ==
  ASSUME NEW m \in Nat \ {0}, NEW x \in Int
  PROVE  x \div m \in Int /\ x % m \in 0..(m - 1) /\ x = (x \div m) * m + (x % m)
OBVIOUS

LEMMA MultiplesApart ==
  ASSUME NEW m \in Nat \ {0}, NEW d \in Int, d # 0
  PROVE  d * m >= m \/ d * m <= -m
<1>1. CASE d >= 1
  <2>1. PICK k \in Nat : d = k + 1
    BY <1>1
  <2>2. d * m = k * m + m /\ k * m >= 0
    BY <2>1
  <2> QED BY <2>2
<1>2. CASE d <= -1
  <2>1. PICK k \in Nat : d = -k - 1
    BY <1>2
  <2>2. d * m = -(k * m) - m /\ k * m >= 0
    BY <2>1
  <2> QED BY <2>2
<1> QED BY <1>1, <1>2

LEMMA ModUnique ==
  ASSUME NEW m \in Nat \ {0}, NEW q \in Int, NEW e \in 0..(m - 1)
  PROVE  (q * m + e) % m = e
<1>1. PICK x \in Int : x = q * m + e
  OBVIOUS
<1>2. x \div m \in Int /\ x % m \in 0..(m - 1) /\ x = (x \div m) * m + (x % m)
  BY DivMod
<1>3. PICK p \in Int, r \in 0..(m - 1) : p = x \div m /\ r = x % m
  BY <1>2
<1>4. x = p * m + r
  BY <1>2, <1>3
<1>5. (q - p) * m = q * m - p * m
  OBVIOUS
<1>6. (q - p) * m = r - e
  BY <1>1, <1>4, <1>5
<1>7. q - p = 0
  BY <1>6, MultiplesApart
<1>8. q = p
  BY <1>7
<1>9. r = e
  BY <1>1, <1>4, <1>8
<1> QED BY <1>1, <1>3, <1>9

\* A field that fixup does not complain of holds the sum, also where its addend is negative.
LEMMA FieldFits ==
  ASSUME NEW add \in Int, NEW d \in Int, FixupErrors(add, <<d>>) = 0
  PROVE  Resolved(add, <<d>>) = Signed(add) + d
<1>1. Field \in Nat \ {0} /\ Field = FieldMax + 1 /\ FieldMax \in Nat
  BY LinkAssumption DEF Field
<1>2. PICK m \in Nat \ {0} : m = Field
  BY <1>1
<1>3. PICK h \in Int : h = m \div 2
  BY <1>2
<1>4. PICK t \in 0..(m - 1) : t = (add + h) % m
  OBVIOUS
<1>5. PICK s \in Int : s = t - h
  OBVIOUS
<1>6. Signed(add) = s
  BY <1>2, <1>3, <1>4, <1>5 DEF Signed
<1>7. FixupErrors(add, <<d>>) = OverflowErr(s + d) + 0
  BY <1>6 DEF FixupErrors
<1>8. s + d \in 0..(m - 1)
  BY <1>1, <1>2, <1>7 DEF OverflowErr, Overflow
<1>9. Resolved(add, <<d>>) = (add + d) % m
  <2>1. Resolved(add, <<d>>) = (add + d + 0) % m
    BY <1>2 DEF Resolved
  <2>2. add + d + 0 = add + d
    OBVIOUS
  <2> QED BY <2>1, <2>2
<1>10. (add + d) % m = s + d
  <2>1. PICK x \in Int : x = add + h
    OBVIOUS
  <2>2. x = (x \div m) * m + (x % m) /\ x \div m \in Int
    BY DivMod
  <2>3. PICK q \in Int : q = x \div m
    BY <2>2
  <2>4. PICK e \in 0..(m - 1) : e = s + d
    BY <1>8
  <2>5. add + d = q * m + e
    BY <1>4, <1>5, <2>1, <2>2, <2>3, <2>4
  <2>6. (q * m + e) % m = e
    BY ModUnique
  <2> QED BY <2>4, <2>5, <2>6
<1> QED BY <1>6, <1>9, <1>10

LEMMA RelocRecPass2Good ==
  ASSUME IInv, IInv', OInv, GInv, RelocRecPass2 PROVE GInv'
<1>1. /\ pc = "rec" /\ pass = 1 /\ recIdx <= Len(CurMod.recs) /\ Rec.t = "RELOC"
      /\ Rec \in Record /\ errCnt \in Nat /\ errCnt' \in Nat
  BY ReadingRec DEF RelocRecPass2, Reading, IInv, TypeOK
<1>2. CASE pc' \in Lost
  BY <1>2 DEF GInv
<1>3. CASE pc' \notin Lost
  <2>1. /\ NextRec /\ UNCHANGED <<job, loaded, sym, ident, entry>>
        /\ fixes' = fixes \cup {[mod |-> <<fileIdx, modIdx>>, kind |-> Rec.kind,
                                 name |-> Rec.name, at |-> text.base + Rec.off,
                                 add |-> Rec.add, field |-> Resolved(Rec.add, Deltas)]}
        /\ errCnt' = errCnt + FixupErrors(Rec.add, Deltas)
    BY <1>3 DEF RelocRecPass2, Fatal, Lost, tabVars, histVars
  <2>2. PICK n \in Nat : n = FixupErrors(Rec.add, Deltas)
    BY FixupErrorsType
  <2>3. errCnt <= errCnt' /\ (errCnt' = 0 => n = 0 /\ errCnt = 0)
    BY <1>1, <2>1, <2>2
  <2>4. ASSUME n = 0, ~job.R, Rec.kind = "RNAME"
        PROVE  /\ Rec.name \in Syms /\ Known(Rec.name)
               /\ Resolved(Rec.add, Deltas) = sym[Rec.name].value + Signed(Rec.add)
    <3>1. Rec.name \in Syms /\ Rec.add \in Int
      BY <1>1, <2>4, RecordFields
    <3>2. Known(Rec.name)
      BY <1>1, <2>4, ReadBefore DEF Recorded
    <3>3. Deltas = <<sym[Rec.name].value>>
      BY <2>4 DEF Deltas, NamesSymbol
    <3>4. PICK add \in Int, d \in Int : add = Rec.add /\ d = sym[Rec.name].value
      BY <3>1, Typed DEF IInv, SymEntry
    <3>5. Resolved(add, <<d>>) = Signed(add) + d
      BY <2>2, <2>4, <3>3, <3>4, FieldFits
    <3>6. Signed(add) \in Int
      <4>1. Field \in Nat \ {0}
        BY LinkAssumption DEF Field
      <4> QED BY <4>1 DEF Signed
    <3> QED BY <3>1, <3>2, <3>3, <3>4, <3>5, <3>6
  <2>5. FixesRight'
    <3>1. FixesRight /\ pass' = 1
      BY <1>1, <2>1 DEF GInv, Lost, NextRec
    <3> SUFFICES ASSUME NEW x \in fixes', errCnt' = 0, ~job.R, x.kind = "RNAME"
                 PROVE  /\ x.name \in Syms /\ Known(x.name)
                        /\ x.field = sym[x.name].value + Signed(x.add)
      BY <2>1, <3>1 DEF FixesRight, Known, Signed
    <3>2. CASE x \in fixes
      BY <2>3, <3>1, <3>2 DEF FixesRight
    <3>3. CASE x \notin fixes
      <4>1. /\ x.kind = Rec.kind /\ x.name = Rec.name /\ x.add = Rec.add
            /\ x.field = Resolved(Rec.add, Deltas)
        BY <2>1, <3>3
      <4> QED BY <2>3, <2>4, <4>1
    <3> QED BY <3>2, <3>3
  <2> QED BY <1>1, <2>1, <2>3, <2>5, GoodOther
<1> QED BY <1>2, <1>3

LEMMA StartRecPass2Good ==
  ASSUME IInv, IInv', OInv, GInv, StartRecPass2 PROVE GInv'
<1>1. /\ pc = "rec" /\ pass = 1 /\ recIdx <= Len(CurMod.recs) /\ Rec.t = "START"
      /\ errCnt \in Nat /\ errCnt' \in Nat /\ NextRec
      /\ entry \in Seq(Nat) /\ entry' \in Seq(Nat)
      /\ UNCHANGED <<job, loaded, sym, ident, fixes>>
      /\ errCnt' = IF entry # <<>> THEN errCnt + 1 ELSE errCnt
      /\ \E n : entry' = Append(entry, n)
  BY DEF StartRecPass2, Reading, IInv, TypeOK, tabVars, histVars
<1>2. NoEndYet /\ OneStart /\ FixesRight
  BY <1>1 DEF GInv, Lost
<1>3. SeenMore
  BY <1>1, <1>2, Reads DEF IInv
<1>4. OneStart'
  <2> SUFFICES ASSUME errCnt' = 0
               PROVE  /\ entry' = <<>> \/ Len(entry') = 1
                      /\ \A k, j \in Nat : Seen(1, k, j)' /\ RecAt(1, k, j)'.t = "START" => entry' # <<>>
                      /\ \A j, q, k, r \in Nat : Seen(1, j, q)' /\ Seen(1, k, r)' /\ j # k =>
                           ~(RecAt(1, j, q)'.t = "START" /\ RecAt(1, k, r)'.t = "START")
    BY DEF OneStart
  <2>1. entry = <<>> /\ errCnt = 0
    BY <1>1
  <2>2. PICK n : entry' = Append(<<>>, n)
    BY <1>1, <2>1
  <2>3. Len(entry') = 1 /\ entry' # <<>>
    BY <2>2
  <2>4. \A k, j \in Nat : Seen(1, k, j) => RecAt(1, k, j).t # "START"
    BY <1>2, <2>1 DEF OneStart
  <2> QED BY <1>3, <2>3, <2>4 DEF SeenMore
<1>5. FixesRight'
  BY <1>1, <1>2 DEF FixesRight, Known, NextRec, Signed
<1> QED BY <1>1, <1>4, <1>5, GoodReread DEF IInv

LEMMA Pass2RecGood ==
  ASSUME IInv, IInv', OInv, GInv, Pass2Rec PROVE GInv'
<1>1. FixesRight /\ errCnt \in Nat
  BY DEF GInv, Lost, Pass2Rec, TextRecPass2, RelocRecPass2, SymRecPass2, StartRecPass2, Reading,
         IInv, TypeOK
<1>2. CASE TextRecPass2
  <2>1. /\ pc = "rec" /\ pass = 1 /\ recIdx <= Len(CurMod.recs) /\ Rec.t = "TEXT" /\ NextRec
        /\ UNCHANGED <<job, loaded, sym, ident, entry, fixes, errCnt>>
    BY <1>2 DEF TextRecPass2, Reading, histVars
  <2>2. FixesRight'
    BY <1>1, <2>1 DEF FixesRight, Known, NextRec, Signed
  <2> QED BY <1>1, <2>1, <2>2, GoodOther
<1>3. CASE SymRecPass2
  <2> DEFINE i == Slot(Rec.psect, "PSECT")
             new == [mod |-> <<fileIdx, modIdx>>, kind |-> "LOCAL", name |-> Rec.psect, at |-> 0,
                     add |-> Rec.val, field |-> Rec.val + LocalBase(i)]
  <2>1. /\ pc = "rec" /\ pass = 1 /\ recIdx <= Len(CurMod.recs) /\ Rec.t = "SYM" /\ NextRec
        /\ UNCHANGED <<job, loaded, sym, ident, entry, errCnt>>
        /\ fixes' = fixes \cup {new} /\ new.kind = "LOCAL"
    BY <1>3 DEF SymRecPass2, Reading, tabVars, histVars
  <2> HIDE DEF new
  <2>2. FixesRight'
    BY <1>1, <2>1 DEF FixesRight, Known, NextRec, Signed
  <2> QED BY <1>1, <2>1, <2>2, GoodOther
<1> QED BY <1>2, <1>3, RelocRecPass2Good, StartRecPass2Good DEF Pass2Rec

LEMMA SkipRecGood ==
  ASSUME IInv, OInv, GInv, SkipRec PROVE GInv'
<1>1. /\ pc = "rec" /\ pass \in {0, 1} /\ recIdx <= Len(CurMod.recs) /\ NextRec
      /\ errCnt \in Nat /\ UNCHANGED <<job, loaded, sym, ident, entry, fixes, errCnt>>
      /\ IF pass = 0 THEN Rec.t = "START" ELSE Rec.t \notin {"START", "END"}
  BY DEF SkipRec, Reading, IInv, TypeOK, tabVars, outVars, histVars
<1>2. CASE pass = 0
  BY <1>1, <1>2, GoodQuiet
<1>3. CASE pass = 1
  <2>1. FixesRight'
    BY <1>1, <1>3 DEF GInv, Lost, FixesRight, Known, NextRec, Signed
  <2> QED BY <1>1, <1>3, <2>1, GoodOther
<1> QED BY <1>1, <1>2, <1>3

-----------------------------------------------------------------------------
(* Files, libraries and modules *)

LEMMA NothingSaid ==
  ASSUME TypeOK, UNCHANGED <<sym, ident, errCnt>>
  PROVE  TablesKeep
BY DEF TypeOK, TablesKeep, Known

LEMMA StartsGood ==
  ASSUME IInv, IInv', OInv, GInv, Starts, recIdx' = 1,
         UNCHANGED <<sym, ident, errCnt, entry, fixes>>
  PROVE  GInv'
<1>1. SeenSame /\ NoEndYet'
  BY SeenAtStart DEF IInv
<1>2. TablesKeep
  BY NothingSaid DEF IInv
<1> QED BY <1>1, <1>2, GoodBetween DEF Starts, Lost, IInv, TypeOK

LEMMA BetweenGood ==
  ASSUME IInv, OInv, GInv, pc \in {"open", "scan"}, pc' \in {"open", "scan"},
         UNCHANGED <<job, pass, loaded, sym, ident, errCnt, entry, fixes>>
  PROVE  GInv'
<1>1. SeenSame /\ NoEndYet'
  BY SeenBetween
<1>2. TablesKeep
  BY NothingSaid DEF IInv
<1> QED BY <1>1, <1>2, GoodBetween DEF Lost, IInv, TypeOK

LEMMA MovesGood ==
  ASSUME IInv, IInv', OInv, GInv, OpenFile \/ ScanModule \/ DoModule \/ CloseLibrary \/ EndRec
  PROVE  GInv'
<1> USE DEF tabVars, outVars, histVars
<1>1. CASE OpenFile
  <2>1. CASE CurFile.kind = "missing" /\ Fatal
    BY <2>1, FatalGood
  <2>2. CASE /\ CurFile.kind = "lib" /\ pc' = "scan"
             /\ UNCHANGED <<job, pass, ident, tabVars, errCnt, outVars, histVars>>
    BY <1>1, <2>2, BetweenGood DEF OpenFile
  <2>3. CASE /\ CurFile.kind = "obj" /\ modIdx' = 0 /\ StartModule
             /\ UNCHANGED <<job, pass, fileIdx, libFileIdx, ident, tabVars, errCnt, outVars>>
    <3>1. /\ pc = "open" /\ fileIdx < Len(job.files) /\ Cursor = <<fileIdx, 0>>
      BY <1>1 DEF OpenFile, Cursor
    <3>2. Starts /\ recIdx' = 1
      BY <2>3, <3>1 DEF Starts, StartModule, Enter
    <3> QED BY <2>3, <3>2, StartsGood
  <2> QED BY <1>1, <2>1, <2>2, <2>3 DEF OpenFile
<1>2. CASE ScanModule \/ DoModule
  <2>1. /\ pc = "scan" /\ Cursor = <<fileIdx, modIdx>> /\ CurFile.kind = "lib"
        /\ modIdx \in Nat /\ fileIdx < Len(job.files)
        /\ UNCHANGED <<job, pass, fileIdx, libFileIdx, sym, ident, errCnt, entry, fixes>>
        /\ \/ modIdx' = modIdx /\ StartModule
           \/ pc' = pc /\ UNCHANGED loaded
    BY <1>2 DEF ScanModule, DoModule, Cursor, OInv, Whereabouts, IInv, Positions, TypeOK
  <2>2. CASE modIdx' = modIdx /\ StartModule
    <3>1. Starts /\ recIdx' = 1
      BY <2>1, <2>2 DEF Starts, StartModule, Enter
    <3> QED BY <2>1, <3>1, StartsGood
  <2>3. CASE pc' = pc /\ UNCHANGED loaded
    BY <2>1, <2>3, BetweenGood
  <2> QED BY <2>1, <2>2, <2>3
<1>3. CASE CloseLibrary
  BY <1>3, BetweenGood DEF CloseLibrary
<1>4. CASE EndRec
  <2>1. /\ pc = "rec" /\ recIdx <= Len(CurMod.recs) /\ Rec.t = "END" /\ pc' \in {"open", "scan"}
        /\ UNCHANGED <<job, pass, loaded, sym, ident, errCnt, entry, fixes>>
    BY <1>4 DEF EndRec
  <2>2. SeenSame /\ NoEndYet'
    BY <2>1, SeenAtEnd DEF IInv
  <2>3. TablesKeep
    BY <2>1, NothingSaid DEF IInv
  <2> QED BY <2>1, <2>2, <2>3, GoodBetween DEF Lost, IInv, TypeOK
<1> QED BY <1>1, <1>2, <1>3, <1>4

-----------------------------------------------------------------------------
(* finPass1, and the end *)

LEMMA LayoutGood ==
  ASSUME IInv, OInv, GInv, pc \in Layout \cup {"open"}, pc' \in Layout, pass = 0,
         UNCHANGED <<job, pass, loaded, ident, entry, fixes>>, TablesKeep
  PROVE  GInv'
<1>1. SeenSame /\ NoEndYet'
  BY SeenBetween DEF Layout
<1> QED BY <1>1, GoodBetween DEF Lost, Layout

\* labels that nobody defined become known, nothing else does
LEMMA FinishPsectGood ==
  ASSUME IInv, IInv', OInv, GInv, pc \in Layout, NEW i, NEW p, FinishPsect(i, p)
  PROVE  GInv'
<1>1. /\ errCnt' = errCnt + TooBig(p) /\ errCnt \in Nat /\ errCnt' \in Nat /\ pass = 0
      /\ pc' \in Layout /\ UNCHANGED <<job, pass, loaded, ident, entry, fixes>>
  BY DEF FinishPsect, Layout, IInv, TypeOK, OInv, Whereabouts, outVars, histVars
<1>2. errCnt <= errCnt'
  BY <1>1, TooBigType
<1>3. \A s \in Syms : sym'[s].low = IF s \in Needed(i, p) THEN "NULL" ELSE sym[s].low
  BY DEF FinishPsect
<1>4. TablesKeep
  BY <1>1, <1>2, <1>3 DEF TablesKeep, Known, Needed
<1> QED BY <1>1, <1>4, LayoutGood

LEMMA StartPass2Good ==
  ASSUME IInv, IInv', OInv, GInv, pc = "place", StartPass2, TablesKeep,
         \A s \in Syms : sym'[s].low = sym[s].low,
         ~job.R => /\ Commons = {}
                   /\ errCnt' = 0 /\ ~job.I => Externs = {}
  PROVE  GInv'
<1>1. CASE pc' = "failed"
  BY <1>1 DEF GInv, Lost
<1>2. CASE pc' # "failed"
  <2>1. /\ pc' = "open" /\ pass = 0 /\ pass' = 1 /\ loaded[1] = <<>>
        /\ UNCHANGED <<job, loaded, ident, entry, fixes>>
    BY <1>2 DEF StartPass2, outVars, histVars, OInv, Whereabouts, PickedBehind, Layout, Lost
  <2>2. SeenSame /\ NoEndYet'
    BY <2>1, SeenBetween
  <2>3. AllRecorded /\ NoClash /\ fixes = {} /\ entry = <<>>
    BY <2>1 DEF GInv, Lost, FixesRight
  <2>4. AllRecorded' /\ NoClash'
    BY <2>2, <2>3, RecordsKept
  <2>5. OneStart'
    <3>1. \A k, j \in Nat : ~Seen(1, k, j)'
      <4>1. Len(loaded'[1]) = 0
        BY <2>1
      <4> QED BY <4>1 DEF Seen
    <3> QED BY <2>1, <2>3, <3>1 DEF OneStart
  <2>6. NoneOpen'
    <3>1. Commons' = Commons /\ Externs' = Externs
      BY DEF Commons, Externs, Extern
    <3> QED BY <2>1, <3>1 DEF NoneOpen
  <2>7. FixesRight' /\ NoErrorAtEnd'
    BY <2>1, <2>3 DEF FixesRight, NoErrorAtEnd
  <2> QED BY <2>2, <2>4, <2>5, <2>6, <2>7 DEF GInv
<1> QED BY <1>1, <1>2

LEMMA RelocateSymbolsGood ==
  ASSUME IInv, IInv', CInv, OInv, GInv, RelocateSymbols PROVE GInv'
<1>1. /\ pc = "place" /\ ~job.R /\ StartPass2 /\ Commons = {} /\ ident' = ident
      /\ errCnt' = errCnt + UndefinedErrors /\ errCnt \in Nat /\ errCnt' \in Nat
  BY DEF RelocateSymbols, StartPass2, IInv, TypeOK
<1>2. \A s \in Syms : sym'[s].low = sym[s].low
  <2>1. sym \in [Syms -> SymEntry]
    BY DEF IInv, TypeOK
  <2> QED BY <2>1 DEF RelocateSymbols, SymEntry
<1>3. /\ IsFiniteSet(Externs) /\ Cardinality(Externs) \in Nat
      /\ Cardinality(Externs) = 0 <=> Externs = {}
  BY ExternsFinite, FS_EmptySet
<1>4. UndefinedErrors \in Nat /\ (UndefinedErrors # 0 <=> ~job.I /\ Externs # {})
  BY <1>3 DEF UndefinedErrors, CInv, TableCounts
<1>5. errCnt <= errCnt' /\ (errCnt' = 0 /\ ~job.I => Externs = {})
  BY <1>1, <1>4
<1>6. TablesKeep
  BY <1>1, <1>2, <1>5 DEF TablesKeep, Known
<1> QED BY <1>1, <1>2, <1>5, <1>6, StartPass2Good

LEMMA LayoutStepGood ==
  ASSUME IInv, IInv', CInv, OInv, GInv, LayoutStep PROVE GInv'
<1> USE DEF histVars, outVars, tabVars, Layout
<1>1. errCnt \in Nat /\ errCnt' \in Nat /\ TypeOK /\ (pc \in Layout => pass = 0)
  BY DEF IInv, TypeOK, OInv, Whereabouts
<1>2. CASE Fatal
  BY <1>2, FatalGood
<1>3. CASE FinPass1
  <2>1. /\ pc = "open" /\ pc' \in Layout /\ pass = 0
        /\ UNCHANGED <<job, pass, loaded, ident, entry, fixes, sym, errCnt>>
    BY <1>3 DEF FinPass1
  <2> QED BY <1>1, <2>1, NothingSaid, LayoutGood
<1>4. CASE PlaceSpecPsect /\ ~Fatal
  <2>1. /\ pc \in Layout /\ pc' \in Layout /\ errCnt' = errCnt + AbsError(ItemSlot)
        /\ UNCHANGED <<job, pass, loaded, ident, entry, fixes, sym>>
    BY <1>4 DEF PlaceSpecPsect, posVars
  <2>2. TablesKeep
    BY <1>1, <2>1, AbsErrorType DEF TablesKeep, Known
  <2> QED BY <1>1, <2>1, <2>2, LayoutGood
<1>5. CASE PlaceSpecClass
  <2>1. /\ pc \in Layout /\ pc' \in Layout /\ errCnt' = errCnt + AbsError(ItemSlot)
        /\ UNCHANGED <<job, pass, loaded, ident, entry, fixes, sym>>
    BY <1>5 DEF PlaceSpecClass
  <2>2. TablesKeep
    BY <1>1, <2>1, AbsErrorType DEF TablesKeep, Known
  <2> QED BY <1>1, <2>1, <2>2, LayoutGood
<1>6. CASE (PlaceClassMember /\ ~Fatal) \/ SkipClassMember \/ SpecDone \/ PlaceClass \/ PlaceStray
  <2>1. /\ pc \in Layout /\ pc' \in Layout
        /\ UNCHANGED <<job, pass, loaded, ident, entry, fixes, sym, errCnt>>
    BY <1>6 DEF PlaceClassMember, SkipClassMember, SpecDone, PlaceClass, PlaceStray, posVars
  <2> QED BY <1>1, <2>1, NothingSaid, LayoutGood
<1>7. CASE PlaceReloc
  <2>1. /\ pc \in Layout /\ pc' \in Layout /\ errCnt' = errCnt + TooBig(psectInfo[idx])
        /\ UNCHANGED <<job, pass, loaded, ident, entry, fixes, sym>>
    BY <1>7 DEF PlaceReloc, posVars
  <2>2. TablesKeep
    BY <1>1, <2>1, TooBigType DEF TablesKeep, Known
  <2> QED BY <1>1, <2>1, <2>2, LayoutGood
<1>8. CASE PlacePsect /\ ~Fatal
  BY <1>8, FinishPsectGood DEF PlacePsect
<1>9. CASE PlaceClassDone
  BY <1>9, FinishPsectGood DEF PlaceClassDone
<1>10. CASE CommonCrash
  BY <1>10 DEF CommonCrash, GInv, Lost
<1>11. CASE KeepRelocatable
  <2>1. pc = "place" /\ StartPass2 /\ job.R /\ UNCHANGED <<sym, errCnt, ident>>
    BY <1>11 DEF KeepRelocatable, StartPass2
  <2> QED BY <1>1, <2>1, NothingSaid, StartPass2Good
<1> QED BY <1>2, <1>3, <1>4, <1>5, <1>6, <1>7, <1>8, <1>9, <1>10, <1>11, RelocateSymbolsGood
        DEF LayoutStep, SpecUnknown

LEMMA FinPass2Good ==
  ASSUME IInv, OInv, GInv, FinPass2 \/ UNCHANGED vars PROVE GInv'
<1>1. CASE FinPass2
  <2>1. CASE errCnt # 0
    BY <1>1, <2>1 DEF FinPass2, GInv, Lost
  <2>2. CASE errCnt = 0
    <3>1. /\ pc = "open" /\ pc' = "done" /\ pass = 1
          /\ UNCHANGED <<job, pass, loaded, sym, ident, errCnt, entry, fixes>>
      BY <1>1, <2>2 DEF FinPass2, tabVars, outVars, histVars
    <3>2. /\ AllRecorded /\ NoClash /\ OneStart /\ NoneOpen /\ FixesRight
      BY <3>1 DEF GInv, Lost
    <3>3. SeenSame /\ NoEndYet'
      BY <3>1, SeenBetween
    <3>4. TablesKeep
      BY <3>1, NothingSaid DEF IInv
    <3>5. AllRecorded' /\ NoClash'
      BY <3>2, <3>3, <3>4, RecordsKept
    <3>6. OneStart'
      BY <3>1, <3>2, <3>3 DEF OneStart, SeenSame
    <3>7. NoneOpen' /\ FixesRight' /\ NoErrorAtEnd'
      BY <2>2, <3>1, <3>2 DEF NoneOpen, Commons, Externs, Extern, FixesRight, Known, Signed,
                              NoErrorAtEnd
    <3> QED BY <3>3, <3>5, <3>6, <3>7 DEF GInv
  <2> QED BY <2>1, <2>2
<1>2. CASE UNCHANGED vars
  <2>1. /\ UNCHANGED <<job, pc, pass, fileIdx, modIdx, recIdx, loaded>>
        /\ UNCHANGED <<sym, ident, errCnt, entry, fixes>>
    BY <1>2 DEF vars, posVars, tabVars, outVars, histVars
  <2>2. NoEndYet' = NoEndYet /\ NoneOpen' = NoneOpen /\ FixesRight' = FixesRight
    BY <2>1 DEF NoEndYet, CurMod, CurFile, NoneOpen, Commons, Externs, Extern, FixesRight, Known,
                Signed
  <2>3. \A p \in {0, 1} : \A k, j \in Nat :
          (Seen(p, k, j)' <=> Seen(p, k, j)) /\ RecAt(p, k, j)' = RecAt(p, k, j)
    BY <2>1 DEF Seen, RecAt, BodyOf, ModOf
  <2>4. ASSUME GInv, pc \notin Lost PROVE AllRecorded' /\ NoClash' /\ OneStart'
    <3>1. SeenSame /\ TablesKeep /\ AllRecorded /\ NoClash /\ OneStart
      BY <2>1, <2>3, <2>4, NothingSaid DEF SeenSame, GInv, IInv
    <3> QED BY <2>1, <3>1, RecordsKept DEF OneStart, SeenSame
  <2> QED BY <2>1, <2>2, <2>4 DEF GInv, NoErrorAtEnd
<1> QED BY <1>1, <1>2

-----------------------------------------------------------------------------
(* The theorem *)

LEMMA InitGood == Init => GInv
<1> SUFFICES ASSUME Init PROVE GInv
  OBVIOUS
<1>1. /\ pc = "open" /\ pass = 0 /\ errCnt = 0 /\ entry = <<>> /\ fixes = {}
      /\ \A p \in {0, 1} : loaded[p] = <<>>
  BY DEF Init
<1>2. \A p \in {0, 1} : \A k, j \in Nat : ~Seen(p, k, j)
  BY <1>1 DEF Seen
<1>3. NoEndYet /\ AllRecorded /\ NoClash /\ OneStart
  BY <1>1, <1>2 DEF NoEndYet, AllRecorded, NoClash, OneStart
<1>4. NoneOpen /\ FixesRight /\ NoErrorAtEnd
  BY <1>1 DEF NoneOpen, FixesRight, NoErrorAtEnd
<1> QED BY <1>3, <1>4 DEF GInv

LEMMA NextGood ==
  ASSUME IInv, IInv', CInv, OInv, GInv, [Next]_vars PROVE GInv'
<1>1. CASE OpenFile \/ ScanModule \/ DoModule \/ CloseLibrary \/ EndRec
  BY <1>1, MovesGood
<1>2. CASE NoEndRecord
  BY <1>2, FatalGood DEF NoEndRecord
<1>3. CASE LayoutStep
  BY <1>3, LayoutStepGood
<1>4. CASE FinPass2 \/ UNCHANGED vars
  BY <1>4, FinPass2Good
<1> QED BY <1>1, <1>2, <1>3, <1>4, Pass1RecGood, Pass2RecGood, SkipRecGood
        DEF Next, Step, Exited, ReadStep

LEMMA GoodImplies ==
  ASSUME IInv, OInv, GInv PROVE DoneMeansGood
<1> SUFFICES ASSUME pc = "done" PROVE DoneMeansGood
  BY DEF DoneMeansGood, DoneMeansResolved, DoneMeansConsistent
<1>1. /\ AllRecorded /\ NoClash /\ OneStart /\ NoneOpen /\ FixesRight
      /\ errCnt = 0 /\ pass = 1
  BY DEF GInv, Lost, NoErrorAtEnd
<1>2. DoneMeansResolved
  <2> SUFFICES ASSUME ~job.I, ~job.R
               PROVE  /\ Externs = {}
                      /\ \A x \in fixes : x.kind = "RNAME" =>
                           /\ sym[x.name].low = "NULL"
                           /\ x.field = sym[x.name].value + Signed(x.add)
                      /\ Len(entry) <= 1
    BY DEF DoneMeansResolved
  <2>1. Externs = {} /\ Commons = {}
    BY <1>1 DEF NoneOpen
  <2>2. \A s \in Syms : Known(s) => sym[s].low = "NULL"
    <3>1. \A s \in Syms : sym[s].low \in {"none", "EXTERN", "NULL", "COMM"}
      BY Typed DEF IInv, SymEntry
    <3> QED BY <2>1, <3>1 DEF Known, Externs, Extern, Commons
  <2>3. Len(entry) <= 1
    <3>1. entry = <<>> \/ Len(entry) = 1
      BY <1>1 DEF OneStart
    <3>2. CASE entry = <<>>
      BY <3>2
    <3>3. CASE Len(entry) = 1
      BY <3>3
    <3> QED BY <3>1, <3>2, <3>3
  <2> QED BY <1>1, <2>1, <2>2, <2>3 DEF FixesRight
<1>3. DoneMeansConsistent
  <2>1. loaded[1] = loaded[0] /\ Len(loaded[0]) \in Nat
    BY OrderImplies, HistoryType DEF SameModules, OInv, IInv
  <2> SUFFICES ASSUME NEW j \in 1..Len(loaded[0]), NEW k \in 1..Len(loaded[0]), j # k,
                      NEW q \in BodyOf(loaded[0][j]), NEW r \in BodyOf(loaded[0][k])
               PROVE  LET x == ModOf(loaded[0][j]).recs[q]
                          y == ModOf(loaded[0][k]).recs[r]
                      IN x.t = y.t =>
                           /\ x.t = "SYM" /\ x.low = "NULL" /\ y.low # "EXTERN" =>
                                ~x.glob \/ x.name # y.name \/ (y.low = "NULL" /\ ~y.glob)
                           /\ x.t # "START"
                           /\ x.t = "IDENT" => x.order = y.order
    BY DEF DoneMeansConsistent
  <2> DEFINE x == ModOf(loaded[0][j]).recs[q]
             y == ModOf(loaded[0][k]).recs[r]
  <2> SUFFICES ASSUME x.t = y.t
               PROVE  /\ x.t = "SYM" /\ x.low = "NULL" /\ y.low # "EXTERN" =>
                           ~x.glob \/ x.name # y.name \/ (y.low = "NULL" /\ ~y.glob)
                      /\ x.t # "START"
                      /\ x.t = "IDENT" => x.order = y.order
    OBVIOUS
  <2>2. q \in Nat /\ r \in Nat /\ j \in Nat /\ k \in Nat
    BY <2>1 DEF BodyOf
  <2>3. Seen(0, j, q) /\ Seen(0, k, r) /\ Seen(1, j, q) /\ Seen(1, k, r)
    BY <1>1, <2>1 DEF Seen
  <2>4. /\ RecAt(0, j, q) = x /\ RecAt(0, k, r) = y
        /\ RecAt(1, j, q) = x /\ RecAt(1, k, r) = y
    BY <2>1 DEF RecAt
  <2> HIDE DEF x, y
  <2>5. x.t # "START"
    BY <1>1, <2>2, <2>3, <2>4 DEF OneStart
  <2>6. Recorded(x) /\ Recorded(y) /\ ~Clash(x, y)
    BY <1>1, <2>2, <2>3, <2>4 DEF AllRecorded, NoClash
  <2>7. x.t = "IDENT" => x.order = y.order
    BY <2>6 DEF Recorded
  <2>8. x.t = "SYM" => y.low \in {"NULL", "COMM", "EXTERN"}
    <3>1. Valid(loaded[0][k])
      BY LoadedValid DEF Lost, IInv
    <3>2. RecsOf(loaded[0][k]) \in Seq(Record)
      BY <3>1, ValidRecs DEF IInv
    <3>3. RecsOf(loaded[0][k]) = ModOf(loaded[0][k]).recs
      BY DEF RecsOf, ModsAt, ModOf
    <3>4. r \in 1..Len(RecsOf(loaded[0][k])) /\ y = RecsOf(loaded[0][k])[r]
      BY <3>3 DEF y, BodyOf
    <3>5. y \in Record
      BY <3>2, <3>4
    <3> QED BY <3>5, RecordFields
  <2> QED BY <2>5, <2>6, <2>7, <2>8 DEF Clash
<1> QED BY <1>2, <1>3 DEF DoneMeansGood

\* When the linker exits with status 0 every reference was resolved to a defined
\* symbol and holds its address, without -r and -i, and, whatever the options,
\* no two modules linked define one symbol, give an entry point or differ in byte
\* order: each such error is counted where it is met, and the count reaches the
\* exit status (link/main.c main, link/sym.c defineSym, finPass1, link/reloc.c relocRecPass2).
THEOREM ExitMeansGood == Spec => []DoneMeansGood
<1>1. Init => IInv /\ CInv /\ OInv /\ GInv
  BY InitInv, InitCounts, InitOrder, InitGood
<1>2. IInv /\ CInv /\ OInv /\ [Next]_vars => (IInv /\ CInv /\ OInv)'
  BY NextInv, NextCounts, NextOrder
<1>3. IInv /\ IInv' /\ CInv /\ OInv /\ GInv /\ [Next]_vars => GInv'
  BY NextGood
<1>4. IInv /\ OInv /\ GInv => DoneMeansGood
  BY GoodImplies
<1> QED BY <1>1, <1>2, <1>3, <1>4, PTL DEF Spec
=============================================================================
