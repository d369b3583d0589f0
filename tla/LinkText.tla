------------------------------ MODULE LinkText ------------------------------
(***************************************************************************)
(* Proof of where module Link puts text: inside its psect as finPass1 laid *)
(* it out, psects of one -p apart from each other, each module's text at a *)
(* place of its own, and where the relocations by that psect say it is.    *)
(*                                                                         *)
(* The argument: the k-th module of pass 1 finds each psect at the size it *)
(* had before the k-th module of pass 0 (LinkPasses), the next module finds*)
(* it at least as large as the text of this one needs, sizes never go down,*)
(* and no module is met twice.                                             *)
(***************************************************************************)
EXTENDS LinkPasses

-----------------------------------------------------------------------------
(* The inductive invariant *)

\* where psect i begins, and where the k-th module's part of it does
Origin(i) == IF job.R THEN 0 ELSE psectInfo[i].link
PartAt(k, i) == Origin(i) + (IF psectInfo[i].ovr THEN 0 ELSE Base[k][i])

\* the sizes of the psects never go down from one module to the next
SizesGrow ==
  /\ Len(bases) \in Nat /\ DOMAIN bases = 1..Len(bases)
  /\ \A k \in 1..Len(bases) : \A i \in 1..MaxPsects : Base[k][i] \in Nat
  /\ \A j, k \in 1..Len(bases) : \A i \in 1..MaxPsects : j <= k => Base[j][i] <= Base[k][i]

\* once they are laid out there is a final size for every psect
AllSized ==
  pass = 1 \/ pc \in Layout =>
    Len(bases) >= 1 /\ \A i \in 1..nextPsect : i \in DOMAIN bases[Len(bases)]

NoneTwice == /\ loaded[1] \in Seq(Places)
             /\ \A j, k \in 1..Len(loaded[1]) : j # k => loaded[1][j] # loaded[1][k]

\* a text was put into the part of its psect that the k-th module has
TextIn(o, k) ==
  /\ k + 1 <= Len(bases) /\ o.mod = loaded[1][k]
  /\ o.psect \in 1..nextPsect
  /\ o.psect = PsectFrom[o.mod[1]][psectInfo[o.psect].name]
  /\ o.base = PartAt(k, o.psect)
  /\ o.base \in Nat /\ o.link \in Nat /\ o.len \in Nat
  /\ o.base <= o.link
  /\ o.link + o.len <= Origin(o.psect) + Base[k + 1][o.psect]
  /\ job.R \/ o.load - psectInfo[o.psect].load = o.link - psectInfo[o.psect].link
TextMade(o) == \E k \in 1..Len(loaded[1]) : TextIn(o, k)

\* a field was relocated by the part of a psect that the k-th module has
FixFor(x, k) ==
  LET i == PsectFrom[x.mod[1]][x.name]
  IN /\ x.mod = loaded[1][k] /\ k + 1 <= Len(bases)
     /\ x.name \in Names /\ i \in 1..nextPsect
     /\ x.kind = "RPSECT" => x.field = (Origin(i) + Base[k][i] + x.add) % Field
     /\ x.kind = "RRPSECT" /\ ~job.R => x.field = (Origin(i) + Base[k][i] + x.add - x.at) % Field
     /\ x.kind = "LOCAL" => x.field = PartAt(k, i) + x.add
FixMade(x) ==
  x.kind \in {"RPSECT", "RRPSECT", "LOCAL"} => \E k \in 1..Len(loaded[1]) : FixFor(x, k)

TInv == /\ pass = 0 => out = {} /\ fixes = {}
        /\ SizesGrow /\ AllSized
        /\ pass = 1 => /\ NoneTwice
                       /\ \A o \in out : TextMade(o)
                       /\ \A x \in fixes : FixMade(x)

\* A psect that a module of the job overlays, but none that was linked, has no text.
OverZero ==
  \A i \in 1..nextPsect : Over(i) /\ ~psectInfo[i].ovr =>
    /\ \A k \in 1..Len(bases) : Base[k][i] = 0
    /\ InPass0 => psectInfo[i].blk = 0

\* how far the values of the symbols of psect i have moved with it
Moved(i) == IF pass = 1 /\ ~job.R /\ ~psectInfo[i].abs THEN psectInfo[i].link ELSE 0

\* A global symbol that a record of the k-th module, from file f, defines has the
\* address of the module's part of the psect, plus the value of the record.
Defines(r) == r.t = "SYM" /\ r.low = "NULL" /\ r.glob
SymAt(r, f, k) ==
  Defines(r) =>
    LET i == PsectFrom[f][r.psect]
        s == sym[r.name]
    IN /\ r.name \in Syms /\ r.psect \in Names /\ i \in 1..nextPsect
       /\ s.low = "NULL" /\ s.psect = i
       /\ s.value = r.val + (IF Over(i) THEN 0 ELSE Base[k][i]) + Moved(i)
SymsAt ==
  pass = 1 \/ errCnt = 0 =>
    \A k, j \in Nat : Seen(0, k, j) => SymAt(RecAt(0, k, j), loaded[0][k][1], k)

DInv == pc \notin Lost => OverZero /\ SymsAt

-----------------------------------------------------------------------------
(* The shape of the steps *)

\* pass 1 changes no address, and forgets nothing
SecondPass ==
  /\ pass' = 1 /\ SameEntries /\ bases' = bases /\ sym' = sym
  /\ \A i \in 1..nextPsect : /\ psectInfo'[i].link = psectInfo[i].link
                             /\ psectInfo'[i].load = psectInfo[i].load
                             /\ psectInfo'[i].abs = psectInfo[i].abs
                             /\ psectInfo'[i].cls = psectInfo[i].cls
                             /\ psectInfo'[i].set = psectInfo[i].set
  /\ loaded'[0] = loaded[0]
  /\ Len(loaded[1]) <= Len(loaded'[1])
  /\ \A k \in 1..Len(loaded[1]) : loaded'[1][k] = loaded[1][k]
  /\ loaded' = loaded \/ pc' = "rec"

LEMMA SameLoaded ==
  ASSUME OInv, loaded' = loaded
  PROVE  /\ Len(loaded[1]) <= Len(loaded'[1])
         /\ \A k \in 1..Len(loaded[1]) : loaded'[1][k] = loaded[1][k]
BY HistoryType DEF OInv

LEMMA SamePsects ==
  ASSUME OInv, pass = 1, UNCHANGED <<pass, job, sym, psectInfo, nextPsect, bases, loaded>>
  PROVE  SecondPass
<1>1. SameEntries
  BY DEF SameEntries, SameNames
<1>2. Len(loaded[1]) \in Nat
  BY HistoryType DEF OInv
<1> QED BY <1>1, <1>2 DEF SecondPass

LEMMA StartsAgain ==
  ASSUME OInv, pass = 1, UNCHANGED <<pass, job, sym, psectInfo, nextPsect, bases>>,
         pc' = "rec", NEW y, loaded' = [loaded EXCEPT ![pass] = Append(@, y)]
  PROVE  SecondPass
<1>1. SameEntries
  BY DEF SameEntries, SameNames
<1>2. /\ Len(loaded[1]) \in Nat /\ loaded[1] \in Seq(Places)
      /\ loaded \in [{0, 1} -> Seq(Places)]
  BY HistoryType DEF OInv, Histories
<1>3. loaded'[1] = Append(loaded[1], y)
  BY <1>2
<1>4. /\ Len(loaded'[1]) = Len(loaded[1]) + 1 /\ loaded'[0] = loaded[0]
      /\ \A k \in 1..Len(loaded[1]) : loaded'[1][k] = loaded[1][k]
  BY <1>2, <1>3
<1> QED BY <1>1, <1>2, <1>4 DEF SecondPass

\* an entry whose size or whose end of the module changes
LEMMA OnlySizes ==
  ASSUME OInv, pass = 1, UNCHANGED <<pass, job, sym, nextPsect, bases, loaded>>,
         \A i \in 1..nextPsect :
           \E blk, end : psectInfo'[i] = [psectInfo[i] EXCEPT !.blk = blk, !.end = end],
         TypeOK
  PROVE  SecondPass
<1>1. ASSUME NEW i \in 1..nextPsect
      PROVE  /\ psectInfo'[i].name = psectInfo[i].name /\ psectInfo'[i].kind = psectInfo[i].kind
             /\ psectInfo'[i].glob = psectInfo[i].glob
             /\ psectInfo'[i].fileId = psectInfo[i].fileId
             /\ psectInfo'[i].ovr = psectInfo[i].ovr
             /\ psectInfo'[i].link = psectInfo[i].link
             /\ psectInfo'[i].load = psectInfo[i].load
             /\ psectInfo'[i].abs = psectInfo[i].abs
             /\ psectInfo'[i].cls = psectInfo[i].cls
             /\ psectInfo'[i].set = psectInfo[i].set
  <2>1. PICK blk, end : psectInfo'[i] = [psectInfo[i] EXCEPT !.blk = blk, !.end = end]
    OBVIOUS
  <2>2. psectInfo[i] \in PsectEntry
    BY Typed
  <2> QED BY <2>1, <2>2 DEF PsectEntry
<1>2. SameEntries
  BY <1>1 DEF SameEntries, SameNames
<1>3. Len(loaded[1]) <= Len(loaded'[1]) /\ \A k \in 1..Len(loaded[1]) : loaded'[1][k] = loaded[1][k]
  <2>1. loaded' = loaded
    OBVIOUS
  <2> QED BY <2>1, SameLoaded
<1>4. pass' = 1 /\ bases' = bases /\ loaded' = loaded /\ sym' = sym
  OBVIOUS
<1> QED BY <1>1, <1>2, <1>3, <1>4, Zenon DEF SecondPass

LEMMA TextIsSize ==
  ASSUME IInv, OInv, TextRecPass2 PROVE SecondPass
<1> DEFINE i == Slot(Rec.psect, "PSECT")
           end == Rec.off + Rec.len
<1>1. /\ pass = 1 /\ UNCHANGED <<pass, job, sym, nextPsect, bases, loaded>>
      /\ psectInfo' = Grown(psectInfo, i, end) /\ i # 0
  BY DEF TextRecPass2, Reading, NextRec, histVars
<1>2. i \in 1..MaxPsects /\ psectInfo \in [1..MaxPsects -> PsectEntry]
  BY <1>1, PsectSlot, Typed DEF IInv
<1> HIDE DEF i, end
<1>3. ASSUME NEW j \in 1..nextPsect
      PROVE  \E blk, e : psectInfo'[j] = [psectInfo[j] EXCEPT !.blk = blk, !.end = e]
  <2>1. psectInfo[j] \in PsectEntry /\ j \in 1..MaxPsects
    BY Typed DEF IInv
  <2>2. psectInfo[j] = [psectInfo[j] EXCEPT !.blk = psectInfo[j].blk, !.end = psectInfo[j].end]
    BY <2>1 DEF PsectEntry
  <2>3. CASE j = i
    <3>1. psectInfo'[j] = [psectInfo[j] EXCEPT !.end = IF psectInfo[j].end < end THEN end ELSE psectInfo[j].end]
      BY <1>1, <1>2, <2>3 DEF Grown
    <3>2. psectInfo'[j] = [psectInfo[j] EXCEPT !.blk = psectInfo[j].blk,
                                               !.end = IF psectInfo[j].end < end THEN end ELSE psectInfo[j].end]
      BY <2>1, <3>1 DEF PsectEntry
    <3> QED BY <3>2
  <2>4. CASE j # i
    <3>1. psectInfo'[j] = psectInfo[j]
      BY <1>1, <1>2, <2>1, <2>4 DEF Grown
    <3> QED BY <2>2, <3>1
  <2> QED BY <2>3, <2>4
<1> QED BY <1>1, <1>3, OnlySizes DEF IInv

LEMMA EndIsSize ==
  ASSUME IInv, OInv, EndRec, pass = 1 PROVE SecondPass
<1>1. /\ UNCHANGED <<pass, job, sym, nextPsect, bases, loaded>>
      /\ psectInfo' = [i \in 1..MaxPsects |->
                        IF i <= nextPsect THEN EndOfModule(psectInfo[i]) ELSE psectInfo[i]]
  BY DEF EndRec, histVars
<1>2. ASSUME NEW j \in 1..nextPsect
      PROVE  \E blk, e : psectInfo'[j] = [psectInfo[j] EXCEPT !.blk = blk, !.end = e]
  <2>1. j \in 1..MaxPsects /\ j <= nextPsect
    BY Typed DEF IInv
  <2>2. psectInfo'[j] = EndOfModule(psectInfo[j])
    BY <1>1, <2>1
  <2> QED BY <2>2 DEF EndOfModule
<1> QED BY <1>1, <1>2, OnlySizes DEF IInv

LEMMA Pass1Steps ==
  ASSUME IInv, OInv, pass = 1, [Next]_vars
  PROVE  SecondPass
<1>1. pc \notin Layout
  BY DEF OInv, Whereabouts
<1>2. CASE TextRecPass2
  BY <1>2, TextIsSize
<1>3. CASE EndRec
  BY <1>3, EndIsSize
<1>4. CASE RelocRecPass2 \/ SymRecPass2 \/ StartRecPass2
  <2>1. UNCHANGED <<pass, job, sym, psectInfo, nextPsect, bases, loaded>>
    BY <1>4 DEF RelocRecPass2, SymRecPass2, StartRecPass2, Fatal, NextRec, tabVars, histVars
  <2> QED BY <2>1, SamePsects
<1>5. CASE SkipRec \/ NoEndRecord \/ CloseLibrary \/ FinPass2 \/ UNCHANGED vars
  <2>1. UNCHANGED <<pass, job, sym, psectInfo, nextPsect, bases, loaded>>
    BY <1>5 DEF SkipRec, NoEndRecord, CloseLibrary, FinPass2, Fatal, NextRec, tabVars, histVars,
       vars, posVars
  <2> QED BY <2>1, SamePsects
<1>6. CASE OpenFile \/ DoModule
  <2>1. UNCHANGED <<pass, job, sym, psectInfo, nextPsect>>
    BY <1>6 DEF OpenFile, DoModule, Fatal, tabVars
  <2>2. \/ UNCHANGED histVars
        \/ Bases /\ pc' = "rec" /\ \E y : loaded' = [loaded EXCEPT ![pass] = Append(@, y)]
    BY <1>6 DEF OpenFile, DoModule, Fatal, StartModule, Enter
  <2>3. bases' = bases
    BY <2>2 DEF Bases, histVars
  <2> QED BY <2>1, <2>2, <2>3, SamePsects, StartsAgain DEF histVars
<1>7. ~ScanModule /\ ~Pass1Rec /\ ~FinPass1
  BY DEF ScanModule, FinPass1, Pass1Rec, IdentRec, PsectRec, XpsectRec, TextRecPass1,
     RelocRecPass1, SymExternPass1, SymCommPass1, SymNullPass1, Reading
<1>8. LayoutStep /\ ~FinPass1 => pc \in Layout
  BY DEF LayoutStep, PlaceSpecPsect, PlaceSpecClass, PlaceClassMember, SkipClassMember,
     SpecUnknown, SpecDone, PlaceReloc, PlacePsect, PlaceClass, PlaceStray, PlaceClassDone,
     RelocateSymbols, CommonCrash, KeepRelocatable, Layout
<1> QED BY <1>1, <1>2, <1>3, <1>4, <1>5, <1>6, <1>7, <1>8
        DEF Next, Step, Exited, ReadStep, Pass2Rec

\* pass 0 writes nothing; it notes the sizes before every module and once at its end
LEMMA Pass0Steps ==
  ASSUME IInv, OInv, pass = 0, [Next]_vars
  PROVE  /\ out' = out /\ fixes' = fixes
         /\ \/ bases' = bases
            \/ bases' = Append(bases, Sizes) /\ pc' \in {"rec", "spec", "place"}
         /\ pass' = 1 \/ pc' \in Layout =>
              /\ nextPsect' = nextPsect
              /\ bases' = IF pc \in Layout THEN bases ELSE Append(bases, Sizes)
         /\ pass' = 1 => pc = "place" /\ loaded' = loaded
         /\ pc \notin Layout /\ pc' \in Layout => FinPass1
<1>1. CASE FinPass1
  <2>1. /\ bases' = Append(bases, Sizes) /\ pc = "open" /\ UNCHANGED outVars
        /\ nextPsect' = nextPsect /\ pc' \in {"spec", "place"} /\ pass' = pass
    BY <1>1 DEF FinPass1, Bases, tabVars
  <2> QED BY <1>1, <2>1 DEF outVars, Layout
<1>2. CASE OpenFile \/ ScanModule \/ CloseLibrary
  <2>1. /\ UNCHANGED outVars /\ pass' = pass /\ pc' \in {"rec", "open", "scan", "failed"}
        /\ bases' = bases \/ (bases' = Append(bases, Sizes) /\ pc' = "rec")
    BY <1>2 DEF OpenFile, ScanModule, CloseLibrary, Fatal, StartModule, Bases, histVars
  <2> QED BY <2>1 DEF outVars, Layout
<1>3. CASE Pass1Rec \/ NoEndRecord \/ SkipRec \/ EndRec
  <2>1. /\ UNCHANGED outVars /\ UNCHANGED histVars /\ pass' = pass
        /\ pc' \in {"rec", "open", "scan", "failed"}
    <3>1. CASE IdentRec \/ PsectRec \/ XpsectRec \/ TextRecPass1
      BY <3>1 DEF IdentRec, PsectRec, XpsectRec, TextRecPass1, Reading, NextRec, Fatal
    <3>2. CASE RelocRecPass1 \/ SymExternPass1 \/ SymCommPass1 \/ SymNullPass1
      BY <3>2 DEF RelocRecPass1, SymExternPass1, SymCommPass1, SymNullPass1, Mention, Reading,
         NextRec, Fatal
    <3>3. CASE NoEndRecord \/ SkipRec \/ EndRec
      BY <3>3 DEF NoEndRecord, SkipRec, EndRec, Reading, NextRec, Fatal
    <3> QED BY <1>3, <3>1, <3>2, <3>3 DEF Pass1Rec
  <2> QED BY <2>1 DEF outVars, histVars, Layout
<1>4. CASE LayoutStep /\ ~FinPass1
  <2>1. /\ UNCHANGED outVars /\ bases' = bases /\ nextPsect' = nextPsect /\ pc \in Layout
        /\ pass' = pass \/ (pc = "place" /\ loaded' = loaded)
    <3>1. CASE PlaceSpecPsect \/ PlaceSpecClass \/ PlaceClassMember \/ SkipClassMember
      BY <3>1 DEF PlaceSpecPsect, PlaceSpecClass, PlaceClassMember, SkipClassMember, Fatal,
         tabVars, histVars, posVars, Layout
    <3>2. CASE SpecUnknown \/ SpecDone \/ PlaceReloc \/ PlaceClass \/ CommonCrash
      BY <3>2 DEF SpecUnknown, SpecDone, PlaceReloc, PlaceClass, CommonCrash, Fatal,
         tabVars, histVars, posVars, Layout
    <3>3. CASE PlacePsect \/ PlaceStray \/ PlaceClassDone
      BY <3>3 DEF PlacePsect, PlaceStray, PlaceClassDone, FinishPsect, Fatal, tabVars, histVars,
         posVars, Layout
    <3>4. CASE RelocateSymbols \/ KeepRelocatable
      BY <3>4 DEF RelocateSymbols, KeepRelocatable, StartPass2, histVars, Layout
    <3> QED BY <1>4, <3>1, <3>2, <3>3, <3>4 DEF LayoutStep
  <2> QED BY <2>1 DEF outVars
<1>5. CASE UNCHANGED vars
  <2>1. /\ UNCHANGED outVars /\ UNCHANGED <<bases, pc, pass, nextPsect>>
    BY <1>5 DEF vars, posVars, tabVars, histVars
  <2> QED BY <2>1 DEF outVars
<1>6. ~DoModule /\ ~Pass2Rec /\ ~FinPass2
  BY DEF DoModule, FinPass2, Pass2Rec, TextRecPass2, RelocRecPass2, SymRecPass2, StartRecPass2,
     Reading
<1> QED BY <1>1, <1>2, <1>3, <1>4, <1>5, <1>6 DEF Next, Step, Exited, ReadStep

-----------------------------------------------------------------------------
(* Sizes *)

\* what the sizes are from one module to the next
NextUp ==
  /\ Len(bases) \in Nat /\ DOMAIN bases = 1..Len(bases)
  /\ \A k \in 1..Len(bases) : \A i \in 1..MaxPsects :
       /\ Base[k][i] \in Nat
       /\ k + 1 <= Len(bases) => Base[k][i] <= Base[k + 1][i]

LEMMA GrowsUp ==
  ASSUME NEW size \in Nat, NEW e \in Nat, NEW over
  PROVE  size <= GrowBy(over, size, e)
BY DEF GrowBy

LEMMA StepUp == TypeOK /\ OInv /\ SInv /\ pc \notin Lost => NextUp
<1> SUFFICES ASSUME TypeOK, OInv, SInv, pc \notin Lost PROVE NextUp
  OBVIOUS
<1>1. BasesType /\ Effects
  BY DEF SInv
<1>2. Len(bases) \in Nat /\ DOMAIN bases = 1..Len(bases)
  BY <1>1, BasesAreSeq, BasesSeq
<1>3. \A k \in 1..Len(bases) : \A i \in 1..MaxPsects :
        Base[k][i] \in Nat /\ (i > nextPsect => Base[k][i] = 0)
  BY <1>1, BaseIs
<1>4. ASSUME NEW k \in 1..Len(bases), NEW i \in 1..MaxPsects, k + 1 <= Len(bases)
      PROVE  Base[k][i] <= Base[k + 1][i]
  <2>1. k + 1 \in 1..Len(bases) /\ nextPsect \in Nat /\ k \in Nat
    BY <1>2, <1>4, Typed
  <2>2. CASE i \in 1..nextPsect
    <3>1. k \in 1..Completed
      <4>1. /\ Completed \in Int
            /\ pass = 0 /\ pc = "rec" => Completed + 1 = Len(bases)
            /\ pass = 0 /\ pc \in {"open", "scan"} => Completed = Len(bases)
            /\ ~InPass0 => Completed + 1 = Len(bases)
        BY <1>1, HowFar
      <4>2. Completed + 1 = Len(bases) \/ Completed = Len(bases)
        BY <4>1, Zenon DEF InPass0
      <4> DEFINE c == Completed
                 l == Len(bases)
      <4>3. c \in Int /\ l \in Nat /\ (c + 1 = l \/ c = l) /\ k \in 1..l /\ k + 1 <= l
        BY <1>2, <1>4, <4>1, <4>2
      <4> HIDE DEF c, l
      <4>4. k \in 1..c
        BY <4>3
      <4> QED BY <4>4 DEF c
    <3>2. k \in 1..Len(loaded[0])
      BY <2>1, <3>1, HistoryType DEF Completed, OInv
    <3>3. loaded[0][k] \in Places
      BY <3>2, HistoryType DEF OInv
    <3>4. Effect(loaded[0][k], k)
      BY <1>1, <3>1, <3>3 DEF Effects
    <3>5. PICK e \in Nat : Base[k + 1][i] = GrowBy(Over(i), Base[k][i], e)
      BY <2>2, <3>4 DEF Effect
    <3> QED BY <1>3, <3>5, GrowsUp
  <2>3. CASE i \notin 1..nextPsect
    <3>1. Base[k][i] = 0 /\ Base[k + 1][i] \in Nat
      BY <1>3, <2>1, <2>3
    <3> QED BY <3>1
  <2> QED BY <2>2, <2>3
<1> QED BY <1>2, <1>3, <1>4 DEF NextUp

LEMMA StepUpNext == (TypeOK /\ OInv /\ SInv /\ pc \notin Lost => NextUp)'
BY StepUp, PTL

LEMMA SameBase ==
  ASSUME SizesGrow, bases' = bases, NEW k \in 1..Len(bases), NEW i \in 1..MaxPsects
  PROVE  Base'[k][i] = Base[k][i]
<1>1. k \in Nat /\ k \in DOMAIN bases /\ k \in DOMAIN bases'
  BY DEF SizesGrow
<1> QED BY <1>1 DEF Base

LEMMA SameSizes ==
  ASSUME SizesGrow, bases' = bases
  PROVE  SizesGrow'
<1>1. \A k \in 1..Len(bases) : \A i \in 1..MaxPsects : Base'[k][i] = Base[k][i]
  BY SameBase
<1> QED BY <1>1 DEF SizesGrow

LEMMA MoreSizes ==
  ASSUME SizesGrow, bases' = Append(bases, Sizes), NextUp'
  PROVE  SizesGrow'
<1> DEFINE n == Len(bases)
<1>1. /\ n \in Nat /\ DOMAIN bases = 1..n
      /\ \A k \in 1..n : \A i \in 1..MaxPsects : Base[k][i] \in Nat
      /\ \A j, k \in 1..n : \A i \in 1..MaxPsects : j <= k => Base[j][i] <= Base[k][i]
  BY DEF SizesGrow
<1>2. Len(bases') = n + 1 /\ \A k \in 1..n : bases'[k] = bases[k]
  BY <1>1
<1>3. /\ DOMAIN bases' = 1..(n + 1)
      /\ \A k \in 1..(n + 1) : \A i \in 1..MaxPsects :
           /\ Base'[k][i] \in Nat
           /\ k + 1 <= n + 1 => Base'[k][i] <= Base'[k + 1][i]
  BY <1>2 DEF NextUp
<1> HIDE DEF n
<1>4. ASSUME NEW k \in 1..n, NEW i \in 1..MaxPsects
      PROVE  Base'[k][i] = Base[k][i]
  <2>1. k \in Nat /\ k \in DOMAIN bases /\ k \in DOMAIN bases' /\ bases'[k] = bases[k]
    BY <1>1, <1>2, <1>3
  <2> QED BY <2>1 DEF Base
<1>5. ASSUME NEW j \in 1..(n + 1), NEW k \in 1..(n + 1), NEW i \in 1..MaxPsects, j <= k
      PROVE  Base'[j][i] <= Base'[k][i]
  <2>1. CASE k \in 1..n
    <3>1. j \in 1..n
      BY <1>1, <1>5, <2>1
    <3> QED BY <1>1, <1>4, <1>5, <2>1, <3>1
  <2>2. CASE k = n + 1 /\ j = n + 1
    BY <1>3, <2>2
  <2>3. CASE k = n + 1 /\ j # n + 1
    <3>1. j \in 1..n /\ n \in 1..n /\ j <= n
      BY <1>1, <2>3
    <3>2. Base'[j][i] <= Base'[n][i]
      BY <1>1, <1>4, <3>1
    <3>3. n \in 1..(n + 1) /\ n + 1 <= n + 1 /\ j \in 1..(n + 1) /\ n + 1 \in 1..(n + 1)
      BY <1>1, <3>1
    <3>4. Base'[n][i] <= Base'[n + 1][i] /\ Base'[n][i] \in Nat /\ Base'[n + 1][i] \in Nat /\ Base'[j][i] \in Nat
      BY <1>3, <3>3
    <3> QED BY <2>3, <3>2, <3>4
  <2> QED BY <1>1, <2>1, <2>2, <2>3
<1> QED BY <1>1, <1>2, <1>3, <1>5 DEF SizesGrow

LEMMA SizedKept ==
  ASSUME IInv, IInv', OInv, OInv', SInv', TInv, [Next]_vars
  PROVE  SizesGrow' /\ AllSized'
<1>0. /\ SizesGrow /\ AllSized /\ nextPsect \in Nat
      /\ Len(bases) \in Nat /\ DOMAIN bases = 1..Len(bases)
  BY Typed DEF TInv, IInv, SizesGrow
<1>1. CASE pass = 1
  <2>1. bases' = bases /\ nextPsect' = nextPsect /\ pass' = 1
    BY <1>1, Pass1Steps DEF SecondPass, SameEntries
  <2> QED BY <1>0, <1>1, <2>1, SameSizes DEF AllSized
<1>2. CASE pass = 0
  <2>1. /\ \/ bases' = bases
           \/ bases' = Append(bases, Sizes) /\ pc' \in {"rec", "spec", "place"}
        /\ pass' = 1 \/ pc' \in Layout =>
             /\ nextPsect' = nextPsect
             /\ bases' = IF pc \in Layout THEN bases ELSE Append(bases, Sizes)
    BY <1>2, Pass0Steps
  <2>2. SizesGrow'
    <3>1. CASE bases' = bases
      BY <1>0, <3>1, SameSizes
    <3>2. CASE bases' = Append(bases, Sizes) /\ pc' \in {"rec", "spec", "place"}
      <4>1. NextUp'
        BY <3>2, StepUpNext DEF IInv, Lost
      <4> QED BY <1>0, <3>2, <4>1, MoreSizes
    <3> QED BY <2>1, <3>1, <3>2
  <2>3. ASSUME pass' = 1 \/ pc' \in Layout
        PROVE  Len(bases') >= 1 /\ \A i \in 1..nextPsect' : i \in DOMAIN bases'[Len(bases')]
    <3>1. CASE pc \in Layout
      BY <1>0, <2>1, <2>3, <3>1 DEF AllSized
    <3>2. CASE pc \notin Layout
      <4>1. bases' = Append(bases, Sizes) /\ nextPsect' = nextPsect
        BY <2>1, <2>3, <3>2
      <4>2. Len(bases') = Len(bases) + 1 /\ bases'[Len(bases) + 1] = Sizes
        BY <1>0, <4>1
      <4>3. DOMAIN Sizes = 1..nextPsect
        BY DEF Sizes
      <4>4. Len(bases') >= 1
        BY <1>0, <4>2
      <4> QED BY <4>1, <4>2, <4>3, <4>4
    <3> QED BY <3>1, <3>2
  <2> QED BY <2>2, <2>3 DEF AllSized
<1> QED BY <1>1, <1>2 DEF IInv, TypeOK

-----------------------------------------------------------------------------
(* No module twice *)

LEMMA BeforeIsOther ==
  ASSUME NEW x \in Places, NEW y \in Places, Before(x, y)
  PROVE  x # y
BY DEF Before, Places

LEMMA ReadOnce == OInv /\ pass = 1 /\ pc \notin Lost => NoneTwice
<1> SUFFICES ASSUME OInv, pass = 1, pc \notin Lost PROVE NoneTwice
  OBVIOUS
<1>1. /\ loaded[1] \in Seq(Places) /\ Len(loaded[1]) \in Nat /\ Len(loaded[0]) \in Nat
      /\ \A j \in 1..Len(loaded[0]) : loaded[0][j] \in Places
  BY HistoryType DEF OInv
<1>2. /\ Len(loaded[1]) <= Len(loaded[0])
      /\ \A j \in 1..Len(loaded[1]) : loaded[1][j] = loaded[0][j]
  BY DEF OInv, Rereading
<1>3. ASSUME NEW j \in 1..Len(loaded[1]), NEW k \in 1..Len(loaded[1]), j < k
      PROVE  loaded[1][j] # loaded[1][k]
  <2>1. j \in 1..Len(loaded[0]) /\ k \in 1..Len(loaded[0])
    BY <1>1, <1>2
  <2>2. Before(loaded[0][j], loaded[0][k])
    BY <1>3, <2>1 DEF OInv, InOrder
  <2>3. loaded[0][j] # loaded[0][k]
    BY <1>1, <2>1, <2>2, BeforeIsOther
  <2> QED BY <1>2, <2>3
<1>4. ASSUME NEW j \in 1..Len(loaded[1]), NEW k \in 1..Len(loaded[1]), j # k
      PROVE  loaded[1][j] # loaded[1][k]
  <2>1. j < k \/ k < j
    BY <1>4
  <2> QED BY <1>3, <2>1
<1> QED BY <1>1, <1>4 DEF NoneTwice

LEMMA ReadOnceNext == (OInv /\ pass = 1 /\ pc \notin Lost => NoneTwice)'
BY ReadOnce, PTL

LEMMA OnceKept ==
  ASSUME IInv, OInv, OInv', TInv, pass' = 1, [Next]_vars
  PROVE  NoneTwice'
<1>1. CASE pass = 1 /\ loaded' = loaded
  BY <1>1 DEF TInv, NoneTwice
<1>2. CASE pass = 1 /\ loaded' # loaded
  <2>1. pc' = "rec"
    BY <1>2, Pass1Steps DEF SecondPass
  <2> QED BY <2>1, ReadOnceNext DEF Lost
<1>3. CASE pass = 0
  <2>1. pc = "place" /\ loaded' = loaded
    BY <1>3, Pass0Steps
  <2>2. loaded[1] = <<>>
    BY <1>3, <2>1 DEF OInv, PickedBehind, Lost
  <2> QED BY <2>1, <2>2 DEF NoneTwice
<1> QED BY <1>1, <1>2, <1>3 DEF IInv, TypeOK

-----------------------------------------------------------------------------
(* What was placed stays *)

LEMMA SameFromAll ==
  ASSUME SameEntries
  PROVE  PsectFrom' = PsectFrom
<1>1. \A f \in Nat : \A n \in Names : PsectsFrom(f, n)' = PsectsFrom(f, n)
  BY DEF SameEntries, SameNames, PsectsFrom
<1> QED BY <1>1 DEF PsectFrom

LEMMA PlaceKept ==
  ASSUME TypeOK, SizesGrow, SecondPass, NEW i \in 1..nextPsect, NEW k \in 1..Len(bases)
  PROVE  /\ Base'[k][i] = Base[k][i] /\ Origin(i)' = Origin(i) /\ PartAt(k, i)' = PartAt(k, i)
         /\ psectInfo'[i].name = psectInfo[i].name
<1>1. i \in 1..MaxPsects
  BY Typed
<1>2. Base'[k][i] = Base[k][i]
  BY <1>1, SameBase DEF SecondPass
<1>3. Origin(i)' = Origin(i) /\ psectInfo'[i].ovr = psectInfo[i].ovr /\ psectInfo'[i].name = psectInfo[i].name
  BY DEF Origin, SecondPass, SameEntries, SameNames
<1> QED BY <1>2, <1>3 DEF PartAt

LEMMA TextKept ==
  ASSUME IInv, OInv, SizesGrow, SecondPass, NEW o, TextMade(o)
  PROVE  TextMade(o)'
<1>1. PICK k \in 1..Len(loaded[1]) : TextIn(o, k)
  BY DEF TextMade
<1>2. /\ Len(loaded[1]) \in Nat /\ Len(loaded[1]) <= Len(loaded'[1])
      /\ loaded'[1][k] = loaded[1][k] /\ bases' = bases /\ Len(bases) \in Nat
  BY HistoryType DEF SecondPass, OInv, SizesGrow
<1>3. /\ k + 1 <= Len(bases) /\ o.mod = loaded[1][k] /\ o.psect \in 1..nextPsect
      /\ o.psect = PsectFrom[o.mod[1]][psectInfo[o.psect].name]
  BY <1>1 DEF TextIn
<1>4. k \in 1..Len(bases) /\ k + 1 \in 1..Len(bases)
  BY <1>2, <1>3
<1>5. /\ Base'[k + 1][o.psect] = Base[k + 1][o.psect]
      /\ Origin(o.psect)' = Origin(o.psect) /\ PartAt(k, o.psect)' = PartAt(k, o.psect)
      /\ psectInfo'[o.psect].name = psectInfo[o.psect].name
  BY <1>3, <1>4, PlaceKept DEF IInv
<1>6. /\ psectInfo'[o.psect].link = psectInfo[o.psect].link
      /\ psectInfo'[o.psect].load = psectInfo[o.psect].load
      /\ nextPsect' = nextPsect /\ job' = job
  BY <1>3 DEF SecondPass, SameEntries
<1>7. PsectFrom' = PsectFrom
  BY SameFromAll DEF SecondPass
<1>8. TextIn(o, k)'
  BY <1>1, <1>2, <1>5, <1>6, <1>7, Zenon DEF TextIn
<1>9. k \in 1..Len(loaded'[1])
  BY <1>2
<1> QED BY <1>8, <1>9 DEF TextMade

LEMMA FixKept ==
  ASSUME IInv, OInv, SizesGrow, SecondPass, NEW x, FixMade(x)
  PROVE  FixMade(x)'
<1> SUFFICES ASSUME x.kind \in {"RPSECT", "RRPSECT", "LOCAL"}
             PROVE  \E k \in 1..Len(loaded'[1]) : FixFor(x, k)'
  BY DEF FixMade
<1>1. PICK k \in 1..Len(loaded[1]) : FixFor(x, k)
  BY DEF FixMade
<1>2. /\ Len(loaded[1]) \in Nat /\ Len(loaded[1]) <= Len(loaded'[1])
      /\ loaded'[1][k] = loaded[1][k] /\ bases' = bases /\ Len(bases) \in Nat
      /\ nextPsect' = nextPsect /\ job' = job
  BY HistoryType DEF SecondPass, OInv, SizesGrow, SameEntries
<1>9. PICK i \in 1..nextPsect : i = PsectFrom[x.mod[1]][x.name]
  BY <1>1 DEF FixFor
<1>3. k + 1 <= Len(bases)
  BY <1>1 DEF FixFor
<1>4. k \in 1..Len(bases)
  BY <1>2, <1>3
<1>5. Base'[k][i] = Base[k][i] /\ Origin(i)' = Origin(i) /\ PartAt(k, i)' = PartAt(k, i)
  BY <1>4, PlaceKept DEF IInv
<1>6. PsectFrom' = PsectFrom
  BY SameFromAll DEF SecondPass
<1>7. FixFor(x, k)'
  BY <1>1, <1>2, <1>5, <1>6, <1>9, Zenon DEF FixFor
<1>8. k \in 1..Len(loaded'[1])
  BY <1>2
<1> QED BY <1>7, <1>8

-----------------------------------------------------------------------------
(* What the module that is read adds *)

LEMMA NowReading ==
  ASSUME IInv, OInv, SInv, pass = 1, pc = "rec", NEW k, k = Len(loaded[1])
  PROVE  /\ k \in 1..Len(loaded[1]) /\ k \in Nat /\ k + 1 <= Len(bases) /\ Len(bases) \in Nat
         /\ k \in 1..Len(bases) /\ k + 1 \in 1..Len(bases)
         /\ loaded[1][k] = <<fileIdx, modIdx>>
         /\ k \in 1..Completed /\ loaded[0][k] = <<fileIdx, modIdx>>
         /\ \A i \in 1..nextPsect : psectInfo[i].blk = Base[k][i] /\ Base[k][i] \in Nat
<1>1. /\ loaded[1] \in Seq(Places) /\ k \in Nat /\ Len(loaded[0]) \in Nat
      /\ loaded[1] # <<>> /\ loaded[1][k] = <<fileIdx, modIdx>>
  BY HistoryType DEF OInv, EnteredLast
<1>2. k >= 1
  BY <1>1
<1>3. k <= Len(loaded[0]) /\ \A m \in 1..k : loaded[1][m] = loaded[0][m]
  BY DEF OInv, Rereading, Lost
<1>4. BasesType /\ SizesFit
  BY DEF SInv, Lost
<1>5. Len(bases) = Len(loaded[0]) + 1
  BY <1>4 DEF BasesType, InPass0
<1>6. Completed = Len(loaded[0])
  BY DEF Completed
<1>7. k \in 1..Len(bases) /\ k + 1 \in 1..Len(bases)
  BY <1>1, <1>2, <1>3, <1>5
<1>8. ASSUME NEW i \in 1..nextPsect
      PROVE  psectInfo[i].blk = Base[k][i] /\ Base[k][i] \in Nat
  <2>1. i \in 1..MaxPsects
    BY Typed DEF IInv
  <2>2. psectInfo[i].blk = Base[k][i]
    BY <1>4 DEF SizesFit
  <2> QED BY <1>4, <1>7, <2>1, <2>2, BaseIs DEF IInv
<1> QED BY <1>1, <1>2, <1>3, <1>5, <1>6, <1>7, <1>8

LEMMA SlotHere ==
  ASSUME IInv, NEW n \in Names, NEW i, i = Slot(n, "PSECT"), i # 0
  PROVE  /\ i \in 1..nextPsect /\ i \in 1..MaxPsects /\ psectInfo[i] \in PsectEntry
         /\ psectInfo[i].name = n /\ i = PsectFrom[fileIdx][n]
<1>1. fileIdx \in Nat
  BY DEF IInv, TypeOK
<1>2. i = PsectFrom[fileIdx][n]
  BY <1>1, SlotIs
<1>3. i \in PsectsFrom(fileIdx, n) /\ i \in 0..nextPsect /\ nextPsect \in Nat
  BY <1>1, <1>2, PsectFromIs DEF IInv
<1>4. psectInfo[i].name = n
  BY <1>3 DEF PsectsFrom
<1>5. i \in 1..nextPsect
  BY <1>3
<1> QED BY <1>2, <1>4, <1>5, Typed DEF IInv

\* the record that pass 1 reads is one of those before END that pass 0 read
LEMMA ReadAgain ==
  ASSUME IInv, OInv, SInv, pass = 1, pc = "rec", recIdx <= Len(CurMod.recs), Rec.t # "END",
         NEW x \in Places, x = <<fileIdx, modIdx>>, NEW n \in Nat, EndAt(RecsOf(x), n + 1)
  PROVE  recIdx \in 1..n /\ RecsOf(x)[recIdx] = Rec
<1>1. recIdx \in Nat \ {0} /\ RecsOf(x) = CurMod.recs /\ Len(RecsOf(x)) \in Nat
  BY HereIs, ValidRecs DEF IInv, TypeOK
<1>2. RecsOf(x)[recIdx] = Rec
  BY <1>1 DEF Rec
<1>3. PICK m \in Nat : recIdx = m + 1
  BY <1>1
<1>4. ReadSoFar(x, m)
  BY <1>3 DEF SInv, Lost, EndsFit
<1>5. \A j \in 1..m : InBody(RecsOf(x), j)
  BY <1>4 DEF ReadSoFar
<1>6. ASSUME n + 1 <= m PROVE FALSE
  <2>1. InBody(RecsOf(x), n + 1) /\ n + 1 \in 1..(n + 1)
    BY <1>5, <1>6
  <2> QED BY <2>1 DEF InBody, EndAt
<1>7. n + 1 # recIdx
  BY <1>2 DEF EndAt
<1> QED BY <1>2, <1>3, <1>6, <1>7

LEMMA GrowsEnough ==
  ASSUME NEW size \in Nat, NEW e \in Nat, NEW off \in Nat, NEW len \in Nat, off + len <= e,
         NEW over, NEW ovr, ovr <=> over
  PROVE  off + len + (IF ovr THEN 0 ELSE size) <= GrowBy(over, size, e)
<1>1. CASE over
  BY <1>1 DEF GrowBy
<1>2. CASE ~over
  BY <1>2 DEF GrowBy
<1> QED BY <1>1, <1>2

\* the next module finds the psect large enough for a text of this one
LEMMA LongEnough ==
  ASSUME IInv, CInv, OInv, SInv, OverlaysDeclared, pass = 1, pc = "rec",
         recIdx <= Len(CurMod.recs), Rec.t = "TEXT", NEW k, k = Len(loaded[1]),
         NEW i \in 1..nextPsect, i = PsectFrom[fileIdx][Rec.psect]
  PROVE  Rec.off + Rec.len + (IF psectInfo[i].ovr THEN 0 ELSE Base[k][i]) <= Base[k + 1][i]
<1>1. /\ <<fileIdx, modIdx>> \in Places /\ Valid(<<fileIdx, modIdx>>)
      /\ RecsOf(<<fileIdx, modIdx>>) = CurMod.recs
  BY HereIs DEF IInv
<1>2. PICK x \in Places : x = <<fileIdx, modIdx>>
  BY <1>1
<1>3. /\ k \in 1..Completed /\ loaded[0][k] = x /\ Base[k][i] \in Nat /\ k \in Nat
  BY <1>2, NowReading
<1>4. Effect(x, k)
  BY <1>3 DEF SInv, Lost, Effects
<1>5. PICK n \in Nat : /\ EndAt(RecsOf(x), n + 1)
                       /\ \A j \in 1..n : Found(x, j)
                       /\ \A m \in 1..nextPsect : \E e \in Nat :
                            /\ IsLongest(e, TextEnds(x, n, m))
                            /\ Base[k + 1][m] = GrowBy(Over(m), Base[k][m], e)
  BY <1>4 DEF Effect
<1>6. recIdx \in 1..n /\ RecsOf(x)[recIdx] = Rec
  BY <1>2, <1>5, ReadAgain
<1>7. Valid(x) /\ n <= Len(RecsOf(x)) /\ \A j \in 1..n : j \in 1..Len(RecsOf(x))
  <2>1. Valid(x) /\ Len(RecsOf(x)) \in Nat
    BY <1>1, <1>2, ValidRecs DEF IInv
  <2>2. n + 1 \in 1..Len(RecsOf(x))
    BY <1>5 DEF EndAt
  <2> QED BY <2>1, <2>2
<1>8. \A j \in 1..n : InBody(RecsOf(x), j) /\ Found(x, j)
  <2>1. \A j \in 1..n : RecsOf(x)[j].t # "END"
    BY <1>5 DEF Found
  <2> QED BY <1>5, <1>7, <2>1 DEF InBody
<1>9. psectInfo[i].ovr <=> Over(i)
  <2>1. Entries /\ OvrDeclared /\ i = PsectFrom[x[1]][RecsOf(x)[recIdx].psect]
    BY <1>2, <1>6 DEF CInv, SInv, Lost
  <2> QED BY <1>5, <1>6, <1>7, <1>8, <2>1, OverIsOvr DEF IInv
<1>10. PICK e \in Nat : /\ IsLongest(e, TextEnds(x, n, i))
                        /\ Base[k + 1][i] = GrowBy(Over(i), Base[k][i], e)
  BY <1>5
<1>11. Rec.off + Rec.len \in TextEnds(x, n, i)
  <2>1. recIdx \in TextsOf(x, n, i)
    BY <1>2, <1>6 DEF TextsOf
  <2> QED BY <1>6, <2>1 DEF TextEnds
<1>12. Rec.off + Rec.len <= e /\ Rec.off \in Nat /\ Rec.len \in Nat
  BY <1>6, <1>7, <1>10, <1>11, ValidRecs DEF IsLongest, IInv
<1>13. Base[k][i] \in Nat /\ Rec.off \in Nat /\ Rec.len \in Nat /\ Rec.off + Rec.len <= e
  BY <1>3, <1>12
<1>14. Rec.off + Rec.len + (IF psectInfo[i].ovr THEN 0 ELSE Base[k][i])
         <= GrowBy(Over(i), Base[k][i], e)
  BY <1>9, <1>13, GrowsEnough, Zenon
<1> QED BY <1>10, <1>14

LEMMA TextAdded ==
  ASSUME IInv, CInv, OInv, SInv, OverlaysDeclared, TextRecPass2, NEW o \in out' \ out
  PROVE  TextMade(o)
<1> DEFINE i == Slot(Rec.psect, "PSECT")
           k == Len(loaded[1])
           at == IF job.R THEN 0 ELSE psectInfo[i].link
           ld == IF job.R THEN 0 ELSE psectInfo[i].load
           tb == IF psectInfo[i].ovr THEN 0 ELSE psectInfo[i].blk
           off == Rec.off
           len == Rec.len
<1>1. /\ pass = 1 /\ pc = "rec" /\ recIdx <= Len(CurMod.recs) /\ Rec.t = "TEXT" /\ i # 0
      /\ o = [mod |-> <<fileIdx, modIdx>>, psect |-> i, base |-> (off + tb + at) - off,
              link |-> off + tb + at, load |-> off + tb + ld, len |-> len]
  <2>3. pass = 1 /\ pc = "rec" /\ recIdx <= Len(CurMod.recs) /\ Rec.t = "TEXT" /\ i # 0
    BY DEF TextRecPass2, Reading
  <2>1. out' = out \cup
             {[mod |-> <<fileIdx, modIdx>>, psect |-> i, base |-> (off + TextBlock(i) + at) - off,
               link |-> off + TextBlock(i) + at, load |-> off + TextBlock(i) + ld, len |-> len]}
    BY DEF TextRecPass2
  <2>2. TextBlock(i) = tb
    BY DEF TextBlock
  <2> HIDE DEF i, at, ld, tb, off, len
  <2> QED BY <2>1, <2>2, <2>3
<1>2. Rec.psect \in Names /\ off \in Nat /\ len \in Nat
  BY <1>1, ReadingRec, RecordFields DEF IInv, Names
<1>3. /\ i \in 1..nextPsect /\ psectInfo[i] \in PsectEntry
      /\ psectInfo[i].name = Rec.psect /\ i = PsectFrom[fileIdx][Rec.psect]
  BY <1>1, <1>2, SlotHere
<1>4. /\ k \in 1..Len(loaded[1]) /\ k + 1 <= Len(bases) /\ loaded[1][k] = <<fileIdx, modIdx>>
      /\ psectInfo[i].blk = Base[k][i] /\ Base[k][i] \in Nat
      /\ k \in 1..Len(bases) /\ k + 1 \in 1..Len(bases)
  BY <1>1, <1>3, NowReading
<1>5. off + len + tb <= Base[k + 1][i]
  <2>1. off + len + (IF psectInfo[i].ovr THEN 0 ELSE Base[k][i]) <= Base[k + 1][i]
    BY <1>1, <1>3, LongEnough
  <2> QED BY <1>4, <2>1
<1>6. at \in Nat /\ ld \in Nat /\ tb \in Nat /\ Base[k + 1][i] \in Nat
  <2>1. Base[k + 1][i] \in Nat
    <3>1. BasesType /\ i \in 1..MaxPsects
      BY <1>1, <1>3, Typed DEF SInv, Lost, IInv
    <3> QED BY <1>4, <3>1, BaseIs DEF IInv
  <2>2. psectInfo[i].link \in Nat /\ psectInfo[i].load \in Nat /\ psectInfo[i].blk \in Nat
    BY <1>3 DEF PsectEntry
  <2> QED BY <2>1, <2>2
<1>7. /\ at = Origin(i) /\ at + tb = PartAt(k, i)
  BY <1>4 DEF Origin, PartAt
<1>8. ~job.R => at = psectInfo[i].link /\ ld = psectInfo[i].load
  OBVIOUS
<1> HIDE DEF at, ld, tb, i, off, len, k
<1>9. /\ o.mod = <<fileIdx, modIdx>> /\ o.psect = i /\ o.len = len
      /\ o.base = at + tb /\ o.link = off + tb + at /\ o.load = off + tb + ld
  <2>1. (off + tb + at) - off = at + tb
    BY <1>2, <1>6
  <2> QED BY <1>1, <2>1
<1>10. o.mod = loaded[1][k] /\ o.psect \in 1..nextPsect
  BY <1>3, <1>4, <1>9
<1>11. o.psect = PsectFrom[o.mod[1]][psectInfo[o.psect].name]
  BY <1>3, <1>9
<1>12. o.base = PartAt(k, o.psect)
  BY <1>7, <1>9
<1>13. o.base \in Nat /\ o.link \in Nat /\ o.len \in Nat /\ o.base <= o.link
  BY <1>2, <1>6, <1>9
<1>14. o.link + o.len <= Origin(o.psect) + Base[k + 1][o.psect]
  <2>1. (off + tb + at) + len <= at + Base[k + 1][i]
    BY <1>2, <1>5, <1>6
  <2> QED BY <1>7, <1>9, <2>1
<1>15. job.R \/ o.load - psectInfo[o.psect].load = o.link - psectInfo[o.psect].link
  <2>1. (off + tb + ld) - ld = (off + tb + at) - at
    BY <1>2, <1>6
  <2> QED BY <1>8, <1>9, <2>1
<1>16. TextIn(o, k)
  BY <1>4, <1>10, <1>11, <1>12, <1>13, <1>14, <1>15 DEF TextIn
<1> QED BY <1>4, <1>16 DEF TextMade

\* a field that relocRecPass2 has relocated by a psect
LEMMA FixAdded ==
  ASSUME IInv, OInv, SInv, RelocRecPass2, NEW x \in fixes' \ fixes
  PROVE  FixMade(x)
<1> SUFFICES ASSUME x.kind \in {"RPSECT", "RRPSECT", "LOCAL"}
             PROVE  \E k \in 1..Len(loaded[1]) : FixFor(x, k)
  BY DEF FixMade
<1> DEFINE i == Slot(Rec.name, "PSECT")
           k == Len(loaded[1])
           at == text.base + Rec.off
<1>1. /\ pass = 1 /\ pc = "rec" /\ recIdx <= Len(CurMod.recs) /\ Rec.t = "RELOC"
      /\ NamesSymbol \/ i # 0
  BY DEF RelocRecPass2, Reading
<1>2. x = [mod |-> <<fileIdx, modIdx>>, kind |-> Rec.kind, name |-> Rec.name, at |-> at,
           add |-> Rec.add, field |-> Resolved(Rec.add, Deltas)]
  BY DEF RelocRecPass2, Fatal, outVars
<1>3. x.kind = Rec.kind /\ x.name = Rec.name /\ x.mod = <<fileIdx, modIdx>> /\ x.at = at
      /\ x.add = Rec.add /\ x.field = Resolved(Rec.add, Deltas)
  BY <1>2
<1>4. Rec \in Record
  BY <1>1, ReadingRec DEF IInv
<1>5. Rec.kind \in {"RPSECT", "RRPSECT"} /\ ~NamesSymbol /\ i # 0
  <2>1. Rec.kind # "LOCAL"
    BY <1>1, <1>4 DEF Record
  <2>2. Rec.kind \in {"RPSECT", "RRPSECT"}
    BY <1>3, <2>1
  <2>3. ~NamesSymbol
    BY <2>2 DEF NamesSymbol
  <2> QED BY <1>1, <2>2, <2>3
<1>6. Rec.name \in Names /\ Rec.off \in Nat /\ Rec.add \in Int
  BY <1>1, <1>4, <1>5 DEF Record, Names
<1>7. /\ i \in 1..nextPsect /\ psectInfo[i] \in PsectEntry
      /\ psectInfo[i].name = Rec.name /\ i = PsectFrom[fileIdx][Rec.name]
  BY <1>5, <1>6, SlotHere
<1>8. /\ k \in 1..Len(loaded[1]) /\ k + 1 <= Len(bases) /\ loaded[1][k] = <<fileIdx, modIdx>>
      /\ psectInfo[i].blk = Base[k][i] /\ Base[k][i] \in Nat
  BY <1>1, <1>7, NowReading
<1>9. PsectBase(i) = Origin(i) + Base[k][i] /\ Origin(i) \in Nat /\ PsectBase(i) \in Nat
  <2>1. Origin(i) \in Nat
    BY <1>7 DEF Origin, PsectEntry
  <2>2. PsectBase(i) = Base[k][i] + Origin(i)
    BY <1>8 DEF PsectBase, Origin
  <2> QED BY <1>8, <2>1, <2>2
<1>10. at \in Nat
  BY <1>6 DEF IInv, TypeOK
<1> HIDE DEF i, k, at
<1>11. ASSUME x.kind = "RPSECT"
       PROVE  x.field = (Origin(i) + Base[k][i] + x.add) % Field
  <2>1. Deltas = <<PsectBase(i)>>
    <3>1. Rec.kind = "RPSECT"
      BY <1>3, <1>11
    <3> QED BY <1>5, <3>1 DEF Deltas, i
  <2>2. Resolved(Rec.add, <<PsectBase(i)>>) = (Rec.add + PsectBase(i) + 0) % Field
    BY DEF Resolved
  <2>3. Rec.add + PsectBase(i) + 0 = Origin(i) + Base[k][i] + Rec.add
    BY <1>6, <1>8, <1>9
  <2> QED BY <1>3, <2>1, <2>2, <2>3
<1>12. ASSUME x.kind = "RRPSECT", ~job.R
       PROVE  x.field = (Origin(i) + Base[k][i] + x.add - x.at) % Field
  <2>1. Deltas = <<PsectBase(i) - at>>
    <3>1. Rec.kind = "RRPSECT"
      BY <1>3, <1>12
    <3> QED BY <1>12, <3>1 DEF Deltas, i, at
  <2>2. Resolved(Rec.add, <<PsectBase(i) - at>>) = (Rec.add + (PsectBase(i) - at) + 0) % Field
    BY DEF Resolved
  <2>3. Rec.add + (PsectBase(i) - at) + 0 = Origin(i) + Base[k][i] + Rec.add - at
    <3>1. \A a, t, o, b \in Int : a + ((o + b) - t) + 0 = o + b + a - t
      OBVIOUS
    <3>2. Rec.add \in Int /\ at \in Int /\ Origin(i) \in Int /\ Base[k][i] \in Int
      BY <1>6, <1>8, <1>9, <1>10
    <3>3. Rec.add + ((Origin(i) + Base[k][i]) - at) + 0 = Origin(i) + Base[k][i] + Rec.add - at
      BY <3>1, <3>2
    <3> QED BY <1>9, <3>3
  <2> QED BY <1>3, <2>1, <2>2, <2>3
<1>13. x.kind # "LOCAL"
  BY <1>3, <1>5
<1>14. PsectFrom[x.mod[1]][x.name] = i
  BY <1>3, <1>7
<1>15. FixFor(x, k)
  BY <1>3, <1>6, <1>7, <1>8, <1>11, <1>12, <1>13, <1>14 DEF FixFor
<1> QED BY <1>8, <1>15

\* a local address that symRecPass2 writes
LEMMA LocalAdded ==
  ASSUME IInv, OInv, SInv, SymRecPass2, NEW x \in fixes' \ fixes
  PROVE  FixMade(x)
<1> DEFINE i == Slot(Rec.psect, "PSECT")
           k == Len(loaded[1])
<1>1. /\ pass = 1 /\ pc = "rec" /\ recIdx <= Len(CurMod.recs) /\ Rec.t = "SYM"
      /\ Rec.low = "NULL" /\ i # 0
      /\ x = [mod |-> <<fileIdx, modIdx>>, kind |-> "LOCAL", name |-> Rec.psect, at |-> 0,
              add |-> Rec.val, field |-> Rec.val + LocalBase(i)]
  BY DEF SymRecPass2, Reading
<1>2. Rec.psect \in Names /\ Rec.val \in Nat
  BY <1>1, ReadingRec, RecordFields DEF IInv, Names
<1>3. /\ i \in 1..nextPsect /\ psectInfo[i] \in PsectEntry
      /\ psectInfo[i].name = Rec.psect /\ i = PsectFrom[fileIdx][Rec.psect]
  BY <1>1, <1>2, SlotHere
<1>4. /\ k \in 1..Len(loaded[1]) /\ k + 1 <= Len(bases) /\ loaded[1][k] = <<fileIdx, modIdx>>
      /\ psectInfo[i].blk = Base[k][i] /\ Base[k][i] \in Nat
  BY <1>1, <1>3, NowReading
<1>5. LocalBase(i) = PartAt(k, i) /\ LocalBase(i) \in Nat
  <2>1. psectInfo[i].link \in Nat /\ psectInfo[i].blk \in Nat
    BY <1>3 DEF PsectEntry
  <2>2. Origin(i) \in Nat /\ TextBlock(i) \in Nat
    BY <2>1 DEF Origin, TextBlock
  <2>3. LocalBase(i) = TextBlock(i) + Origin(i)
    BY DEF LocalBase, Origin
  <2>4. TextBlock(i) = IF psectInfo[i].ovr THEN 0 ELSE Base[k][i]
    BY <1>4 DEF TextBlock
  <2>5. PartAt(k, i) = Origin(i) + TextBlock(i)
    BY <2>4 DEF PartAt
  <2> QED BY <2>2, <2>3, <2>5
<1> HIDE DEF i, k
<1>6. /\ x.mod = <<fileIdx, modIdx>> /\ x.kind = "LOCAL" /\ x.name = Rec.psect
      /\ x.add = Rec.val /\ x.field = Rec.val + LocalBase(i)
  BY <1>1
<1>7. x.field = PartAt(k, i) + x.add
  BY <1>2, <1>5, <1>6
<1>8. FixFor(x, k)
  BY <1>2, <1>3, <1>4, <1>6, <1>7 DEF FixFor
<1> QED BY <1>4, <1>8 DEF FixMade

LEMMA OutGrows ==
  ASSUME IInv, OInv, pass = 1, [Next]_vars
  PROVE  (out' = out \/ TextRecPass2) /\ (fixes' = fixes \/ RelocRecPass2 \/ SymRecPass2)
<1>1. pc \notin Layout
  BY DEF OInv, Whereabouts
<1>2. CASE TextRecPass2
  BY <1>2 DEF TextRecPass2
<1>3. CASE RelocRecPass2 \/ SymRecPass2
  BY <1>3 DEF RelocRecPass2, SymRecPass2, Fatal, outVars
<1>4. CASE StartRecPass2 \/ SkipRec \/ NoEndRecord \/ CloseLibrary \/ FinPass2 \/ UNCHANGED vars
  BY <1>4 DEF StartRecPass2, SkipRec, NoEndRecord, CloseLibrary, FinPass2, Fatal, outVars, vars
<1>5. CASE OpenFile \/ DoModule \/ EndRec
  BY <1>5 DEF OpenFile, DoModule, EndRec, Fatal, outVars
<1>6. ~ScanModule /\ ~Pass1Rec /\ ~FinPass1
  BY DEF ScanModule, FinPass1, Pass1Rec, IdentRec, PsectRec, XpsectRec, TextRecPass1,
     RelocRecPass1, SymExternPass1, SymCommPass1, SymNullPass1, Reading
<1>7. LayoutStep /\ ~FinPass1 => pc \in Layout
  BY DEF LayoutStep, PlaceSpecPsect, PlaceSpecClass, PlaceClassMember, SkipClassMember,
     SpecUnknown, SpecDone, PlaceReloc, PlacePsect, PlaceClass, PlaceStray, PlaceClassDone,
     RelocateSymbols, CommonCrash, KeepRelocatable, Layout
<1> QED BY <1>1, <1>2, <1>3, <1>4, <1>5, <1>6, <1>7
        DEF Next, Step, Exited, ReadStep, Pass2Rec

-----------------------------------------------------------------------------
(* The steps of the linker *)

LEMMA InitText == Init => TInv
<1> SUFFICES ASSUME Init PROVE TInv
  OBVIOUS
<1>1. pass = 0 /\ pc = "open" /\ out = {} /\ fixes = {} /\ bases = <<>>
  BY DEF Init
<1> QED BY <1>1 DEF TInv, SizesGrow, AllSized, Layout

LEMMA NextText ==
  ASSUME IInv, IInv', CInv, OInv, OInv', SInv, SInv', TInv, OverlaysDeclared, [Next]_vars
  PROVE  TInv'
<1>1. SizesGrow' /\ AllSized'
  BY SizedKept
<1>2. CASE pass = 0
  <2>1. out' = {} /\ fixes' = {}
    BY <1>2, Pass0Steps DEF TInv
  <2>2. pass' = 1 => NoneTwice'
    BY OnceKept
  <2> QED BY <1>1, <2>1, <2>2 DEF TInv
<1>3. CASE pass = 1
  <2>1. SecondPass /\ pass' = 1 /\ SizesGrow
    BY <1>3, Pass1Steps DEF SecondPass, TInv
  <2>2. NoneTwice'
    BY <2>1, OnceKept
  <2>3. ASSUME NEW o \in out' PROVE TextMade(o)'
    <3>1. CASE o \in out
      <4>1. TextMade(o)
        BY <1>3, <3>1 DEF TInv
      <4> QED BY <2>1, <4>1, TextKept
    <3>2. CASE o \notin out
      <4>1. TextMade(o)
        BY <1>3, <3>2, OutGrows, TextAdded
      <4> QED BY <2>1, <4>1, TextKept
    <3> QED BY <3>1, <3>2
  <2>4. ASSUME NEW x \in fixes' PROVE FixMade(x)'
    <3>1. CASE x \in fixes
      <4>1. FixMade(x)
        BY <1>3, <3>1 DEF TInv
      <4> QED BY <2>1, <4>1, FixKept
    <3>2. CASE x \notin fixes
      <4>1. FixMade(x)
        BY <1>3, <3>2, OutGrows, FixAdded, LocalAdded
      <4> QED BY <2>1, <4>1, FixKept
    <3> QED BY <3>1, <3>2
  <2> QED BY <1>1, <2>1, <2>2, <2>3, <2>4 DEF TInv
<1> QED BY <1>2, <1>3 DEF IInv, TypeOK

-----------------------------------------------------------------------------
(* What it says of the output *)

LEMMA Behind ==
  ASSUME NEW at \in Nat, NEW end \in Nat, NEW start \in Nat, NEW link \in Nat, NEW len \in Nat,
         NEW next \in Nat, NEW base, link + len <= at + end, end <= start,
         base = at + start, base <= next
  PROVE  link + len <= next
OBVIOUS

LEMMA TextInside == IInv /\ TInv => TextInPsect
<1> SUFFICES ASSUME IInv, TInv, NEW o \in out
             PROVE  LET p == psectInfo[o.psect]
                        at == IF job.R THEN 0 ELSE p.link
                    IN /\ at <= o.link /\ o.link + o.len <= at + Total(o.psect)
                       /\ job.R \/ o.load - p.load = o.link - p.link
  BY DEF TextInPsect
<1> DEFINE i == o.psect
           n == Len(bases)
<1>1. pass = 1
  BY DEF TInv, IInv, TypeOK
<1>2. PICK k \in 1..Len(loaded[1]) : TextIn(o, k)
  BY <1>1 DEF TInv, TextMade
<1>3. /\ k + 1 <= n /\ i \in 1..nextPsect /\ o.base = PartAt(k, i)
      /\ o.base \in Nat /\ o.link \in Nat /\ o.len \in Nat /\ o.base <= o.link
      /\ o.link + o.len <= Origin(i) + Base[k + 1][i]
      /\ job.R \/ o.load - psectInfo[i].load = o.link - psectInfo[i].link
  BY <1>2 DEF TextIn
<1>4. i \in 1..MaxPsects /\ psectInfo[i] \in PsectEntry
  BY <1>3, Typed DEF IInv
<1>5. /\ n \in Nat /\ DOMAIN bases = 1..n /\ k \in Nat /\ k \in 1..n /\ k + 1 \in 1..n /\ n \in 1..n
      /\ \A m \in 1..n : Base[m][i] \in Nat
      /\ \A j, m \in 1..n : j <= m => Base[j][i] <= Base[m][i]
  <2>1. /\ n \in Nat /\ DOMAIN bases = 1..n
        /\ \A m \in 1..n : Base[m][i] \in Nat
        /\ \A j, m \in 1..n : j <= m => Base[j][i] <= Base[m][i]
    BY <1>4 DEF TInv, SizesGrow
  <2>2. loaded[1] \in Seq(Places)
    BY <1>1 DEF TInv, NoneTwice
  <2>3. k \in Nat /\ k >= 1
    BY <2>2
  <2> QED BY <1>3, <2>1, <2>3
<1>6. Base[n][i] = Total(i)
  <2>1. i \in DOMAIN bases[n]
    BY <1>1, <1>3 DEF TInv, AllSized
  <2>2. Base[n][i] = bases[n][i]
    BY <1>4, <1>5, <2>1 DEF Base
  <2> QED BY <2>2 DEF Total
<1>7. Base[k + 1][i] <= Base[n][i]
  BY <1>3, <1>5
<1>8. Origin(i) \in Nat /\ Origin(i) <= PartAt(k, i)
  <2>1. Origin(i) \in Nat
    BY <1>4 DEF Origin, PsectEntry
  <2>2. Base[k][i] \in Nat
    BY <1>5
  <2> QED BY <2>1, <2>2 DEF PartAt
<1>9. Origin(i) <= o.link /\ o.link + o.len <= Origin(i) + Total(i)
  <2>1. Base[k + 1][i] \in Nat /\ Base[n][i] \in Nat
    BY <1>5
  <2> HIDE DEF i, n
  <2>2. Total(i) \in Nat /\ Base[k + 1][i] <= Total(i) /\ Origin(i) <= o.base
    BY <1>3, <1>6, <1>7, <1>8, <2>1
  <2>3. /\ Origin(i) \in Nat /\ o.base \in Nat /\ o.link \in Nat /\ o.len \in Nat
        /\ o.base <= o.link /\ o.link + o.len <= Origin(i) + Base[k + 1][i]
    BY <1>3, <1>8
  <2> DEFINE at == Origin(i)
             base == o.base
             link == o.link
             len == o.len
             part == Base[k + 1][i]
             total == Total(i)
  <2>4. /\ at \in Nat /\ base \in Nat /\ link \in Nat /\ len \in Nat /\ part \in Nat /\ total \in Nat
        /\ at <= base /\ base <= link /\ link + len <= at + part /\ part <= total
    BY <2>1, <2>2, <2>3
  <2> HIDE DEF at, base, link, len, part, total
  <2>5. at <= link /\ link + len <= at + total
    BY <2>4
  <2> QED BY <2>5 DEF at, link, len, total
<1> QED BY <1>3, <1>9 DEF Origin

LEMMA TextApart == IInv /\ TInv => NoTextClash
<1> SUFFICES ASSUME IInv, TInv, NEW o \in out, NEW q \in out,
                    o.mod # q.mod, o.psect = q.psect, ~psectInfo[o.psect].ovr
             PROVE  o.link + o.len <= q.link \/ q.link + q.len <= o.link
  BY DEF NoTextClash
<1> DEFINE i == o.psect
           n == Len(bases)
<1>1. pass = 1
  BY DEF TInv, IInv, TypeOK
<1>2. PICK k \in 1..Len(loaded[1]) : TextIn(o, k)
  BY <1>1 DEF TInv, TextMade
<1>3. PICK m \in 1..Len(loaded[1]) : TextIn(q, m)
  BY <1>1 DEF TInv, TextMade
<1>4. /\ k + 1 <= n /\ o.mod = loaded[1][k] /\ i \in 1..nextPsect /\ o.base = Origin(i) + Base[k][i]
      /\ o.link \in Nat /\ o.len \in Nat /\ o.base <= o.link
      /\ o.link + o.len <= Origin(i) + Base[k + 1][i]
  BY <1>2 DEF TextIn, PartAt
<1>5. /\ m + 1 <= n /\ q.mod = loaded[1][m] /\ q.base = Origin(i) + Base[m][i]
      /\ q.link \in Nat /\ q.len \in Nat /\ q.base <= q.link
      /\ q.link + q.len <= Origin(i) + Base[m + 1][i]
  BY <1>3 DEF TextIn, PartAt
<1>6. i \in 1..MaxPsects /\ Origin(i) \in Nat
  BY <1>4, Typed DEF IInv, Origin, PsectEntry
<1>7. /\ n \in Nat
      /\ \A j \in 1..n : Base[j][i] \in Nat
      /\ \A j, h \in 1..n : j <= h => Base[j][i] <= Base[h][i]
  BY <1>6 DEF TInv, SizesGrow
<1>8. k \in Nat /\ m \in Nat /\ k >= 1 /\ m >= 1 /\ k # m
  <2>1. loaded[1] \in Seq(Places)
    BY <1>1 DEF TInv, NoneTwice
  <2> QED BY <1>4, <1>5, <2>1
<1>9. /\ k \in 1..n /\ k + 1 \in 1..n /\ m \in 1..n /\ m + 1 \in 1..n
  BY <1>4, <1>5, <1>7, <1>8
<1>10. /\ Base[k][i] \in Nat /\ Base[k + 1][i] \in Nat /\ Base[m][i] \in Nat /\ Base[m + 1][i] \in Nat
       /\ k < m => Base[k + 1][i] <= Base[m][i]
       /\ m < k => Base[m + 1][i] <= Base[k][i]
  BY <1>7, <1>8, <1>9
<1> HIDE DEF i, n
<1>11. CASE k < m
  BY <1>4, <1>5, <1>6, <1>10, <1>11, Behind
<1>12. CASE m < k
  BY <1>4, <1>5, <1>6, <1>10, <1>12, Behind
<1> QED BY <1>8, <1>11, <1>12

LEMMA RelocFollows == IInv /\ TInv => RelocFollowsText
<1> SUFFICES ASSUME IInv, TInv, NEW x \in fixes, NEW o \in out, x.mod = o.mod,
                    x.name = psectInfo[o.psect].name, ~psectInfo[o.psect].ovr
             PROVE  /\ x.kind = "RPSECT" => x.field = (o.base + x.add) % Field
                    /\ x.kind = "RRPSECT" /\ ~job.R => x.field = (o.base + x.add - x.at) % Field
                    /\ x.kind = "LOCAL" => x.field = o.base + x.add
  BY DEF RelocFollowsText
<1> SUFFICES ASSUME x.kind \in {"RPSECT", "RRPSECT", "LOCAL"}
             PROVE  /\ x.kind = "RPSECT" => x.field = (o.base + x.add) % Field
                    /\ x.kind = "RRPSECT" /\ ~job.R => x.field = (o.base + x.add - x.at) % Field
                    /\ x.kind = "LOCAL" => x.field = o.base + x.add
  OBVIOUS
<1> DEFINE i == o.psect
<1>1. pass = 1
  BY DEF TInv, IInv, TypeOK
<1>2. PICK k \in 1..Len(loaded[1]) : TextIn(o, k)
  BY <1>1 DEF TInv, TextMade
<1>3. PICK m \in 1..Len(loaded[1]) : FixFor(x, m)
  BY <1>1 DEF TInv, FixMade
<1>4. k = m
  <2>1. o.mod = loaded[1][k] /\ x.mod = loaded[1][m]
    BY <1>2, <1>3 DEF TextIn, FixFor
  <2> QED BY <1>1, <2>1 DEF TInv, NoneTwice
<1>5. i = PsectFrom[x.mod[1]][x.name] /\ o.base = Origin(i) + Base[k][i]
  BY <1>2 DEF TextIn, PartAt
<1>6. /\ x.kind = "RPSECT" => x.field = (Origin(i) + Base[k][i] + x.add) % Field
      /\ x.kind = "RRPSECT" /\ ~job.R => x.field = (Origin(i) + Base[k][i] + x.add - x.at) % Field
      /\ x.kind = "LOCAL" => x.field = Origin(i) + Base[k][i] + x.add
  BY <1>3, <1>4, <1>5 DEF FixFor, PartAt
<1> HIDE DEF i
<1> QED BY <1>5, <1>6

-----------------------------------------------------------------------------
(* What the addresses of symbols are made of *)

\* Names keep their meaning, and sizes that were noted are not noted again.
Keeps ==
  /\ Grows /\ \A f \in Nat : KeepsFrom(f)
  /\ bases' = bases \/ (bases' = Append(bases, Sizes) /\ InPass0)
  /\ \A i \in 1..nextPsect' :
       InPass0' /\ Over(i)' /\ ~psectInfo'[i].ovr => psectInfo'[i].blk = 0

LEMMA BasesStay ==
  ASSUME TypeOK, TypeOK', BasesType, Keeps, NEW k \in 1..Len(bases), NEW i \in 1..MaxPsects
  PROVE  /\ Base'[k][i] = Base[k][i] /\ k \in Nat
         /\ Base[k][i] = IF i \in DOMAIN bases[k] THEN bases[k][i] ELSE 0
         /\ i > nextPsect => Base[k][i] = 0
<1>1. k \in Nat /\ k \in DOMAIN bases /\ Len(bases) \in Nat
  BY BasesSeq
<1>2. k \in DOMAIN bases' /\ bases'[k] = bases[k]
  BY <1>1 DEF Keeps
<1> QED BY <1>1, <1>2, BaseIs DEF Base

LEMMA OverZeroKept ==
  ASSUME TypeOK, TypeOK', BasesType, OverZero, Keeps
  PROVE  OverZero'
<1> SUFFICES ASSUME NEW i \in 1..nextPsect', Over(i)', ~psectInfo'[i].ovr
             PROVE  /\ \A k \in 1..Len(bases') : Base'[k][i] = 0
                    /\ InPass0' => psectInfo'[i].blk = 0
  BY DEF OverZero
<1>1. InPass0' => psectInfo'[i].blk = 0
  BY DEF Keeps
<1>2. Len(bases) \in Nat /\ nextPsect \in Nat /\ i \in 1..MaxPsects
      /\ \A j \in 1..nextPsect : j \in 1..MaxPsects
  <2>1. nextPsect \in Nat /\ \A j \in 1..nextPsect : j \in 1..MaxPsects
    BY Typed
  <2>2. nextPsect' \in 1..MaxPsects /\ MaxPsects \in Nat
    BY LinkAssumption DEF TypeOK
  <2>3. i \in 1..MaxPsects
    BY <2>2
  <2> QED BY <2>1, <2>3, BasesSeq
<1>3. i \in 1..nextPsect => Over(i) /\ ~psectInfo[i].ovr
  BY OverKept DEF Keeps, Grows
<1>4. ASSUME NEW k \in 1..Len(bases) PROVE Base'[k][i] = 0
  <2>1. i \in 1..nextPsect \/ i > nextPsect
    BY <1>2
  <2>2. i \in 1..nextPsect => Base[k][i] = 0
    BY <1>3 DEF OverZero
  <2> QED BY <1>2, <2>1, <2>2, BasesStay
<1>5. CASE bases' = bases
  BY <1>1, <1>4, <1>5
<1>6. CASE bases' = Append(bases, Sizes) /\ InPass0
  <2>1. PICK n \in Nat : n = Len(bases)
    BY <1>2
  <2>2. Len(bases') = n + 1 /\ n + 1 \in DOMAIN bases' /\ bases'[n + 1] = Sizes
    BY <1>6, <2>1
  <2>3. Base'[n + 1][i] = IF i \in 1..nextPsect THEN psectInfo[i].blk ELSE 0
    BY <1>2, <2>2 DEF Base, Sizes
  <2>4. i \in 1..nextPsect => psectInfo[i].blk = 0
    BY <1>3, <1>6 DEF OverZero
  <2>5. \A k \in 1..(n + 1) : k \in 1..n \/ k = n + 1
    OBVIOUS
  <2> QED BY <1>1, <1>4, <2>1, <2>2, <2>3, <2>4, <2>5
<1> QED BY <1>5, <1>6 DEF Keeps

LEMMA SameKeeps ==
  ASSUME TypeOK, OverZero, SameEntries,
         bases' = bases \/ (bases' = Append(bases, Sizes) /\ InPass0),
         InPass0' => InPass0 /\ \A i \in 1..nextPsect : psectInfo'[i].blk = psectInfo[i].blk
  PROVE  Keeps
<1>1. Grows /\ \A f \in Nat : KeepsFrom(f)
  BY SameGrows, SameFrom
<1>2. \A i \in 1..nextPsect : Over(i)' <=> Over(i)
  BY <1>1, OverKept
<1>3. nextPsect' = nextPsect /\ \A i \in 1..nextPsect : psectInfo'[i].ovr = psectInfo[i].ovr
  BY DEF SameEntries
<1> QED BY <1>1, <1>2, <1>3 DEF Keeps, OverZero

LEMMA EntersOn ==
  ASSUME TypeOK, UniqueVisible, OverZero, EntersRec
  PROVE  Keeps
<1>1. PICK name \in Names, glob, ovr \in BOOLEAN, end \in Nat :
        /\ nextPsect + Missing(name, "PSECT") <= nextPsect'
        /\ Enters(psectInfo', nextPsect', name, glob, ovr, end)
  BY DEF EntersRec
<1>2. /\ pass = 0 /\ pc = "rec" /\ job' = job /\ fileIdx' = fileIdx /\ bases' = bases
      /\ nextPsect \in Nat /\ nextPsect' \in Nat /\ InPass0
  BY Typed DEF EntersRec, NextRec, InPass0
<1>3. Missing(name, "PSECT") \in {0, 1}
  BY DEF Missing
<1>4. nextPsect <= nextPsect'
  BY <1>1, <1>2, <1>3
<1>5. Grows /\ \A f \in Nat : KeepsFrom(f)
  BY <1>1, <1>2, <1>4, EntersKeeps
<1>6. ASSUME NEW i \in 1..nextPsect', Over(i)', ~psectInfo'[i].ovr
      PROVE  psectInfo'[i].blk = 0
  <2>1. CASE i \in 1..nextPsect
    <3>1. Over(i) /\ ~psectInfo[i].ovr
      BY <1>5, <1>6, <2>1, OverKept DEF Grows
    <3>2. psectInfo'[i].blk = psectInfo[i].blk
      BY <1>1, <2>1 DEF Enters
    <3> QED BY <1>2, <2>1, <3>1, <3>2 DEF OverZero
  <2>2. CASE i \notin 1..nextPsect
    <3>1. i \in (nextPsect + 1)..nextPsect'
      BY <1>2, <2>2
    <3> QED BY <1>1, <3>1 DEF Enters
  <2> QED BY <2>1, <2>2
<1> QED BY <1>2, <1>5, <1>6 DEF Keeps

\* A module that puts text into a psect that is overlaid somewhere overlays it itself.
LEMMA EndOn ==
  ASSUME IInv, Entries, OInv, SInv, OverlaysDeclared, OverZero, EndRec, pass = 0
  PROVE  Keeps
<1>1. /\ psectInfo' = [i \in 1..MaxPsects |->
                         IF i <= nextPsect THEN EndOfModule(psectInfo[i]) ELSE psectInfo[i]]
      /\ pc = "rec" /\ recIdx <= Len(CurMod.recs) /\ Rec.t = "END" /\ InPass0
      /\ UNCHANGED <<job, nextPsect, bases>>
  BY DEF EndRec, histVars, InPass0
<1>2. UniqueVisible /\ OvrDeclared /\ EndsFit /\ TypeOK /\ Positions /\ Entries
  BY <1>1 DEF SInv, Lost, IInv
<1>3. PICK x \in Places : x = <<fileIdx, modIdx>>
  BY <1>1, <1>2, HereIs
<1>4. PICK n \in Nat : recIdx = n + 1
  <2>1. recIdx \in Nat \ {0}
    BY <1>2 DEF TypeOK
  <2>2. recIdx = (recIdx - 1) + 1 /\ recIdx - 1 \in Nat
    BY <2>1
  <2> QED BY <2>2
<1>5. Valid(x) /\ EndAt(RecsOf(x), n + 1)
  <2>1. Valid(x) /\ RecsOf(x) = CurMod.recs /\ Len(RecsOf(x)) \in Nat
    BY <1>1, <1>2, <1>3, HereIs, ValidRecs
  <2>2. n + 1 \in 1..Len(RecsOf(x)) /\ RecsOf(x)[n + 1].t = "END"
    BY <1>1, <1>4, <2>1 DEF Rec
  <2> QED BY <2>1, <2>2 DEF EndAt
<1>6. /\ \A j \in 1..n : InBody(RecsOf(x), j) /\ Found(x, j)
      /\ \A i \in 1..nextPsect : IsLongest(psectInfo[i].end, TextEnds(x, n, i))
  BY <1>1, <1>2, <1>3, <1>4, <1>5, AllFound DEF EndsFit, ReadSoFar
<1>7. ASSUME NEW i \in 1..nextPsect
      PROVE  /\ psectInfo'[i].name = psectInfo[i].name /\ psectInfo'[i].kind = psectInfo[i].kind
             /\ psectInfo'[i].glob = psectInfo[i].glob /\ psectInfo'[i].ovr = psectInfo[i].ovr
             /\ psectInfo'[i].fileId = psectInfo[i].fileId
             /\ psectInfo[i].end \in Nat /\ psectInfo[i].blk \in Nat
             /\ ~psectInfo[i].ovr => psectInfo'[i].blk = psectInfo[i].blk + psectInfo[i].end
  <2>1. i \in 1..MaxPsects /\ i <= nextPsect /\ psectInfo[i] \in PsectEntry
    BY Typed, <1>2
  <2>2. psectInfo'[i] = EndOfModule(psectInfo[i])
    BY <1>1, <2>1
  <2> QED BY <2>1, <2>2 DEF EndOfModule, PsectEntry
<1>8. SameEntries
  BY <1>1, <1>7 DEF SameEntries, SameNames
<1>9. Grows /\ \A f \in Nat : KeepsFrom(f)
  BY <1>2, <1>8, SameGrows, SameFrom
<1>10. ASSUME NEW i \in 1..nextPsect, Over(i)', ~psectInfo'[i].ovr
       PROVE  psectInfo'[i].blk = 0
  <2>1. Over(i) /\ ~psectInfo[i].ovr
    BY <1>7, <1>9, <1>10, OverKept
  <2>2. psectInfo[i].end = 0
    <3> SUFFICES ASSUME psectInfo[i].end # 0 PROVE FALSE
      OBVIOUS
    <3>1. psectInfo[i].end \in TextEnds(x, n, i)
      BY <1>6 DEF IsLongest
    <3>2. PICK j \in TextsOf(x, n, i) : TRUE
      BY <3>1 DEF TextEnds
    <3>3. j \in 1..n /\ RecsOf(x)[j].t = "TEXT" /\ i = PsectFrom[x[1]][RecsOf(x)[j].psect]
      BY <3>2 DEF TextsOf
    <3>4. psectInfo[i].ovr <=> Over(i)
      BY <1>2, <1>5, <1>6, <3>3, OverIsOvr
    <3> QED BY <2>1, <3>4
  <2>3. psectInfo[i].blk = 0
    BY <1>1, <2>1 DEF OverZero
  <2> QED BY <1>7, <2>1, <2>2, <2>3
<1> QED BY <1>1, <1>9, <1>10 DEF Keeps

LEMMA NextKeeps ==
  ASSUME IInv, Entries, OInv, SInv, OverlaysDeclared, OverZero,
         pc \notin Lost, pc' \notin Lost, [Next]_vars
  PROVE  Keeps
<1> USE DEF IInv
<1>1. UniqueVisible /\ ~Fatal
  BY DEF SInv, Fatal, Lost
<1>2. CASE pass = 1
  <2>1. SecondPass
    BY <1>2, Pass1Steps
  <2>2. ~InPass0'
    BY <2>1 DEF SecondPass, InPass0
  <2> QED BY <2>1, <2>2, SameKeeps DEF SecondPass
<1>3. CASE pass = 0
  <2> USE <1>3
  <2>1. CASE PsectRec \/ XpsectRec \/ TextRecPass1 \/ SymNullPass1
    <3>1. EntersRec
      BY <1>1, <2>1, PsectRecEnters, XpsectRecEnters, TextRecPass1Enters, SymNullPass1Enters
    <3> QED BY <1>1, <3>1, EntersOn
  <2>2. CASE EndRec
    BY <2>2, EndOn
  <2>3. CASE \/ IdentRec \/ RelocRecPass1 \/ SymExternPass1 \/ SymCommPass1 \/ SkipRec
             \/ OpenFile \/ ScanModule \/ CloseLibrary \/ UNCHANGED vars
    <3>1. /\ UNCHANGED <<job, psectInfo, nextPsect>> /\ (InPass0' => InPass0)
          /\ bases' = bases \/ (bases' = Append(bases, Sizes) /\ InPass0)
      <4>1. CASE IdentRec \/ RelocRecPass1 \/ SymExternPass1 \/ SymCommPass1 \/ SkipRec
        BY <1>1, <4>1 DEF IdentRec, RelocRecPass1, SymExternPass1, SymCommPass1, SkipRec, Mention,
           Reading, InPass0, tabVars, histVars
      <4>2. CASE OpenFile \/ ScanModule \/ CloseLibrary
        BY <1>1, <4>2 DEF OpenFile, ScanModule, CloseLibrary, StartModule, Bases, InPass0,
           tabVars, histVars
      <4>3. CASE UNCHANGED vars
        BY <4>3 DEF vars, posVars, tabVars, histVars, InPass0
      <4> QED BY <2>3, <4>1, <4>2, <4>3
    <3>2. SameEntries
      BY <3>1 DEF SameEntries, SameNames
    <3> QED BY <3>1, <3>2, SameKeeps
  <2>4. CASE FinPass1
    <3>1. /\ UNCHANGED <<job, psectInfo, nextPsect>> /\ bases' = Append(bases, Sizes)
          /\ InPass0 /\ ~InPass0'
      BY <2>4 DEF FinPass1, Bases, InPass0, tabVars
    <3>2. SameEntries
      BY <3>1 DEF SameEntries, SameNames
    <3> QED BY <3>1, <3>2, SameKeeps
  <2>5. CASE LayoutStep /\ ~FinPass1 /\ ~RelocateSymbols /\ ~KeepRelocatable
    <3>1. LaysOut
      BY <2>5, PlaceSpecOut, PlaceMembersOut, PlacesOut DEF LayoutStep
    <3>2. SameEntries /\ bases' = bases /\ ~InPass0'
      BY <3>1 DEF LaysOut, Layout, InPass0
    <3> QED BY <3>2, SameKeeps
  <2>6. CASE RelocateSymbols \/ KeepRelocatable
    <3>1. /\ UNCHANGED <<job, psectInfo, nextPsect>> /\ bases' = bases /\ ~InPass0'
      BY <2>6 DEF RelocateSymbols, KeepRelocatable, StartPass2, InPass0, histVars
    <3>2. SameEntries
      BY <3>1 DEF SameEntries, SameNames
    <3> QED BY <3>1, <3>2, SameKeeps
  <2>7. ~DoModule /\ ~Pass2Rec /\ ~FinPass2 /\ ~NoEndRecord
    BY <1>1 DEF DoModule, FinPass2, Pass2Rec, TextRecPass2, RelocRecPass2, SymRecPass2,
       StartRecPass2, Reading, NoEndRecord
  <2> QED BY <2>1, <2>2, <2>3, <2>4, <2>5, <2>6, <2>7
          DEF Next, Step, Exited, ReadStep, Pass1Rec
<1> QED BY <1>2, <1>3 DEF TypeOK

-----------------------------------------------------------------------------
(* The addresses of symbols *)

\* pass 0 goes on in its modules, past records that define no global symbol
PassesBy ==
  /\ \A k \in 1..Len(loaded[0]) : loaded'[0][k] = loaded[0][k]
  /\ \A k, j \in Nat : Seen(0, k, j)' =>
       /\ RecAt(0, k, j)' = RecAt(0, k, j)
       /\ Seen(0, k, j) \/ ~Defines(RecAt(0, k, j))

\* symbols that have an address keep their psect, and move with it
SymsMove ==
  \A s \in Syms : \A i \in 1..nextPsect : sym[s].low = "NULL" /\ sym[s].psect = i =>
    /\ sym'[s].low = "NULL" /\ sym'[s].psect = i
    /\ sym'[s].value + Moved(i) = sym[s].value + Moved(i)'

LEMMA MovedType ==
  ASSUME TypeOK, NEW i \in 1..nextPsect PROVE Moved(i) \in Nat
BY Typed DEF Moved, PsectEntry

LEMMA MovedTypeNext == (TypeOK => \A i \in 1..nextPsect : Moved(i) \in Nat)'
<1>1. TypeOK => \A i \in 1..nextPsect : Moved(i) \in Nat
  BY MovedType
<1> QED BY <1>1, PTL

LEMMA SymAtKept ==
  ASSUME TypeOK, TypeOK', Grows, SymsMove, NEW r \in Record, NEW f \in Nat, KeepsFrom(f),
         NEW k, SymAt(r, f, k),
         \A i \in 1..nextPsect : Base'[k][i] = Base[k][i] /\ Base[k][i] \in Nat
  PROVE  SymAt(r, f, k)'
<1> SUFFICES ASSUME Defines(r) PROVE SymAt(r, f, k)'
  BY DEF SymAt, Defines
<1>1. PICK i \in 1..nextPsect : i = PsectFrom[f][r.psect]
  BY DEF SymAt
<1>2. PICK s \in Syms : s = r.name
  BY DEF SymAt
<1>3. PICK b \in Nat : b = IF Over(i) THEN 0 ELSE Base[k][i]
  BY <1>1
<1>4. /\ r.psect \in Names /\ sym[s].low = "NULL" /\ sym[s].psect = i
      /\ sym[s].value = r.val + b + Moved(i)
  BY <1>1, <1>2, <1>3 DEF SymAt
<1>5. nextPsect \in Nat /\ nextPsect' \in Nat /\ nextPsect <= nextPsect' /\ i # 0
  BY <1>1, Typed DEF Grows
<1>6. PsectFrom'[f][r.psect] = i
  BY <1>1, <1>4, <1>5 DEF KeepsFrom
<1>7. r.val \in Nat
  BY RecordFields DEF Defines
<1>8. /\ sym'[s].low = "NULL" /\ sym'[s].psect = i
      /\ sym'[s].value + Moved(i) = sym[s].value + Moved(i)'
  BY <1>1, <1>2, <1>4 DEF SymsMove
<1>9. sym[s].value \in Int /\ sym'[s].value \in Int
  BY <1>2 DEF TypeOK, SymEntry
<1>10. i \in 1..nextPsect'
  BY <1>1, <1>5
<1>11. (Over(i)' <=> Over(i)) /\ b = IF Over(i)' THEN 0 ELSE Base'[k][i]
  BY <1>1, <1>3, OverKept
<1>12. Moved(i) \in Nat
  BY <1>1, MovedType
<1>13. Moved(i)' \in Nat
  BY <1>10, MovedTypeNext
<1>14. sym'[s].value = r.val + b + Moved(i)'
  <2>1. PICK v \in Int, w \in Int, m \in Nat, d \in Nat :
          v = sym[s].value /\ w = sym'[s].value /\ m = Moved(i) /\ d = Moved(i)'
    BY <1>9, <1>12, <1>13
  <2>2. PICK c \in Nat : c = r.val
    BY <1>7
  <2>3. w + m = v + d /\ v = c + b + m
    BY <1>4, <1>8, <2>1, <2>2
  <2>4. w = c + b + d
    BY <2>3
  <2> QED BY <2>1, <2>2, <2>4
<1> QED BY <1>2, <1>4, <1>6, <1>8, <1>10, <1>11, <1>14 DEF SymAt, Defines

LEMMA SeenRecord ==
  ASSUME TypeOK, OInv, pc \notin Lost, NEW k \in 1..Len(loaded[0]), NEW j \in BodyOf(loaded[0][k])
  PROVE  RecAt(0, k, j) \in Record /\ loaded[0][k][1] \in Nat
<1>1. loaded[0][k] \in Places /\ Valid(loaded[0][k])
  BY LoadedValid
<1>2. PICK x \in Places : x = loaded[0][k]
  BY <1>1
<1>3. RecsOf(x) \in Seq(Record) /\ Len(RecsOf(x)) \in Nat /\ x[1] \in Nat
  BY <1>1, <1>2, ValidRecs
<1>4. ModOf(x).recs = RecsOf(x)
  BY DEF ModOf, RecsOf, ModsAt
<1>5. j \in 1..Len(RecsOf(x))
  BY <1>2, <1>4 DEF BodyOf
<1> QED BY <1>2, <1>3, <1>4, <1>5 DEF RecAt

LEMMA SeenKept ==
  ASSUME TypeOK, TypeOK', OInv, BasesType, pc \notin Lost, Keeps, SymsMove, SymsAt,
         pass = 1 \/ errCnt = 0, NEW k \in Nat, NEW j \in Nat, Seen(0, k, j),
         loaded'[0][k] = loaded[0][k], RecAt(0, k, j)' = RecAt(0, k, j)
  PROVE  SymAt(RecAt(0, k, j), loaded[0][k][1], k)'
<1>1. PICK r, f : r = RecAt(0, k, j) /\ f = loaded[0][k][1]
  OBVIOUS
<1>2. /\ k \in 1..Len(loaded[0]) /\ j \in BodyOf(loaded[0][k])
  BY DEF Seen
<1>3. SymAt(r, f, k)
  BY <1>1 DEF SymsAt
<1>4. RecAt(0, k, j)' = r /\ loaded'[0][k][1] = f
  BY <1>1
<1>5. r \in Record /\ f \in Nat
  BY <1>1, <1>2, SeenRecord
<1>6. \A i \in 1..nextPsect : Base'[k][i] = Base[k][i] /\ Base[k][i] \in Nat
  <2>1. Len(loaded[0]) \in Nat /\ Len(bases) = Len(loaded[0]) + (IF InPass0 THEN 0 ELSE 1)
    BY HistoryType DEF OInv, BasesType
  <2>2. k \in 1..Len(bases)
    <3>1. PICK n \in Nat : n = Len(loaded[0])
      BY <2>1
    <3>2. PICK d \in {0, 1} : Len(bases) = n + d
      <4>1. (IF InPass0 THEN 0 ELSE 1) \in {0, 1}
        OBVIOUS
      <4> QED BY <2>1, <3>1, <4>1
    <3> QED BY <1>2, <3>1, <3>2
  <2>3. \A i \in 1..nextPsect : i \in 1..MaxPsects
    BY Typed
  <2> QED BY <2>2, <2>3, BasesStay, BaseIs
<1>7. SymAt(r, f, k)'
  BY <1>3, <1>5, <1>6, SymAtKept DEF Keeps
<1> QED BY <1>4, <1>7 DEF SymAt, Defines

\* Errors are not taken back: pass 1 starts without any.
ErrorsStay == pass' = 1 \/ errCnt' = 0 => pass = 1 \/ errCnt = 0

LEMMA SymsKept ==
  ASSUME TypeOK, TypeOK', OInv, BasesType, pc \notin Lost, Keeps, PassesBy, SymsMove, SymsAt,
         ErrorsStay
  PROVE  SymsAt'
<1> SUFFICES ASSUME pass' = 1 \/ errCnt' = 0, NEW k \in Nat, NEW j \in Nat, Seen(0, k, j)'
             PROVE  SymAt(RecAt(0, k, j), loaded[0][k][1], k)'
  BY DEF SymsAt
<1>1. PICK r : r = RecAt(0, k, j)
  OBVIOUS
<1>2. RecAt(0, k, j)' = r
  BY <1>1 DEF PassesBy
<1>3. CASE Seen(0, k, j)
  <2>1. loaded'[0][k] = loaded[0][k]
    BY <1>3 DEF Seen, PassesBy
  <2> QED BY <1>1, <1>2, <1>3, <2>1, SeenKept DEF ErrorsStay
<1>4. CASE ~Seen(0, k, j)
  <2>1. ~Defines(r)
    BY <1>1, <1>4 DEF PassesBy
  <2> QED BY <1>2, <2>1 DEF SymAt, Defines
<1> QED BY <1>3, <1>4

\* what a step of pass 0 leaves of the symbols
SymsStay == /\ pass = 0 /\ pass' = 0 /\ (errCnt' = 0 => errCnt = 0)
            /\ \A s \in Syms : sym[s].low = "NULL" => sym'[s] = sym[s]

LEMMA StayMove == ASSUME SymsStay PROVE SymsMove /\ ErrorsStay
<1>1. \A i : Moved(i) = 0 /\ Moved(i)' = 0
  BY DEF SymsStay, Moved
<1> QED BY <1>1 DEF SymsStay, SymsMove, ErrorsStay

LEMMA SeenSamePasses ==
  ASSUME SeenSame, \A k \in 1..Len(loaded[0]) : loaded'[0][k] = loaded[0][k] PROVE PassesBy
BY DEF SeenSame, PassesBy

LEMMA SeenMorePasses ==
  ASSUME SeenMore, loaded' = loaded, ~Defines(Rec) PROVE PassesBy
<1> SUFFICES ASSUME NEW k \in Nat, NEW j \in Nat, Seen(0, k, j)'
             PROVE  /\ RecAt(0, k, j)' = RecAt(0, k, j)
                    /\ Seen(0, k, j) \/ ~Defines(RecAt(0, k, j))
  BY DEF PassesBy
<1>1. /\ RecAt(0, k, j)' = RecAt(0, k, j)
      /\ Seen(0, k, j) \/ RecAt(0, k, j) = Rec
  BY DEF SeenMore
<1> QED BY <1>1

LEMMA SecondMoves ==
  ASSUME SecondPass, pass = 1, pass' = 1 PROVE PassesBy /\ SymsMove /\ ErrorsStay
<1>1. job' = job /\ loaded'[0] = loaded[0] /\ sym' = sym
  BY DEF SecondPass, SameEntries
<1>2. PassesBy
  <2>1. \A k, j \in Nat : RecAt(0, k, j)' = RecAt(0, k, j)
    BY <1>1 DEF RecAt, ModOf
  <2>2. \A k, j \in Nat : Seen(0, k, j)' => Seen(0, k, j)
    <3>1. \A k \in Nat : BodyOf(loaded[0][k])' = BodyOf(loaded[0][k])
      BY <1>1 DEF BodyOf, ModOf
    <3> QED BY <1>1, <3>1 DEF Seen
  <2> QED BY <1>1, <2>1, <2>2 DEF PassesBy
<1>3. \A i \in 1..nextPsect : Moved(i)' = Moved(i)
  BY <1>1 DEF SecondPass, Moved
<1> QED BY <1>1, <1>2, <1>3 DEF SymsMove, ErrorsStay

\* a handler of pass 0 has read a record that defines no global symbol
ReadsPast ==
  /\ pc = "rec" /\ recIdx <= Len(CurMod.recs) /\ Rec.t # "END" /\ NextRec
  /\ UNCHANGED <<job, loaded>> /\ ~Defines(Rec) /\ SymsStay

LEMMA PastMoves ==
  ASSUME IInv, OInv, GInv, ReadsPast PROVE PassesBy /\ SymsMove /\ ErrorsStay
<1>1. NoEndYet
  BY DEF ReadsPast, GInv, Lost
<1>2. SeenMore
  BY <1>1, Reads DEF ReadsPast, IInv
<1> QED BY <1>2, SeenMorePasses, StayMove DEF ReadsPast

LEMMA MentionPast ==
  ASSUME IInv, pc = "rec", pass = 0, recIdx <= Len(CurMod.recs), Rec.t # "END", ~Defines(Rec),
         NEW s \in Syms, Mention(s)
  PROVE  ReadsPast \/ Fatal
<1>1. CASE ~Room(0, NewSym(s))
  BY <1>1 DEF Mention
<1>2. CASE Room(0, NewSym(s))
  <2>1. /\ sym' = IF Known(s) THEN sym ELSE [sym EXCEPT ![s] = Unresolved]
        /\ NextRec /\ UNCHANGED <<job, loaded, errCnt>>
    BY <1>2 DEF Mention, histVars
  <2>2. sym \in [Syms -> SymEntry]
    BY DEF IInv, TypeOK
  <2>3. \A x \in Syms : sym[x].low = "NULL" => sym'[x] = sym[x]
    BY <2>1, <2>2 DEF Known
  <2>4. SymsStay
    BY <2>1, <2>3 DEF SymsStay, NextRec
  <2> QED BY <2>1, <2>4 DEF ReadsPast
<1> QED BY <1>1, <1>2

\* What defineSym leaves of the symbols that have an address: all of them.
LEMMA DefineStays ==
  ASSUME IInv, pass = 0, NextRec, NEW s \in Syms, NEW low \in {"NULL", "COMM"}, NEW val,
         NEW psect, NEW off, DefineSym(s, low, val, psect, off)
  PROVE  SymsStay
<1>1. sym \in [Syms -> SymEntry]
  BY DEF IInv, TypeOK
<1>2. errCnt' = 0 => errCnt = 0
  BY DefineKeeps DEF IInv
<1>3. sym[s].low = "NULL" => Defined(s, low, val, psect, off) = sym[s]
  BY DEF Defined
<1>4. \A x \in Syms : sym'[x] = IF x = s THEN Defined(s, low, val, psect, off) ELSE sym[x]
  BY <1>1 DEF DefineSym
<1> HIDE DEF SymsStay
<1>5. \A x \in Syms : sym[x].low = "NULL" => sym'[x] = sym[x]
  BY <1>3, <1>4
<1> QED BY <1>2, <1>5 DEF SymsStay, NextRec

LEMMA Pass1RecPast ==
  ASSUME IInv, IInv', pass = 0, \/ Pass1Rec
                                \/ SkipRec,
         ~(SymNullPass1 /\ Rec.glob)
  PROVE  ReadsPast \/ Fatal
<1> USE DEF Reading
<1>1. /\ pc = "rec" /\ recIdx <= Len(CurMod.recs) /\ Rec \in Record
      /\ errCnt \in Nat /\ errCnt' \in Nat
  <2>1. pc = "rec" /\ recIdx <= Len(CurMod.recs)
    BY DEF Pass1Rec, IdentRec, PsectRec, XpsectRec, TextRecPass1, RelocRecPass1, SymExternPass1,
           SymCommPass1, SymNullPass1, SkipRec
  <2> QED BY <2>1, ReadingRec DEF IInv, TypeOK
<1>2. CASE \/ IdentRec \/ PsectRec \/ XpsectRec \/ TextRecPass1 \/ SkipRec
           \/ RelocRecPass1 /\ Rec.kind \notin {"RNAME", "RRNAME"}
           \/ SymNullPass1 /\ ~Rec.glob
  <2>1. CASE Fatal
    BY <2>1
  <2>2. CASE ~Fatal
    <3>1. NextRec /\ UNCHANGED <<job, loaded, sym>> /\ Rec.t # "END" /\ ~Defines(Rec)
      <4>1. CASE IdentRec \/ PsectRec \/ XpsectRec \/ TextRecPass1
        BY <2>2, <4>1 DEF IdentRec, PsectRec, XpsectRec, TextRecPass1, Defines, tabVars, histVars
      <4>2. CASE RelocRecPass1 /\ Rec.kind \notin {"RNAME", "RRNAME"}
        BY <2>2, <4>2 DEF RelocRecPass1, Defines, tabVars, histVars
      <4>3. CASE SkipRec
        BY <4>3 DEF SkipRec, Defines, tabVars, histVars
      <4>4. CASE SymNullPass1 /\ ~Rec.glob
        BY <2>2, <4>4 DEF SymNullPass1, Defines, histVars
      <4> QED BY <1>2, <4>1, <4>2, <4>3, <4>4
    <3>2. errCnt' = errCnt \/ errCnt' = errCnt + 1
      <4>1. CASE IdentRec \/ PsectRec \/ TextRecPass1
        BY <2>2, <4>1, Zenon DEF IdentRec, PsectRec, TextRecPass1
      <4>2. CASE XpsectRec
        BY <2>2, <4>2, Zenon DEF XpsectRec
      <4>3. CASE RelocRecPass1 /\ Rec.kind \notin {"RNAME", "RRNAME"}
        BY <2>2, <4>3 DEF RelocRecPass1
      <4>4. CASE SkipRec
        BY <4>4 DEF SkipRec
      <4>5. CASE SymNullPass1 /\ ~Rec.glob
        BY <2>2, <4>5 DEF SymNullPass1
      <4> QED BY <1>2, <4>1, <4>2, <4>3, <4>4, <4>5
    <3>3. SymsStay
      BY <1>1, <3>1, <3>2 DEF SymsStay, NextRec
    <3> QED BY <1>1, <3>1, <3>3 DEF ReadsPast
  <2> QED BY <2>1, <2>2
<1>3. CASE RelocRecPass1 /\ Rec.kind \in {"RNAME", "RRNAME"}
  <2>1. Mention(Rec.name) /\ Rec.t = "RELOC" /\ Rec.name \in Syms
    BY <1>1, <1>3, RecordFields DEF RelocRecPass1
  <2>2. PICK s \in Syms : s = Rec.name
    BY <2>1
  <2> QED BY <1>1, <2>1, <2>2, MentionPast DEF Defines
<1>4. CASE SymExternPass1
  <2>1. Mention(Rec.name) /\ Rec.t = "SYM" /\ Rec.low = "EXTERN" /\ Rec.name \in Syms
    BY <1>1, <1>4, RecordFields DEF SymExternPass1
  <2>2. PICK s \in Syms : s = Rec.name
    BY <2>1
  <2> QED BY <1>1, <2>1, <2>2, MentionPast DEF Defines
<1>5. CASE SymCommPass1
  <2>1. CASE ~Room(0, NewSym(Rec.name))
    BY <1>5, <2>1 DEF SymCommPass1
  <2>2. CASE Room(0, NewSym(Rec.name))
    <3>1. /\ NextRec /\ Rec.t = "SYM" /\ Rec.low = "COMM" /\ Rec.name \in Syms
          /\ DefineSym(Rec.name, "COMM", Rec.val, 0, 0)
          /\ UNCHANGED <<job, loaded>>
      BY <1>1, <1>5, <2>2, RecordFields DEF SymCommPass1, histVars
    <3>2. PICK s \in Syms, val \in {Rec.val} : s = Rec.name
      BY <3>1
    <3>3. DefineSym(s, "COMM", val, 0, 0)
      BY <3>1, <3>2
    <3>4. SymsStay
      BY <3>1, <3>3, DefineStays
    <3> QED BY <1>1, <3>1, <3>4 DEF ReadsPast, Defines
  <2> QED BY <2>1, <2>2
<1> QED BY <1>2, <1>3, <1>4, <1>5 DEF Pass1Rec

\* A module's own definition: the size of the psect before the module is where its part begins.
LEMMA DefinesSym ==
  ASSUME IInv, IInv', OInv, SInv, SInv', GInv, OverZero', Keeps, SymsAt,
         SymNullPass1, Rec.glob, ~Fatal
  PROVE  SymsAt'
<1> DEFINE i == SlotAfter(Rec.psect, "PSECT")
           new == Mentioned(Rec.psect)
           off == IF new[i].ovr THEN 0 ELSE new[i].blk
<1>1. /\ pc = "rec" /\ pass = 0 /\ recIdx <= Len(CurMod.recs) /\ Rec \in Record
      /\ Rec.t = "SYM" /\ Rec.low = "NULL" /\ Rec.name \in Syms /\ Rec.psect \in Names
      /\ Rec.val \in Nat
  <2>1. pc = "rec" /\ pass = 0 /\ recIdx <= Len(CurMod.recs) /\ Rec.t = "SYM" /\ Rec.low = "NULL"
    BY DEF SymNullPass1, Reading
  <2>2. Rec \in Record
    BY <2>1, ReadingRec DEF IInv, Reading
  <2> QED BY <2>1, <2>2, RecordFields DEF Names
<1>2. /\ NextRec /\ UNCHANGED <<job, loaded>> /\ psectInfo' = new
      /\ DefineSym(Rec.name, "NULL", Rec.val, i, off)
  BY DEF SymNullPass1, histVars
<1>3. PICK s \in Syms, val \in Nat, p \in {i}, base \in {off} :
        s = Rec.name /\ val = Rec.val /\ p = i /\ base = off
  BY <1>1
<1>4. /\ DefineSym(s, "NULL", val, p, base) /\ p = SlotAfter(Rec.psect, "PSECT")
      /\ base = IF psectInfo'[p].ovr THEN 0 ELSE psectInfo'[p].blk
  BY <1>2, <1>3
<1> HIDE DEF i, new, off
<1>5. /\ pass' = 0 /\ pc' = "rec" /\ fileIdx' = fileIdx /\ fileIdx \in Nat
  BY <1>1, <1>2 DEF NextRec, IInv, TypeOK
<1> SUFFICES ASSUME errCnt' = 0, NEW k \in Nat, NEW j \in Nat, Seen(0, k, j)'
             PROVE  SymAt(RecAt(0, k, j), loaded[0][k][1], k)'
  BY <1>5 DEF SymsAt
<1>6. errCnt = 0 /\ ~Redefined(s, "NULL")
  BY <1>4, DefineKeeps DEF IInv
<1>7. SymsMove
  BY <1>1, <1>2, <1>4, DefineStays, StayMove
<1>8. SeenMore
  BY <1>1, <1>2, Reads DEF GInv, Lost, IInv
<1>9. CASE Seen(0, k, j)
  <2>1. BasesType /\ pc \notin Lost
    BY <1>1 DEF SInv, Lost
  <2>2. RecAt(0, k, j)' = RecAt(0, k, j) /\ loaded'[0][k] = loaded[0][k]
    BY <1>2, <1>8 DEF SeenMore
  <2> QED BY <1>6, <1>7, <1>9, <2>1, <2>2, SeenKept DEF IInv
<1>10. CASE ~Seen(0, k, j)
  <2>1. k = Len(loaded[0]) /\ RecAt(0, k, j)' = Rec /\ loaded'[0][k][1] = fileIdx
    <3>1. /\ RecAt(0, k, j)' = RecAt(0, k, j) /\ k = Len(loaded[0]) /\ RecAt(0, k, j) = Rec
      BY <1>1, <1>8, <1>10 DEF SeenMore
    <3>2. loaded[0][k] = <<fileIdx, modIdx>>
      BY <1>1, <3>1, HereSeen DEF IInv
    <3> QED BY <1>2, <3>1, <3>2
  <2>2. p \in 1..nextPsect' /\ PsectFrom'[fileIdx][Rec.psect] = p
    <3>1. EntersRec
      BY SymNullPass1Enters DEF IInv
    <3>2. PICK name \in Names, glob, ovr \in BOOLEAN, end \in Nat :
            /\ nextPsect + Missing(name, "PSECT") <= nextPsect'
            /\ Enters(psectInfo', nextPsect', name, glob, ovr, end)
            /\ Rec.psect = name
      BY <1>1, <3>1 DEF EntersRec
    <3>3. nextPsect' \in Nat /\ nextPsect <= nextPsect'
      BY DEF Keeps, Grows
    <3>4. PsectFrom'[fileIdx][name] = SlotAfter(name, "PSECT")
      BY <1>1, <1>2, <1>5, <3>2, <3>3, EntersKeeps DEF IInv, SInv, Lost
    <3>5. SlotAfter(name, "PSECT") \in 1..nextPsect'
      BY <3>2 DEF Enters
    <3> QED BY <1>4, <3>2, <3>4, <3>5
  <2>3. sym'[s] = [low |-> "NULL", value |-> val + base, psect |-> p]
    <3>1. sym \in [Syms -> SymEntry]
      BY DEF IInv, TypeOK
    <3>2. sym[s].low \in {"none", "EXTERN"}
      BY <1>6, <3>1 DEF Redefined, SymEntry
    <3> QED BY <1>4, <3>1, <3>2 DEF DefineSym, Defined
  <2>4. base = IF Over(p)' THEN 0 ELSE Base'[k][p]
    <3>1. /\ OvrDeclared' /\ SizesFit' /\ BasesType'
      BY <1>5 DEF SInv, Lost
    <3>2. Len(bases') = k
      BY <1>2, <1>5, <2>1, <3>1, HistoryType DEF BasesType, InPass0, OInv
    <3>3. psectInfo'[p].blk = Base'[k][p]
      BY <1>5, <2>2, <3>1, <3>2 DEF SizesFit
    <3>4. psectInfo'[p].ovr => Over(p)'
      BY <2>2, <3>1 DEF OvrDeclared, Over
    <3>5. Over(p)' /\ ~psectInfo'[p].ovr => psectInfo'[p].blk = 0
      BY <1>5, <2>2 DEF OverZero, InPass0
    <3> QED BY <1>4, <3>3, <3>4, <3>5
  <2>5. Moved(p)' = 0
    BY <1>5 DEF Moved
  <2>6. base \in Nat
    <3>1. psectInfo' \in [1..MaxPsects -> PsectEntry] /\ nextPsect' \in 1..MaxPsects
      BY DEF IInv, TypeOK
    <3>2. p \in 1..MaxPsects
      BY <2>2, <3>1, LinkAssumption
    <3>3. psectInfo'[p] \in PsectEntry
      BY <3>1, <3>2
    <3>4. psectInfo'[p].blk \in Nat
      BY <3>3 DEF PsectEntry
    <3> QED BY <1>4, <3>4
  <2>7. PICK r, f : r = Rec /\ f = fileIdx
    OBVIOUS
  <2>8. SymAt(r, f, k)'
    <3>1. PsectFrom'[f][r.psect] = p /\ r.name = s /\ r.val = val
      BY <1>3, <2>2, <2>7
    <3>2. /\ sym'[s].low = "NULL" /\ sym'[s].psect = p /\ sym'[s].value = val + base
      BY <2>3
    <3>3. sym'[s].value = val + (IF Over(p)' THEN 0 ELSE Base'[k][p]) + Moved(p)'
      BY <2>4, <2>5, <2>6, <3>2
    <3> QED BY <1>1, <1>3, <2>2, <2>7, <3>1, <3>2, <3>3 DEF SymAt
  <2>9. RecAt(0, k, j)' = r /\ loaded'[0][k][1] = f
    BY <2>1, <2>7
  <2> QED BY <2>8, <2>9 DEF SymAt, Defines
<1> QED BY <1>9, <1>10

LEMMA StartsSyms ==
  ASSUME IInv, IInv', OInv, pass = 0, Starts, recIdx' = 1, UNCHANGED <<sym, errCnt>>
  PROVE  PassesBy /\ SymsMove /\ ErrorsStay
<1>1. SeenSame
  BY SeenAtStart DEF IInv
<1>2. \A k \in 1..Len(loaded[0]) : loaded'[0][k] = loaded[0][k]
  <2>1. loaded \in [{0, 1} -> Seq(Places)] /\ loaded[0] \in Seq(Places) /\ Len(loaded[0]) \in Nat
    BY HistoryType DEF OInv, Histories
  <2>2. loaded'[0] = Append(loaded[0], <<fileIdx, modIdx'>>)
    BY <2>1 DEF Starts
  <2> QED BY <2>1, <2>2
<1>3. SymsStay
  BY DEF SymsStay, Starts
<1> QED BY <1>1, <1>2, <1>3, SeenSamePasses, StayMove

LEMMA MovesSyms ==
  ASSUME IInv, IInv', OInv, pass = 0, pc' \notin Lost,
         OpenFile \/ ScanModule \/ CloseLibrary \/ EndRec
  PROVE  PassesBy /\ SymsMove /\ ErrorsStay
<1> USE DEF tabVars, histVars
<1>1. UNCHANGED <<job, pass, sym, errCnt>>
  BY DEF OpenFile, ScanModule, CloseLibrary, EndRec, Fatal
<1>2. SymsStay
  BY <1>1 DEF SymsStay
<1>3. CASE OpenFile
  <2>1. CASE CurFile.kind = "lib" /\ pc = "open" /\ pc' = "scan" /\ UNCHANGED loaded
    BY <1>1, <1>2, <2>1, SeenBetween, SeenSamePasses, StayMove
  <2>2. CASE /\ CurFile.kind = "obj" /\ modIdx' = 0 /\ StartModule
             /\ UNCHANGED <<job, pass, fileIdx, libFileIdx>>
    <3>1. /\ pc = "open" /\ fileIdx < Len(job.files) /\ Cursor = <<fileIdx, 0>>
      BY <1>3 DEF OpenFile, Cursor
    <3>2. Starts /\ recIdx' = 1
      BY <2>2, <3>1 DEF Starts, StartModule, Enter
    <3> QED BY <1>1, <3>2, StartsSyms
  <2> QED BY <1>3, <2>1, <2>2 DEF OpenFile, Fatal, Lost
<1>4. CASE ScanModule
  <2>1. /\ pc = "scan" /\ Cursor = <<fileIdx, modIdx>> /\ CurFile.kind = "lib"
        /\ modIdx \in Nat /\ fileIdx < Len(job.files)
        /\ UNCHANGED <<job, pass, fileIdx, libFileIdx>>
        /\ \/ modIdx' = modIdx /\ StartModule
           \/ pc' = pc /\ UNCHANGED loaded
    BY <1>4 DEF ScanModule, Cursor, OInv, Whereabouts, IInv, Positions, TypeOK
  <2>2. CASE modIdx' = modIdx /\ StartModule
    <3>1. Starts /\ recIdx' = 1
      BY <2>1, <2>2 DEF Starts, StartModule, Enter
    <3> QED BY <1>1, <3>1, StartsSyms
  <2>3. CASE pc' = pc /\ UNCHANGED loaded
    BY <1>1, <1>2, <2>1, <2>3, SeenBetween, SeenSamePasses, StayMove
  <2> QED BY <2>1, <2>2, <2>3
<1>5. CASE CloseLibrary
  <2>1. pc = "scan" /\ pc' = "open" /\ UNCHANGED loaded
    BY <1>5 DEF CloseLibrary
  <2> QED BY <1>1, <1>2, <2>1, SeenBetween, SeenSamePasses, StayMove
<1>6. CASE EndRec
  <2>1. /\ pc = "rec" /\ recIdx <= Len(CurMod.recs) /\ Rec.t = "END" /\ pc' \in {"open", "scan"}
        /\ UNCHANGED <<job, loaded>>
    BY <1>6 DEF EndRec
  <2>2. SeenSame
    BY <2>1, SeenAtEnd DEF IInv
  <2> QED BY <1>2, <2>1, <2>2, SeenSamePasses, StayMove
<1> QED BY <1>3, <1>4, <1>5, <1>6

\* labels get a value where there was none
LEMMA FinishSyms ==
  ASSUME IInv, IInv', pass = 0, NEW i, NEW p, FinishPsect(i, p)
  PROVE  SymsStay /\ UNCHANGED <<job, loaded>> /\ pc' = "place"
<1>1. /\ pass' = 0 /\ errCnt' = errCnt + TooBig(p) /\ UNCHANGED <<job, loaded>> /\ pc' = "place"
  BY DEF FinishPsect, histVars
<1>2. errCnt \in Nat /\ TooBig(p) \in {0, 1}
  BY TooBigType DEF IInv, TypeOK
<1>3. \A s \in Syms : sym[s].low = "NULL" => sym'[s] = sym[s]
  BY DEF FinishPsect, Needed
<1> QED BY <1>1, <1>2, <1>3 DEF SymsStay

LEMMA LayoutSyms ==
  ASSUME IInv, IInv', OInv, pass = 0, pc' \notin Lost, LayoutStep, ~RelocateSymbols, ~KeepRelocatable
  PROVE  PassesBy /\ SymsMove /\ ErrorsStay
<1> USE DEF tabVars, histVars, posVars
<1>1. ~Fatal /\ ~CommonCrash /\ errCnt \in Nat
  BY DEF Fatal, CommonCrash, Lost, IInv, TypeOK
<1>2. SymsStay /\ UNCHANGED <<job, loaded>> /\ pc # "rec" /\ pc' # "rec"
  <2>1. CASE FinPass1 \/ PlaceClassMember \/ SkipClassMember \/ SpecDone \/ PlaceClass \/ PlaceStray
    BY <1>1, <2>1 DEF FinPass1, PlaceClassMember, SkipClassMember, SpecDone, PlaceClass, PlaceStray,
       SymsStay
  <2>2. CASE PlaceSpecPsect \/ PlaceSpecClass
    <3>1. /\ errCnt' = errCnt + AbsError(ItemSlot) /\ UNCHANGED <<job, pass, loaded, sym>>
          /\ pc # "rec" /\ pc' # "rec"
      BY <1>1, <2>2 DEF PlaceSpecPsect, PlaceSpecClass
    <3> QED BY <1>1, <3>1, AbsErrorType DEF SymsStay
  <2>3. CASE PlaceReloc
    <3>1. /\ errCnt' = errCnt + TooBig(psectInfo[idx]) /\ UNCHANGED <<job, pass, loaded, sym>>
          /\ pc # "rec" /\ pc' # "rec"
      BY <2>3 DEF PlaceReloc
    <3> QED BY <1>1, <3>1, TooBigType DEF SymsStay
  <2>4. CASE PlacePsect \/ PlaceClassDone
    <3>1. PICK p : FinishPsect(idx, p) /\ pc \in {"place", "stray"}
      BY <1>1, <2>4 DEF PlacePsect, PlaceClassDone
    <3> QED BY <3>1, FinishSyms
  <2>5. ~SpecUnknown
    BY <1>1 DEF SpecUnknown
  <2> QED BY <1>1, <2>1, <2>2, <2>3, <2>4, <2>5 DEF LayoutStep
<1>3. SeenSame
  BY <1>2, SeenBetween
<1> QED BY <1>2, <1>3, SeenSamePasses, StayMove

\* finPass1 adds to each symbol the address of its psect.
LEMMA RelocatesSyms ==
  ASSUME IInv, IInv', OInv, pass = 0, pc' \notin Lost, RelocateSymbols \/ KeepRelocatable
  PROVE  PassesBy /\ SymsMove /\ ErrorsStay
<1>1. /\ pc = "place" /\ pc' = "open" /\ pass' = 1 /\ errCnt' = 0
      /\ UNCHANGED <<job, psectInfo, nextPsect, loaded>>
  BY DEF RelocateSymbols, KeepRelocatable, StartPass2, histVars, Lost
<1>2. PassesBy
  BY <1>1, SeenBetween, SeenSamePasses
<1>3. \A i : Moved(i) = 0 /\ Moved(i)' = IF ~job.R /\ ~psectInfo[i].abs THEN psectInfo[i].link ELSE 0
  BY <1>1 DEF Moved
<1>4. ErrorsStay
  <2>1. CASE RelocateSymbols
    <3>1. Cardinality(Externs) \in Nat
      BY ExternsFinite, FS_EmptySet DEF IInv
    <3>2. UndefinedErrors \in Nat
      BY <3>1 DEF UndefinedErrors
    <3>3. errCnt \in Nat /\ errCnt' = errCnt + UndefinedErrors
      BY <2>1 DEF RelocateSymbols, IInv, TypeOK
    <3> QED BY <1>1, <3>2, <3>3 DEF ErrorsStay
  <2>2. CASE KeepRelocatable
    BY <1>1, <2>2 DEF KeepRelocatable, ErrorsStay
  <2> QED BY <2>1, <2>2
<1>5. SymsMove
  <2>1. CASE RelocateSymbols
    <3> SUFFICES ASSUME NEW s \in Syms, NEW i \in 1..nextPsect, sym[s].low = "NULL", sym[s].psect = i
                 PROVE  /\ sym'[s].low = "NULL" /\ sym'[s].psect = i
                        /\ sym'[s].value + 0 = sym[s].value + Moved(i)'
      BY <1>3 DEF SymsMove
    <3>1. sym[s] \in SymEntry /\ psectInfo[i] \in PsectEntry /\ ~job.R
      <4>1. psectInfo[i] \in PsectEntry
        BY Typed DEF IInv
      <4> QED BY <2>1, <4>1 DEF IInv, TypeOK, RelocateSymbols
    <3>2. sym'[s] = IF ~psectInfo[i].abs THEN [sym[s] EXCEPT !.value = @ + psectInfo[i].link] ELSE sym[s]
      BY <2>1 DEF RelocateSymbols
    <3>3. /\ sym[s].value \in Int /\ psectInfo[i].link \in Nat
          /\ psectInfo[i].abs => sym'[s] = sym[s] /\ Moved(i)' = 0
          /\ ~psectInfo[i].abs => /\ sym'[s] = [sym[s] EXCEPT !.value = sym[s].value + psectInfo[i].link]
                                  /\ Moved(i)' = psectInfo[i].link
      BY <1>3, <3>1, <3>2 DEF SymEntry, PsectEntry
    <3> QED BY <3>1, <3>3 DEF SymEntry
  <2>2. CASE KeepRelocatable
    BY <1>3, <2>2 DEF KeepRelocatable, SymsMove
  <2> QED BY <2>1, <2>2
<1> QED BY <1>2, <1>4, <1>5

LEMMA InitSyms == Init => DInv
<1> SUFFICES ASSUME Init PROVE DInv
  OBVIOUS
<1>1. /\ nextPsect = 1 /\ psectInfo[1].ovr /\ pass = 0 /\ loaded = [p \in {0, 1} |-> <<>>]
      /\ 1 \in 1..MaxPsects
  BY LinkAssumption DEF Init, AbsEntry, NewPsect
<1>2. OverZero
  BY <1>1 DEF OverZero
<1>3. SymsAt
  <2>1. Len(loaded[0]) = 0
    BY <1>1
  <2> QED BY <2>1 DEF SymsAt, Seen
<1> QED BY <1>2, <1>3 DEF DInv

LEMMA LostStays ==
  ASSUME pc \in Lost, [Next]_vars PROVE UNCHANGED vars
<1> USE DEF Lost
<1>1. ~OpenFile /\ ~ScanModule /\ ~DoModule /\ ~CloseLibrary /\ ~NoEndRecord /\ ~EndRec /\ ~FinPass2
  BY DEF OpenFile, ScanModule, DoModule, CloseLibrary, NoEndRecord, EndRec, FinPass2
<1>2. ~Pass1Rec /\ ~Pass2Rec /\ ~SkipRec
  BY DEF Pass1Rec, IdentRec, PsectRec, XpsectRec, TextRecPass1, RelocRecPass1, SymExternPass1,
     SymCommPass1, SymNullPass1, Pass2Rec, TextRecPass2, RelocRecPass2, SymRecPass2,
     StartRecPass2, SkipRec, Reading
<1>3. ~LayoutStep
  BY DEF LayoutStep, FinPass1, PlaceSpecPsect, PlaceSpecClass, PlaceClassMember, SkipClassMember,
     SpecUnknown, SpecDone, PlaceReloc, PlacePsect, PlaceClass, PlaceStray, PlaceClassDone,
     RelocateSymbols, CommonCrash, KeepRelocatable
<1> QED BY <1>1, <1>2, <1>3 DEF Next, Step, ReadStep, Exited

LEMMA NextSyms ==
  ASSUME IInv, IInv', CInv, OInv, SInv, SInv', GInv, DInv, OverlaysDeclared, [Next]_vars
  PROVE  DInv'
<1> SUFFICES ASSUME pc' \notin Lost PROVE OverZero' /\ SymsAt'
  BY DEF DInv
<1>1. CASE pc \in Lost
  <2>1. UNCHANGED vars
    BY <1>1, LostStays
  <2> QED BY <1>1, <2>1 DEF vars, posVars
<1>2. CASE pc \notin Lost
  <2>1. OverZero /\ SymsAt /\ BasesType /\ ~Fatal
    BY <1>2 DEF DInv, SInv, Fatal, Lost
  <2>2. Keeps
    BY <1>2, <2>1, NextKeeps DEF CInv
  <2>3. OverZero'
    BY <2>1, <2>2, OverZeroKept DEF IInv
  <2>4. CASE SymNullPass1 /\ Rec.glob
    BY <2>1, <2>2, <2>3, <2>4, DefinesSym
  <2>5. CASE PassesBy /\ SymsMove /\ ErrorsStay
    BY <1>2, <2>1, <2>2, <2>3, <2>5, SymsKept DEF IInv
  <2>6. CASE pass = 1
    <3>1. SecondPass
      BY <2>6, Pass1Steps
    <3>2. pass' = 1
      BY <3>1 DEF SecondPass
    <3> QED BY <2>5, <2>6, <3>1, <3>2, SecondMoves
  <2>7. CASE pass = 0 /\ ~(SymNullPass1 /\ Rec.glob)
    <3>1. CASE Pass1Rec \/ SkipRec
      BY <2>1, <2>5, <2>7, <3>1, Pass1RecPast, PastMoves
    <3>2. CASE OpenFile \/ ScanModule \/ CloseLibrary \/ EndRec
      BY <2>5, <2>7, <3>2, MovesSyms
    <3>3. CASE LayoutStep
      BY <2>5, <2>7, <3>3, LayoutSyms, RelocatesSyms
    <3>4. CASE UNCHANGED vars
      <4>1. UNCHANGED <<job, pc, pass, recIdx, sym, errCnt, loaded>>
        BY <3>4 DEF vars, posVars, tabVars, histVars
      <4>2. SymsStay
        BY <2>7, <4>1 DEF SymsStay
      <4>3. PassesBy
        <5>1. \A k, j \in Nat : RecAt(0, k, j)' = RecAt(0, k, j)
          BY <4>1 DEF RecAt, ModOf
        <5>2. \A k, j \in Nat : Seen(0, k, j)' => Seen(0, k, j)
          <6>1. \A k \in Nat : BodyOf(loaded[0][k])' = BodyOf(loaded[0][k])
            BY <4>1 DEF BodyOf, ModOf
          <6> QED BY <4>1, <6>1 DEF Seen
        <5> QED BY <4>1, <5>1, <5>2 DEF PassesBy
      <4> QED BY <2>5, <4>2, <4>3, StayMove
    <3>5. ~DoModule /\ ~Pass2Rec /\ ~FinPass2 /\ ~NoEndRecord
      BY <2>1, <2>7 DEF DoModule, FinPass2, Pass2Rec, TextRecPass2, RelocRecPass2, SymRecPass2,
         StartRecPass2, Reading, NoEndRecord
    <3> QED BY <3>1, <3>2, <3>3, <3>4, <3>5 DEF Next, Step, Exited, ReadStep
  <2> QED BY <2>3, <2>4, <2>6, <2>7 DEF IInv, TypeOK
<1> QED BY <1>1, <1>2

\* An absolute psect lies at 0: finPass1 adds no address to the symbols of an absolute
\* psect, but moves one that is local or in a class.
AbsAtZero == \A i \in 1..nextPsect : psectInfo[i].abs => psectInfo[i].link = 0

\* A record says that the psect n is absolute.
Absolute(recs, n) == \E j \in 1..Len(recs) : recs[j].t = "PSECT" /\ recs[j].psect = n /\ recs[j].abs
AbsName(n) ==
  n = Abs \/ \E f \in 1..Len(job.files) : \E m \in 1..Len(job.files[f].mods) :
               Absolute(job.files[f].mods[m].recs, n)

\* The absolute psects of the job are global, and no module puts one into a class.
AbsFixed ==
  \A f \in 1..Len(job.files) : \A m \in 1..Len(job.files[f].mods) :
    LET recs == job.files[f].mods[m].recs
    IN \A j \in 1..Len(recs) :
         /\ recs[j].t = "PSECT" /\ recs[j].abs => recs[j].glob
         /\ recs[j].t = "XPSECT" /\ AbsName(recs[j].psect) => recs[j].cls = NoName

LEMMA SymbolsThere ==
  ASSUME IInv, OInv, SInv, DInv, AbsAtZero PROVE SymbolAtText
<1> SUFFICES ASSUME pass = 1, pc = "rec", NEW r \in BodyOf(<<fileIdx, modIdx>>),
                    NEW x, x = CurMod.recs[r], Defines(x)
             PROVE  LET i == Slot(x.psect, "PSECT")
                    IN sym[x.name].value = x.val + TextBlock(i) + (IF job.R THEN 0 ELSE psectInfo[i].link)
  BY DEF SymbolAtText, Defines
<1>1. /\ OverZero /\ SymsAt /\ OvrDeclared
  BY DEF DInv, SInv, Lost
<1>2. PICK k : k = Len(loaded[1])
  OBVIOUS
<1>3. /\ k \in Nat /\ k \in 1..Len(bases) /\ k \in 1..Completed /\ k \in 1..Len(loaded[0])
      /\ loaded[0][k] = <<fileIdx, modIdx>>
      /\ \A i \in 1..nextPsect : psectInfo[i].blk = Base[k][i] /\ Base[k][i] \in Nat
  BY <1>2, NowReading DEF Completed
<1>4. Seen(0, k, r) /\ r \in Nat /\ RecAt(0, k, r) = x
  <2>1. ModOf(<<fileIdx, modIdx>>) = CurMod
    BY DEF ModOf, CurMod, CurFile
  <2>2. r \in BodyOf(loaded[0][k]) /\ r \in Nat
    BY <1>3 DEF BodyOf
  <2>3. Seen(0, k, r)
    BY <1>3, <2>2 DEF Seen
  <2> QED BY <1>3, <2>1, <2>2, <2>3 DEF RecAt
<1>5. PICK f \in Nat : f = fileIdx
  BY DEF IInv, TypeOK
<1>6. SymAt(x, f, k)
  BY <1>1, <1>3, <1>4, <1>5 DEF SymsAt
<1>7. PICK i : i = PsectFrom[f][x.psect]
  OBVIOUS
<1>8. /\ x.name \in Syms /\ x.psect \in Names /\ i \in 1..nextPsect
      /\ sym[x.name].value = x.val + (IF Over(i) THEN 0 ELSE Base[k][i]) + Moved(i)
  BY <1>6, <1>7 DEF SymAt
<1>9. Slot(x.psect, "PSECT") = i
  BY <1>5, <1>7, <1>8, SlotIs
<1>10. TextBlock(i) = IF Over(i) THEN 0 ELSE Base[k][i]
  <2>1. psectInfo[i].ovr => Over(i)
    BY <1>1, <1>8 DEF OvrDeclared, Over
  <2>2. Over(i) /\ ~psectInfo[i].ovr => Base[k][i] = 0
    BY <1>1, <1>3, <1>8 DEF OverZero
  <2>3. psectInfo[i].blk = Base[k][i]
    BY <1>3, <1>8
  <2> QED BY <2>1, <2>2, <2>3 DEF TextBlock
<1>11. Moved(i) = IF job.R THEN 0 ELSE psectInfo[i].link
  BY <1>8 DEF Moved, AbsAtZero
<1> QED BY <1>8, <1>9, <1>10, <1>11

-----------------------------------------------------------------------------
(* The psects apart *)

\* The items of -p that finPass1 has been through, and whether they name psect i
Cut(k) == pc \in {"spec", "class"} => k < specIdx
Named(i) == \E k \in 1..Len(job.loc) : Cut(k) /\ job.loc[k].name = psectInfo[i].name

\* Psect i is given an address of its own: a global one by an item of -p, a local one in
\* no class after the items.
Due(i) == /\ i # 1 /\ psectInfo[i].kind = "PSECT"
          /\ IF psectInfo[i].glob THEN Named(i) ELSE psectInfo[i].cls = 0
Done(i) == Due(i) /\ psectInfo[i].set

Apart(i, j) == \/ psectInfo[i].link + Total(i) <= psectInfo[j].link
               \/ psectInfo[j].link + Total(j) <= psectInfo[i].link

\* how far finPass1 is
Progress ==
  /\ pc = "spec" /\ specIdx = 1 => linkPt = 0
  /\ pc \in {"spec", "class"} => idx = 1
  /\ pc = "class" => psectInfo[ItemSlot].kind = "CLASS"
  /\ \A i \in 1..nextPsect : idx <= i => psectInfo[i].blk = Total(i)

\* every psect that is due by now has an address
Overdue(i) == Due(i) /\ (psectInfo[i].glob \/ i < idx \/ pass = 1)
AllSet == \A i \in 1..nextPsect : Overdue(i) => psectInfo[i].set

Below == \A i \in 1..nextPsect : Done(i) => psectInfo[i].link + Total(i) <= linkPt
AllApart == \A i, j \in 1..nextPsect : i # j /\ Done(i) /\ Done(j) => Apart(i, j)

\* While pass 0 reads, no psect has an address yet, and what finPass1 must not move is
\* global and in no class.
Unmoved(p) == /\ p.abs => p.glob /\ AbsName(p.name)
              /\ p.cls # 0 => ~AbsName(p.name)
Unset(table) == \A j \in 1..MaxPsects : /\ ~table[j].set /\ table[j].link = 0
                                        /\ AbsFixed => Unmoved(table[j])

LInv ==
  /\ InPass0 => Unset(psectInfo)
  /\ ~job.R /\ OneRun => /\ pc \in Layout => Progress /\ Below
                         /\ pc \in Layout \/ pass = 1 => AllSet /\ AllApart

LEMMA AlignsUp ==
  ASSUME NEW x \in Nat, NEW n \in Nat PROVE x <= AlignUp(x, n)
<1>1. CASE n = 0
  BY <1>1 DEF AlignUp
<1>2. CASE n # 0
  <2>1. PICK r \in 0..(n - 1) : r = x % n
    BY <1>2
  <2> QED BY <1>2, <2>1 DEF AlignUp
<1> QED BY <1>1, <1>2

LEMMA TotalType ==
  ASSUME TypeOK, SizesGrow, AllSized, pass = 1 \/ pc \in Layout, NEW i \in 1..nextPsect
  PROVE  Total(i) \in Nat
<1>1. PICK n \in Nat : n = Len(bases)
  BY DEF SizesGrow
<1>2. n \in 1..Len(bases) /\ n \in DOMAIN bases /\ i \in DOMAIN bases[n] /\ i \in 1..MaxPsects
  BY <1>1, Typed DEF SizesGrow, AllSized
<1>3. Base[n][i] \in Nat
  BY <1>2 DEF SizesGrow
<1> QED BY <1>1, <1>2, <1>3 DEF Base, Total

\* What finPass1 sees of the psects of a name: a global one is the only one.
LEMMA OnlySlot ==
  ASSUME TypeOK, UniqueVisible, pass = 0, NEW i \in 1..nextPsect,
         psectInfo[i].glob, psectInfo[i].kind = "PSECT"
  PROVE  Slot(psectInfo[i].name, "PSECT") = i
<1> DEFINE S == Slots(psectInfo[i].name, "PSECT")
<1>1. i \in S /\ S \subseteq 1..nextPsect /\ nextPsect \in Nat
  BY Typed DEF Slots
<1>2. ASSUME NEW j \in S PROVE j = i
  <2>1. /\ j \in 1..nextPsect /\ psectInfo[j].name = psectInfo[i].name
        /\ psectInfo[j].kind = "PSECT"
        /\ psectInfo[j].glob \/ psectInfo[j].fileId = fileIdx \/ job.R
    BY DEF Slots
  <2>2. psectInfo[i].fileId \in Nat /\ psectInfo[j].fileId \in Nat /\ fileIdx \in Nat
    <3>1. psectInfo[i] \in PsectEntry /\ psectInfo[j] \in PsectEntry
      BY <2>1, Typed
    <3>2. fileIdx \in Nat
      BY DEF TypeOK
    <3> QED BY <3>1, <3>2 DEF PsectEntry
  <2>3. ~(j < i)
    BY <2>1, <2>2 DEF UniqueVisible
  <2>4. ~(i < j)
    BY <2>1 DEF UniqueVisible
  <2> QED BY <1>1, <2>1, <2>3, <2>4
<1> HIDE DEF S
<1>3. S = {i}
  BY <1>1, <1>2
<1>4. FirstOf({i}) = i
  BY <1>1 DEF FirstOf
<1> QED BY <1>3, <1>4 DEF Slot, S

LEMMA NamedSame ==
  ASSUME job' = job, SameNames, NEW i \in 1..nextPsect,
         \A k \in 1..Len(job.loc) : Cut(k)' => Cut(k)
  PROVE  Named(i)' => Named(i)
BY DEF Named, SameNames

LEMMA CutSame ==
  ASSUME \/ UNCHANGED <<pc, specIdx>> \/ pc \notin {"spec", "class"}, NEW k, Cut(k)'
  PROVE  Cut(k)
BY DEF Cut

\* Psect m alone may be given an address, and if so one past those given before.
Lays(m) ==
  /\ UNCHANGED <<job, nextPsect, bases>> /\ SameNames
  /\ \A i \in 1..nextPsect : /\ psectInfo'[i].cls = psectInfo[i].cls
                             /\ psectInfo[i].set => /\ psectInfo'[i].set
                                                    /\ psectInfo'[i].link = psectInfo[i].link
  /\ linkPt <= linkPt'
  /\ \A i \in 1..nextPsect : Done(i)' =>
       \/ Done(i)
       \/ /\ i = m /\ linkPt <= psectInfo'[i].link
          /\ psectInfo'[i].link + Total(i) <= linkPt'

LEMMA LaysApart ==
  ASSUME TypeOK, TypeOK', \A i \in 1..nextPsect : Total(i) \in Nat,
         NEW m \in 1..nextPsect, Lays(m), Below, AllApart
  PROVE  Below' /\ AllApart'
<1>1. /\ nextPsect' = nextPsect /\ linkPt \in Nat /\ linkPt <= linkPt'
      /\ \A i \in 1..nextPsect : Total(i)' = Total(i)
  BY Typed DEF Lays, Total
<1>2. linkPt' \in Nat
  BY DEF TypeOK
<1>3. ASSUME NEW i \in 1..nextPsect
      PROVE  psectInfo[i].link \in Nat /\ psectInfo'[i].link \in Nat
  <2>1. psectInfo[i] \in PsectEntry /\ i \in 1..MaxPsects
    BY Typed
  <2>2. psectInfo'[i] \in PsectEntry
    BY <2>1 DEF TypeOK
  <2> QED BY <2>1, <2>2 DEF PsectEntry
<1>4. ASSUME NEW i \in 1..nextPsect, Done(i)
      PROVE  /\ psectInfo'[i].link = psectInfo[i].link
             /\ psectInfo[i].link + Total(i) <= linkPt
  BY <1>4 DEF Lays, Below, Done
<1>5. ASSUME NEW i \in 1..nextPsect, Done(i)', ~Done(i)
      PROVE  /\ i = m /\ linkPt <= psectInfo'[i].link
             /\ psectInfo'[i].link + Total(i) <= linkPt'
  BY <1>5 DEF Lays
<1>6. Below'
  <2> SUFFICES ASSUME NEW i \in 1..nextPsect, Done(i)'
               PROVE  psectInfo'[i].link + Total(i) <= linkPt'
    BY <1>1 DEF Below
  <2>1. CASE Done(i)
    BY <1>1, <1>2, <1>3, <1>4, <2>1
  <2> QED BY <1>5, <2>1
<1>7. AllApart'
  <2> SUFFICES ASSUME NEW i \in 1..nextPsect, NEW j \in 1..nextPsect, i # j, Done(i)', Done(j)'
               PROVE  \/ psectInfo'[i].link + Total(i) <= psectInfo'[j].link
                      \/ psectInfo'[j].link + Total(j) <= psectInfo'[i].link
    BY <1>1 DEF AllApart, Apart
  <2>1. CASE Done(i) /\ Done(j)
    <3>1. Apart(i, j)
      BY <2>1 DEF AllApart
    <3> QED BY <1>4, <2>1, <3>1 DEF Apart
  <2>2. CASE Done(i) /\ ~Done(j)
    BY <1>1, <1>3, <1>4, <1>5, <2>2
  <2>3. CASE ~Done(i) /\ Done(j)
    BY <1>1, <1>3, <1>4, <1>5, <2>3
  <2>4. CASE ~Done(i) /\ ~Done(j)
    BY <1>5, <2>4
  <2> QED BY <2>1, <2>2, <2>3, <2>4
<1> QED BY <1>6, <1>7

\* a step that changes entry m, if any
LEMMA OneLaid ==
  ASSUME TypeOK, NEW m \in 1..nextPsect, NEW q, psectInfo' = [psectInfo EXCEPT ![m] = q],
         q.name = psectInfo[m].name, q.kind = psectInfo[m].kind, q.glob = psectInfo[m].glob,
         q.fileId = psectInfo[m].fileId, q.cls = psectInfo[m].cls,
         psectInfo[m].set => q.set /\ q.link = psectInfo[m].link,
         UNCHANGED <<job, nextPsect, bases>>, linkPt <= linkPt',
         \A i \in 1..nextPsect : psectInfo[i].glob /\ psectInfo[i].kind = "PSECT" /\ Named(i)' =>
           Named(i) \/ i = m,
         Due(m)' /\ ~Done(m) /\ q.set =>
           linkPt <= q.link /\ q.link + Total(m) <= linkPt'
  PROVE  /\ Lays(m) /\ psectInfo'[m] = q
         /\ \A i \in 1..nextPsect : i # m => psectInfo'[i] = psectInfo[i] /\ (Due(i)' => Due(i))
<1>1. psectInfo'[m] = q /\ \A i \in 1..nextPsect : i # m => psectInfo'[i] = psectInfo[i]
  BY Typed
<1>2. SameNames /\ \A i \in 1..nextPsect : psectInfo'[i].cls = psectInfo[i].cls
  BY <1>1 DEF SameNames
<1>3. ASSUME NEW i \in 1..nextPsect, i # m, Due(i)' PROVE Due(i)
  BY <1>1, <1>3 DEF Due
<1>4. ASSUME NEW i \in 1..nextPsect, Done(i)', ~Done(i)
      PROVE  /\ i = m /\ linkPt <= psectInfo'[i].link
             /\ psectInfo'[i].link + Total(i) <= linkPt'
  <2>1. i = m
    BY <1>1, <1>3, <1>4 DEF Done
  <2>2. Due(m)' /\ ~Done(m) /\ q.set
    BY <1>1, <1>4, <2>1 DEF Done
  <2> QED BY <1>1, <2>1, <2>2
<1> QED BY <1>1, <1>2, <1>3, <1>4 DEF Lays

LEMMA NoneLaid ==
  ASSUME TypeOK, UNCHANGED <<job, psectInfo, nextPsect, bases>>, linkPt <= linkPt',
         \A i \in 1..nextPsect : psectInfo[i].glob /\ psectInfo[i].kind = "PSECT" /\ Named(i)' =>
           Named(i)
  PROVE  Lays(1) /\ 1 \in 1..nextPsect /\ \A i \in 1..nextPsect : Due(i)' => Due(i)
<1>1. \A i \in 1..nextPsect : Due(i)' => Due(i)
  BY DEF Due
<1> QED BY <1>1, Typed DEF Lays, Done, SameNames

\* a step of the layout: where it leads, and that it keeps the psects apart
LaysOn == (\E m \in 1..nextPsect : Lays(m)) /\ Progress' /\ AllSet'

LEMMA SetOn ==
  ASSUME AllSet, NEW m, Lays(m),
         \A i \in 1..nextPsect : Overdue(i)' => Overdue(i) \/ psectInfo'[i].set
  PROVE  AllSet'
BY DEF AllSet, Lays

\* an item takes up where the one before it has left off
LEMMA ItemUp ==
  ASSUME TypeOK, Progress, OneRun, pc = "spec", specIdx <= Len(job.loc), ItemSlot # 0
  PROVE  linkPt <= ItemLink
<1>1. /\ linkPt \in Nat /\ ItemLink \in Nat /\ specIdx \in Nat \ {0}
      /\ psectInfo[ItemSlot] \in PsectEntry
  BY ItemType, Typed
<1>2. Len(job.loc) \in Nat
  BY DEF TypeOK, Job
<1>3. CASE specIdx = 1
  BY <1>1, <1>3 DEF Progress
<1>4. CASE specIdx # 1
  <2>1. specIdx \in 2..Len(job.loc)
    BY <1>1, <1>2, <1>4
  <2>2. ItemLink = AlignUp(linkPt, psectInfo[ItemSlot].align)
    BY <2>1 DEF OneRun, Item, ItemLink
  <2>3. psectInfo[ItemSlot].align \in Nat
    BY <1>1 DEF PsectEntry
  <2> QED BY <1>1, <2>2, <2>3, AlignsUp
<1> QED BY <1>3, <1>4

\* the items that have been through are those before, and the present one
LEMMA NamedByItem ==
  ASSUME TypeOK, UniqueVisible, pass = 0, pc \in {"spec", "class"}, specIdx' = specIdx + 1,
         pc' \in {"spec", "class"}, job' = job, NEW i \in 1..nextPsect, psectInfo[i].glob,
         psectInfo[i].kind = "PSECT", psectInfo'[i].name = psectInfo[i].name,
         Named(i)'
  PROVE  Named(i) \/ (ItemSlot = i /\ psectInfo[ItemSlot].kind = "PSECT")
<1>1. PICK k \in 1..Len(job.loc) : k < specIdx + 1 /\ job.loc[k].name = psectInfo[i].name
  BY DEF Named, Cut
<1>2. k \in Nat /\ specIdx \in Nat
  BY Typed
<1>3. CASE k < specIdx
  BY <1>1, <1>3 DEF Named, Cut
<1>4. CASE k = specIdx
  <2>1. Slot(Item.name, "PSECT") = i
    BY <1>1, <1>4, OnlySlot DEF Item
  <2>2. i # 0
    BY Typed
  <2> QED BY <2>1, <2>2 DEF ItemSlot
<1> QED BY <1>1, <1>2, <1>3, <1>4

LEMMA SpecPsectLays ==
  ASSUME TypeOK, UniqueVisible, pass = 0, Progress, AllSet, OneRun,
         \A i \in 1..nextPsect : Total(i) \in Nat, PlaceSpecPsect, pc' \in Layout
  PROVE  LaysOn
<1>1. /\ psectInfo' = [psectInfo EXCEPT ![ItemSlot].link = ItemLink,
                                        ![ItemSlot].load = ItemLoad, ![ItemSlot].set = TRUE]
      /\ pc = "spec" /\ specIdx <= Len(job.loc) /\ ItemSlot # 0
      /\ psectInfo[ItemSlot].kind = "PSECT" /\ ~psectInfo[ItemSlot].set
      /\ linkPt' = ItemLink + psectInfo[ItemSlot].blk /\ specIdx' = specIdx + 1
      /\ UNCHANGED <<job, pc, pass, nextPsect, bases, idx>>
  BY DEF PlaceSpecPsect, Fatal, Layout, posVars, histVars
<1>2. PICK m \in 1..nextPsect : m = ItemSlot
  BY <1>1, ItemType
<1>3. PICK at \in Nat, to \in Nat : at = ItemLink /\ to = ItemLoad
  BY <1>1, ItemType
<1>4. psectInfo[m] \in PsectEntry /\ linkPt \in Nat /\ linkPt <= at /\ specIdx \in Nat \ {0}
  BY <1>1, <1>2, <1>3, ItemUp, Typed
<1> DEFINE q == [psectInfo[m] EXCEPT !.link = at, !.load = to, !.set = TRUE]
<1>5. psectInfo' = [psectInfo EXCEPT ![m] = q]
  BY <1>1, <1>2, <1>3
<1>6. /\ q.name = psectInfo[m].name /\ q.kind = psectInfo[m].kind /\ q.glob = psectInfo[m].glob
      /\ q.fileId = psectInfo[m].fileId /\ q.cls = psectInfo[m].cls /\ q.blk = psectInfo[m].blk
      /\ q.link = at /\ q.set /\ psectInfo[m].blk \in Nat
  BY <1>4 DEF PsectEntry
<1> HIDE DEF q
<1>7. psectInfo[m].blk = Total(m) /\ idx = 1
  BY <1>1, Typed DEF Progress
<1>8. linkPt <= linkPt' /\ linkPt <= q.link /\ q.link + Total(m) <= linkPt'
  BY <1>1, <1>2, <1>3, <1>4, <1>6, <1>7
<1>9. \A i \in 1..nextPsect : psectInfo'[i].name = psectInfo[i].name
  BY <1>5, <1>6, Typed
<1>10. ASSUME NEW i \in 1..nextPsect, psectInfo[i].glob, psectInfo[i].kind = "PSECT", Named(i)'
       PROVE  Named(i) \/ i = m
  BY <1>1, <1>2, <1>9, <1>10, NamedByItem
<1>11. /\ Lays(m) /\ psectInfo'[m] = q
       /\ \A i \in 1..nextPsect : i # m => psectInfo'[i] = psectInfo[i] /\ (Due(i)' => Due(i))
  BY <1>1, <1>2, <1>5, <1>6, <1>8, <1>10, OneLaid
<1>12. Progress'
  <2>1. \A i \in 1..nextPsect : psectInfo'[i].blk = psectInfo[i].blk /\ Total(i)' = Total(i)
    BY <1>1, <1>6, <1>11 DEF Total
  <2>2. \A i \in 1..nextPsect : idx <= i => psectInfo[i].blk = Total(i)
    BY DEF Progress
  <2>3. specIdx' # 1 /\ pc' = "spec" /\ idx' = 1 /\ nextPsect' = nextPsect
    BY <1>1, <1>4, <1>7
  <2>4. \A i \in 1..nextPsect' : idx' <= i => psectInfo'[i].blk = Total(i)'
    BY <1>1, <2>1, <2>2
  <2> QED BY <2>3, <2>4 DEF Progress
<1>13. AllSet'
  BY <1>1, <1>6, <1>11, SetOn DEF Overdue
<1> QED BY <1>11, <1>12, <1>13 DEF LaysOn

LEMMA SpecClassLays ==
  ASSUME TypeOK, UniqueVisible, pass = 0, Progress, AllSet, OneRun,
         PlaceSpecClass \/ SpecDone, pc' \in Layout
  PROVE  LaysOn
<1>1. /\ UNCHANGED <<job, fileIdx, psectInfo, nextPsect, bases, idx, specIdx, pass>>
      /\ pc = "spec" /\ pc' \in {"class", "place"}
  BY DEF PlaceSpecClass, SpecDone, tabVars, histVars, layVars
<1>2. linkPt <= linkPt'
  <2>1. CASE PlaceSpecClass
    BY <2>1, ItemUp DEF PlaceSpecClass
  <2>2. CASE SpecDone
    BY <2>2, Typed DEF SpecDone, layVars
  <2> QED BY <2>1, <2>2
<1>3. \A k \in 1..Len(job.loc) : Cut(k)' => Cut(k)
  <2>1. CASE PlaceSpecClass
    BY <1>1, <2>1 DEF PlaceSpecClass, Cut
  <2>2. CASE SpecDone
    <3>1. specIdx > Len(job.loc) /\ specIdx \in Nat /\ Len(job.loc) \in Nat
      BY <2>2, Typed DEF SpecDone, TypeOK, Job
    <3> QED BY <3>1 DEF Cut
  <2> QED BY <2>1, <2>2
<1>4. SameNames
  BY <1>1 DEF SameNames
<1>5. Lays(1) /\ 1 \in 1..nextPsect /\ \A i \in 1..nextPsect : Due(i)' => Due(i)
  BY <1>1, <1>2, <1>3, <1>4, NamedSame, NoneLaid
<1>6. Progress'
  <2>1. pc' = "class" => psectInfo'[ItemSlot'].kind = "CLASS"
    BY <1>1, <1>4, ItemSlotKept DEF PlaceSpecClass, SpecDone
  <2>2. \A i \in 1..nextPsect : Total(i)' = Total(i)
    BY <1>1 DEF Total
  <2> QED BY <1>1, <2>1, <2>2 DEF Progress
<1>7. AllSet'
  BY <1>1, <1>5, SetOn DEF Overdue
<1> QED BY <1>5, <1>6, <1>7 DEF LaysOn

\* Psects of a class are moved as well, but none of them is due.
LEMMA ClassMemberLays ==
  ASSUME TypeOK, Positions, Progress, AllSet, PlaceClassMember, pc' \in Layout
  PROVE  LaysOn
<1>1. PICK at, to :
        /\ psectInfo' = [psectInfo EXCEPT ![member].link = at, ![member].load = to,
                                          ![member].set = TRUE]
        /\ at = IF LinkMode = "CALCULATE" THEN AlignUp(linkPt, psectInfo[member].align)
                ELSE linkPt
        /\ linkPt' = IF LinkMode = "CALCULATE" THEN at + psectInfo[member].blk ELSE at
        /\ pc = "class" /\ member <= nextPsect
        /\ psectInfo[member].cls = ItemSlot /\ ~psectInfo[member].set
        /\ UNCHANGED <<job, pc, pass, fileIdx, nextPsect, bases, idx, specIdx>>
  BY DEF PlaceClassMember, Fatal, Layout, posVars, histVars
<1>2. PICK m \in 1..nextPsect : m = member
  BY <1>1, Typed
<1>3. psectInfo[m] \in PsectEntry /\ linkPt \in Nat
  BY <1>2, Typed
<1>4. ItemSlot # 0 /\ psectInfo[ItemSlot].kind = "CLASS" /\ psectInfo[m].cls # 0
  BY <1>1, <1>2 DEF Positions, Progress
<1> DEFINE q == [psectInfo[m] EXCEPT !.link = at, !.load = to, !.set = TRUE]
<1>5. psectInfo' = [psectInfo EXCEPT ![m] = q]
  BY <1>1, <1>2
<1>6. /\ q.name = psectInfo[m].name /\ q.kind = psectInfo[m].kind /\ q.glob = psectInfo[m].glob
      /\ q.fileId = psectInfo[m].fileId /\ q.cls = psectInfo[m].cls /\ q.blk = psectInfo[m].blk
      /\ q.set /\ psectInfo[m].blk \in Nat /\ psectInfo[m].align \in Nat
  BY <1>3 DEF PsectEntry
<1> HIDE DEF q
<1>7. linkPt <= linkPt'
  <2>1. AlignUp(linkPt, psectInfo[m].align) \in Nat
        /\ linkPt <= AlignUp(linkPt, psectInfo[m].align)
    BY <1>3, <1>6, AlignType, AlignsUp
  <2> QED BY <1>1, <1>2, <1>3, <1>6, <2>1
<1>8. SameNames
  BY <1>5, <1>6, Typed DEF SameNames
<1>9. \A i \in 1..nextPsect : Named(i)' => Named(i)
  BY <1>1, <1>8, CutSame, NamedSame
<1>10. ~Due(m)'
  <2>1. psectInfo'[m].glob = psectInfo[m].glob /\ psectInfo'[m].kind = psectInfo[m].kind
        /\ psectInfo'[m].cls # 0
    BY <1>4, <1>5, <1>6, Typed
  <2>2. Due(m)' => Due(m) /\ psectInfo[m].glob
    BY <1>9, <2>1 DEF Due
  <2> QED BY <1>1, <1>2, <2>2 DEF AllSet, Overdue
<1>11. /\ Lays(m) /\ psectInfo'[m] = q
       /\ \A i \in 1..nextPsect : i # m => psectInfo'[i] = psectInfo[i] /\ (Due(i)' => Due(i))
  BY <1>1, <1>2, <1>5, <1>6, <1>7, <1>9, <1>10, OneLaid
<1>12. Progress'
  <2>1. \A i \in 1..nextPsect : psectInfo'[i].blk = psectInfo[i].blk /\ Total(i)' = Total(i)
    BY <1>1, <1>6, <1>11 DEF Total
  <2>2. ItemSlot' = ItemSlot /\ ItemSlot \in 1..nextPsect
    BY <1>1, <1>4, <1>8, ItemSlotKept, ItemType DEF Positions
  <2>3. psectInfo'[ItemSlot'].kind = "CLASS"
    BY <1>4, <1>8, <2>2 DEF SameNames
  <2> QED BY <1>1, <2>1, <2>3 DEF Progress
<1>13. AllSet'
  BY <1>1, <1>6, <1>11, SetOn DEF Overdue
<1> QED BY <1>11, <1>12, <1>13 DEF LaysOn

LEMMA NoMemberLays ==
  ASSUME TypeOK, Positions, UniqueVisible, pass = 0, Progress, AllSet, SkipClassMember
  PROVE  LaysOn
<1>1. /\ UNCHANGED <<job, pass, fileIdx, psectInfo, nextPsect, bases, idx, linkPt>>
      /\ pc = "class" /\ pc' \in {"spec", "class"}
      /\ pc' = "class" => specIdx' = specIdx
      /\ pc' = "spec" => specIdx' = specIdx + 1
  BY DEF SkipClassMember, tabVars, histVars
<1>2. psectInfo[ItemSlot].kind = "CLASS" /\ linkPt \in Nat /\ specIdx \in Nat \ {0}
  BY <1>1, Typed DEF Progress
<1>3. SameNames
  BY <1>1 DEF SameNames
<1>4. ASSUME NEW i \in 1..nextPsect, psectInfo[i].glob, psectInfo[i].kind = "PSECT", Named(i)'
      PROVE  Named(i)
  <2>1. CASE pc' = "class"
    BY <1>1, <1>3, <1>4, <2>1, CutSame, NamedSame
  <2>2. CASE pc' = "spec"
    BY <1>1, <1>2, <1>4, <2>2, NamedByItem
  <2> QED BY <1>1, <2>1, <2>2
<1>5. Lays(1) /\ 1 \in 1..nextPsect /\ \A i \in 1..nextPsect : Due(i)' => Due(i)
  BY <1>1, <1>2, <1>4, NoneLaid
<1>6. Progress'
  <2>1. \A i \in 1..nextPsect : Total(i)' = Total(i)
    BY <1>1 DEF Total
  <2>2. pc' = "class" => psectInfo'[ItemSlot'].kind = "CLASS"
    BY <1>1, <1>2, <1>3, ItemSlotKept
  <2>3. pc' = "spec" => specIdx' # 1
    BY <1>1, <1>2
  <2> QED BY <1>1, <2>1, <2>2, <2>3 DEF Progress
<1>7. AllSet'
  BY <1>1, <1>5, SetOn DEF Overdue
<1> QED BY <1>5, <1>6, <1>7 DEF LaysOn

LEMMA ClassLays ==
  ASSUME TypeOK, Progress, AllSet, PlaceClass
  PROVE  LaysOn
<1>1. /\ UNCHANGED <<job, pass, psectInfo, nextPsect, bases, idx, linkPt>>
      /\ pc = "place" /\ pc' = "stray"
  BY DEF PlaceClass, tabVars, histVars
<1>2. SameNames /\ linkPt \in Nat
  BY <1>1, Typed DEF SameNames
<1>3. \A i \in 1..nextPsect : Named(i)' => Named(i)
  BY <1>1, <1>2, CutSame, NamedSame
<1>4. Lays(1) /\ 1 \in 1..nextPsect /\ \A i \in 1..nextPsect : Due(i)' => Due(i)
  BY <1>1, <1>2, <1>3, NoneLaid
<1>5. Progress'
  BY <1>1 DEF Progress, Total
<1>6. AllSet'
  BY <1>1, <1>4, SetOn DEF Overdue
<1> QED BY <1>4, <1>5, <1>6 DEF LaysOn

\* setPsectOrigin goes up
LEMMA OriginUp ==
  ASSUME TypeOK, NEW p \in PsectEntry, Advance(p)
  PROVE  /\ linkPt <= linkPt' /\ linkPt \in Nat
         /\ ~p.glob => linkPt <= OriginLink(p) /\ linkPt' = OriginLink(p) + p.blk
         /\ SetOrigin(p).cls = p.cls /\ SetOrigin(p).link = OriginLink(p) /\ SetOrigin(p).set
<1>1. linkPt \in Nat /\ p.align \in Nat /\ p.blk \in Nat /\ p.glob \in BOOLEAN
  BY Typed DEF PsectEntry
<1>2. AlignUp(linkPt, p.align) \in Nat /\ linkPt <= AlignUp(linkPt, p.align)
  BY <1>1, AlignType, AlignsUp
<1>3. SetOrigin(p).cls = p.cls /\ SetOrigin(p).link = OriginLink(p) /\ SetOrigin(p).set
  BY DEF SetOrigin, PsectEntry
<1> QED BY <1>1, <1>2, <1>3 DEF Advance, OriginLink

LEMMA StrayLays ==
  ASSUME TypeOK, Positions, Entries, Progress, AllSet, PlaceStray
  PROVE  LaysOn
<1>1. /\ UNCHANGED <<job, pc, pass, nextPsect, bases, idx>>
      /\ pc = "stray" /\ member <= nextPsect
      /\ \/ /\ ~psectInfo[member].set /\ psectInfo[member].cls = idx - 1
            /\ psectInfo' = [psectInfo EXCEPT ![member] = SetOrigin(psectInfo[member])]
            /\ Advance(psectInfo[member])
         \/ UNCHANGED <<psectInfo, linkPt>>
  BY DEF PlaceStray, posVars, histVars
<1>2. PICK m \in 1..nextPsect : m = member
  BY <1>1, Typed
<1>3. psectInfo[m] \in PsectEntry /\ linkPt \in Nat /\ idx \in Nat \ {0}
  BY <1>2, Typed
<1>4. CASE UNCHANGED <<psectInfo, linkPt>>
  <2>1. SameNames
    BY <1>4 DEF SameNames
  <2>2. \A i \in 1..nextPsect : Named(i)' => Named(i)
    BY <1>1, <2>1, CutSame, NamedSame
  <2>3. Lays(1) /\ 1 \in 1..nextPsect /\ \A i \in 1..nextPsect : Due(i)' => Due(i)
    BY <1>1, <1>3, <1>4, <2>2, NoneLaid
  <2>4. Progress'
    BY <1>1, <1>4 DEF Progress, Total
  <2>5. AllSet'
    BY <1>1, <1>4, <2>3, SetOn DEF Overdue
  <2> QED BY <2>3, <2>4, <2>5 DEF LaysOn
<1>5. CASE ~UNCHANGED <<psectInfo, linkPt>>
  <2> DEFINE q == SetOrigin(psectInfo[m])
  <2>1. /\ ~psectInfo[m].set /\ psectInfo[m].cls = idx - 1
        /\ psectInfo' = [psectInfo EXCEPT ![m] = q] /\ Advance(psectInfo[m])
    BY <1>1, <1>2, <1>5
  <2>2. /\ q.name = psectInfo[m].name /\ q.kind = psectInfo[m].kind
        /\ q.glob = psectInfo[m].glob /\ q.fileId = psectInfo[m].fileId
        /\ q.cls = psectInfo[m].cls /\ q.blk = psectInfo[m].blk /\ q.set
        /\ linkPt <= linkPt'
    BY <1>3, <2>1, SetOriginNames, SetOriginRest, OriginUp
  <2> HIDE DEF q
  <2>3. psectInfo[m].cls # 0
    <3>1. idx # 1
      BY <1>1 DEF Entries, AbsFirst, StrayClass
    <3> QED BY <1>3, <2>1, <3>1
  <2>4. SameNames
    BY <2>1, <2>2, Typed DEF SameNames
  <2>5. \A i \in 1..nextPsect : Named(i)' => Named(i)
    BY <1>1, <2>4, CutSame, NamedSame
  <2>6. ~Due(m)'
    <3>1. psectInfo'[m].glob = psectInfo[m].glob /\ psectInfo'[m].kind = psectInfo[m].kind
          /\ psectInfo'[m].cls # 0
      BY <2>1, <2>2, <2>3, Typed
    <3>2. Due(m)' => Due(m) /\ psectInfo[m].glob
      BY <2>5, <3>1 DEF Due
    <3> QED BY <2>1, <3>2 DEF AllSet, Overdue
  <2>7. /\ Lays(m) /\ psectInfo'[m] = q
        /\ \A i \in 1..nextPsect : i # m => psectInfo'[i] = psectInfo[i] /\ (Due(i)' => Due(i))
    BY <1>1, <2>1, <2>2, <2>5, <2>6, OneLaid
  <2>8. Progress'
    <3>1. \A i \in 1..nextPsect : psectInfo'[i].blk = psectInfo[i].blk /\ Total(i)' = Total(i)
      BY <1>1, <2>2, <2>7 DEF Total
    <3> QED BY <1>1, <3>1 DEF Progress
  <2>9. AllSet'
    BY <1>1, <2>2, <2>7, SetOn DEF Overdue
  <2> QED BY <2>7, <2>8, <2>9 DEF LaysOn
<1> QED BY <1>4, <1>5

\* the loop's own psect gets its final address
LEMMA FinishLays ==
  ASSUME TypeOK, Progress, AllSet, idx \in 1..nextPsect, pc \in {"place", "stray"},
         NEW p \in PsectEntry, FinishPsect(idx, p), linkPt <= linkPt',
         p.name = psectInfo[idx].name, p.kind = psectInfo[idx].kind,
         p.glob = psectInfo[idx].glob, p.fileId = psectInfo[idx].fileId,
         p.cls = psectInfo[idx].cls, psectInfo[idx].set => p.set /\ p.link = psectInfo[idx].link,
         Due(idx) /\ ~psectInfo[idx].set =>
           p.set /\ linkPt <= p.link /\ p.link + psectInfo[idx].blk <= linkPt'
  PROVE  LaysOn
<1>1. PICK m \in 1..nextPsect : m = idx
  OBVIOUS
<1> DEFINE q == [p EXCEPT !.blk = 0]
<1>2. /\ psectInfo' = [psectInfo EXCEPT ![m] = q] /\ pc' = "place" /\ idx' = m + 1
      /\ UNCHANGED <<job, pass, nextPsect, bases>>
  BY <1>1 DEF FinishPsect, histVars
<1>3. /\ q.name = psectInfo[m].name /\ q.kind = psectInfo[m].kind /\ q.glob = psectInfo[m].glob
      /\ q.fileId = psectInfo[m].fileId /\ q.cls = psectInfo[m].cls
      /\ q.set = p.set /\ q.link = p.link
  BY <1>1 DEF PsectEntry
<1> HIDE DEF q
<1>4. psectInfo[m].blk = Total(m) /\ m \in Nat
  BY <1>1, Typed DEF Progress
<1>5. SameNames
  BY <1>2, <1>3, Typed DEF SameNames
<1>6. \A i \in 1..nextPsect : Named(i)' => Named(i)
  BY <1>2, <1>5, CutSame, NamedSame
<1>7. psectInfo'[m] = q
  BY <1>2, Typed
<1>8. Due(m)' => Due(m)
  BY <1>3, <1>6, <1>7 DEF Due
<1>9. /\ Lays(m)
      /\ \A i \in 1..nextPsect : i # m => psectInfo'[i] = psectInfo[i] /\ (Due(i)' => Due(i))
  <2>1. psectInfo[m].set => q.set /\ q.link = psectInfo[m].link
    BY <1>1, <1>3
  <2>2. Due(m)' /\ ~Done(m) /\ q.set => linkPt <= q.link /\ q.link + Total(m) <= linkPt'
    BY <1>1, <1>3, <1>4, <1>8 DEF Done
  <2> QED BY <1>2, <1>3, <1>6, <2>1, <2>2, OneLaid
<1>10. Progress'
  <2>1. \A i \in 1..nextPsect : m + 1 <= i => psectInfo'[i].blk = psectInfo[i].blk
    BY <1>4, <1>9
  <2>2. \A i \in 1..nextPsect : Total(i)' = Total(i)
    BY <1>2 DEF Total
  <2>3. \A i \in 1..nextPsect : m + 1 <= i => psectInfo[i].blk = Total(i)
    BY <1>1, <1>4 DEF Progress
  <2> QED BY <1>2, <2>1, <2>2, <2>3 DEF Progress
<1>11. AllSet'
  <2> SUFFICES ASSUME NEW i \in 1..nextPsect, Overdue(i)'
               PROVE  Overdue(i) \/ psectInfo'[i].set
    BY <1>9, SetOn
  <2>1. CASE i = m
    BY <1>1, <1>3, <1>7, <1>8, <2>1 DEF Overdue
  <2>2. CASE i # m
    <3>1. Due(i) /\ psectInfo'[i] = psectInfo[i] /\ (i < m + 1 => i < idx)
      BY <1>1, <1>4, <1>9, <2>2 DEF Overdue
    <3> QED BY <1>2, <3>1 DEF Overdue
  <2> QED BY <2>1, <2>2
<1> QED BY <1>9, <1>10, <1>11 DEF LaysOn

LEMMA PsectLays ==
  ASSUME TypeOK, Progress, AllSet, PlacePsect, pc' \in Layout
  PROVE  LaysOn
<1>1. /\ pc = "place" /\ idx \in 1..nextPsect /\ psectInfo[idx] \in PsectEntry
      /\ FinishPsect(idx, Final(psectInfo[idx]))
      /\ IF NeedsOrigin(psectInfo[idx]) THEN Advance(psectInfo[idx])
                                        ELSE UNCHANGED <<linkPt, loadPt>>
  BY Typed DEF PlacePsect, Fatal, Layout
<1>2. PICK p \in PsectEntry : p = psectInfo[idx]
  BY <1>1
<1>3. PICK f \in PsectEntry : f = Final(p)
  BY SetOriginType DEF Final
<1>4. f.name = p.name /\ f.kind = p.kind /\ f.glob = p.glob /\ f.fileId = p.fileId
  BY <1>3, FinalKeeps
<1>5. linkPt \in Nat /\ p.glob \in BOOLEAN /\ (Due(idx) /\ ~p.set => ~p.glob /\ p.cls = 0)
  BY <1>1, <1>2, Typed DEF Due, AllSet, Overdue, PsectEntry
<1>6. CASE NeedsOrigin(p)
  <2>1. /\ linkPt <= linkPt'
        /\ ~p.glob => linkPt <= f.link /\ f.link + p.blk <= linkPt'
        /\ f.cls = p.cls /\ f.set /\ ~p.set
    <3>1. f = SetOrigin(p) /\ Advance(p) /\ ~p.set
      BY <1>1, <1>2, <1>3, <1>6 DEF Final, NeedsOrigin
    <3>2. OriginLink(p) \in Nat /\ p.blk \in Nat
      BY SetOriginType DEF PsectEntry
    <3> QED BY <3>1, <3>2, OriginUp
  <2> QED BY <1>1, <1>2, <1>3, <1>4, <1>5, <2>1, FinishLays
<1>7. CASE ~NeedsOrigin(p)
  <2>1. f = p /\ linkPt' = linkPt /\ ~(Due(idx) /\ ~p.set)
    BY <1>1, <1>2, <1>3, <1>5, <1>7 DEF Final, NeedsOrigin
  <2> QED BY <1>1, <1>2, <1>3, <1>5, <2>1, FinishLays
<1> QED BY <1>6, <1>7

LEMMA ClassDoneLays ==
  ASSUME TypeOK, Positions, Entries, Progress, AllSet, PlaceClassDone
  PROVE  LaysOn
<1>1. /\ pc = "stray" /\ FinishPsect(idx, psectInfo[idx]) /\ linkPt' = linkPt /\ linkPt \in Nat
      /\ idx <= nextPsect
  BY Typed DEF PlaceClassDone, Positions
<1>2. idx \in 1..nextPsect /\ psectInfo[idx] \in PsectEntry
  BY <1>1, Typed
<1>3. ~Due(idx)
  BY <1>1 DEF Due, Entries, StrayClass
<1> QED BY <1>1, <1>2, <1>3, FinishLays

LEMMA StepLays ==
  ASSUME IInv, CInv, OInv, SInv, TInv, Progress, AllSet, ~job.R, OneRun, pc \in Layout,
         pc' \in Layout, LayoutStep
  PROVE  LaysOn
<1>1. TypeOK /\ Positions /\ Entries /\ pass = 0
  BY DEF IInv, CInv, OInv, Whereabouts
<1>2. UniqueVisible
  BY DEF SInv, Layout, Lost
<1>3. \A i \in 1..nextPsect : Total(i) \in Nat
  BY <1>1, TotalType DEF TInv
<1>4. ~FinPass1 /\ ~SpecUnknown /\ ~PlaceReloc /\ ~RelocateSymbols /\ ~CommonCrash
      /\ ~KeepRelocatable
  BY DEF FinPass1, SpecUnknown, Fatal, PlaceReloc, RelocateSymbols, StartPass2, CommonCrash,
     KeepRelocatable, Layout
<1>5. CASE PlaceSpecPsect \/ PlaceSpecClass \/ SpecDone
  BY <1>1, <1>2, <1>3, <1>5, SpecPsectLays, SpecClassLays
<1>6. CASE PlaceClassMember \/ SkipClassMember
  BY <1>1, <1>2, <1>6, ClassMemberLays, NoMemberLays
<1>7. CASE PlacePsect \/ PlaceClass \/ PlaceStray \/ PlaceClassDone
  BY <1>1, <1>7, PsectLays, ClassLays, StrayLays, ClassDoneLays
<1> QED BY <1>4, <1>5, <1>6, <1>7 DEF LayoutStep

\* what the record that is read says of absolute psects
LEMMA AbsHere ==
  ASSUME IInv, AbsFixed, pc = "rec", recIdx <= Len(CurMod.recs)
  PROVE  /\ Rec.t = "PSECT" /\ Rec.abs => Rec.glob /\ AbsName(Rec.psect)
         /\ Rec.t = "XPSECT" /\ AbsName(Rec.psect) => Rec.cls = NoName
<1>1. PICK x : x = <<fileIdx, modIdx>>
  OBVIOUS
<1>2. Valid(x) /\ RecsOf(x) = CurMod.recs
  BY <1>1, HereIs DEF IInv
<1>3. PICK f : f = x[1] + 1
  OBVIOUS
<1>4. PICK m : m = x[2] + 1
  OBVIOUS
<1> DEFINE recs == job.files[f].mods[m].recs
<1>5. f \in 1..Len(job.files) /\ m \in 1..Len(job.files[f].mods) /\ recs = CurMod.recs
  BY <1>2, <1>3, <1>4, ValidPlace DEF IInv
<1>6. recIdx \in 1..Len(recs) /\ Rec = recs[recIdx]
  <2>1. recIdx \in Nat \ {0} /\ Len(CurMod.recs) \in Nat
    BY <1>2, ValidRecs DEF IInv, TypeOK
  <2> QED BY <1>5, <2>1 DEF Rec
<1>7. /\ Rec.t = "PSECT" /\ Rec.abs => Rec.glob
      /\ Rec.t = "XPSECT" /\ AbsName(Rec.psect) => Rec.cls = NoName
  <2>1. \A j \in 1..Len(recs) :
          /\ recs[j].t = "PSECT" /\ recs[j].abs => recs[j].glob
          /\ recs[j].t = "XPSECT" /\ AbsName(recs[j].psect) => recs[j].cls = NoName
    BY <1>5, Zenon DEF AbsFixed
  <2> HIDE DEF recs
  <2> QED BY <1>6, <2>1
<1>8. Rec.t = "PSECT" /\ Rec.abs => AbsName(Rec.psect)
  <2>1. Rec.t = "PSECT" /\ Rec.abs => Absolute(recs, Rec.psect)
    <3> HIDE DEF recs
    <3> QED BY <1>6 DEF Absolute
  <2> QED BY <1>5, <2>1, Zenon DEF AbsName
<1> QED BY <1>7, <1>8

LEMMA EntrySlot ==
  ASSUME TypeOK, NEW name, NEW kind, NEW i, i = Slot(name, kind), i # 0
  PROVE  i \in 1..MaxPsects /\ psectInfo[i] \in PsectEntry /\ psectInfo[i].name = name
<1>1. i \in Slots(name, kind)
  BY DEF Slot, FirstOf
<1> QED BY <1>1, Typed DEF Slots

LEMMA EnteredUnset ==
  ASSUME TypeOK, Unset(psectInfo), NEW name, NEW kind, NEW glob, NEW ovr, NEW abs,
         AbsFixed => (abs => glob /\ AbsName(name))
  PROVE  Unset(Entered(name, kind, glob, ovr, abs))
<1>1. psectInfo \in [1..MaxPsects -> PsectEntry]
  BY Typed
<1>2. CASE Slot(name, kind) = 0
  <2>1. PICK p : p = NewPsect(name, kind, glob, ovr, abs)
    OBVIOUS
  <2>2. ~p.set /\ p.link = 0 /\ (AbsFixed => Unmoved(p))
    BY <2>1 DEF NewPsect, Unmoved
  <2> QED BY <1>1, <1>2, <2>1, <2>2 DEF Entered, Unset
<1>3. CASE Slot(name, kind) # 0
  <2>1. PICK i : i = Slot(name, kind)
    OBVIOUS
  <2>2. i \in 1..MaxPsects /\ psectInfo[i] \in PsectEntry /\ psectInfo[i].name = name
    BY <1>3, <2>1, EntrySlot
  <2>3. PICK p : p = Merge(psectInfo[i], glob, ovr, abs)
    OBVIOUS
  <2>4. /\ p.set = psectInfo[i].set /\ p.link = psectInfo[i].link /\ p.cls = psectInfo[i].cls
        /\ p.name = name /\ p.glob = (psectInfo[i].glob \/ glob) /\ p.abs = (psectInfo[i].abs \/ abs)
    BY <2>2, <2>3 DEF Merge, PsectEntry
  <2>5. ~p.set /\ p.link = 0 /\ (AbsFixed => Unmoved(p))
    <3>1. ~psectInfo[i].set /\ psectInfo[i].link = 0 /\ (AbsFixed => Unmoved(psectInfo[i]))
      BY <2>2 DEF Unset
    <3> QED BY <2>2, <2>4, <3>1 DEF Unmoved
  <2>6. Entered(name, kind, glob, ovr, abs) = [psectInfo EXCEPT ![i] = p]
    BY <1>3, <2>1, <2>3 DEF Entered
  <2> QED BY <1>1, <2>2, <2>5, <2>6 DEF Unset
<1> QED BY <1>2, <1>3

\* a step that leaves of each entry what finPass1 goes by leaves them untouched
LEMMA UnsetKept ==
  ASSUME NEW t, NEW u, Unset(t),
         \A j \in 1..MaxPsects :
           /\ u[j].set = t[j].set /\ u[j].link = t[j].link /\ u[j].name = t[j].name
           /\ u[j].glob = t[j].glob /\ u[j].abs = t[j].abs
           /\ u[j].cls = t[j].cls \/ (AbsFixed => ~AbsName(t[j].name))
  PROVE  Unset(u)
BY DEF Unset, Unmoved

LEMMA XpsectUnset ==
  ASSUME IInv, XpsectRec, ~Fatal, Unset(psectInfo) PROVE Unset(psectInfo')
<1> USE DEF IInv
<1> DEFINE n == Missing(Rec.psect, "PSECT")
           i == SlotAfter(Rec.psect, "PSECT")
           c == IF Slot(Rec.cls, "CLASS") = 0 THEN nextPsect + n + 1 ELSE Slot(Rec.cls, "CLASS")
           k == IF Rec.cls = NoName THEN 0 ELSE Missing(Rec.cls, "CLASS")
           new == NewPsect(Rec.cls, "CLASS", TRUE, FALSE, FALSE)
           withPsect == Mentioned(Rec.psect)
           withClass == IF k = 1 THEN [withPsect EXCEPT ![c] = new] ELSE withPsect
<1>1. Room(n + k, 0) /\ Rec \in Record /\ Rec.t = "XPSECT" /\ pc = "rec" /\ recIdx <= Len(CurMod.recs)
  BY ReadingRec DEF XpsectRec, Reading
<1>2. Rec.psect \in AllNames /\ Rec.cls \in ClassNames \cup {NoName}
  BY <1>1, RecordFields DEF AllNames
<1>3. n \in {0, 1} /\ k \in {0, 1} /\ nextPsect \in 1..MaxPsects /\ MaxPsects \in Nat
      /\ fileIdx \in Nat
  BY LinkAssumption DEF TypeOK, Missing
<1>4. /\ withPsect \in [1..MaxPsects -> PsectEntry] /\ Unset(withPsect)
      /\ i \in 1..(nextPsect + n) /\ i \in 1..MaxPsects /\ nextPsect + n <= MaxPsects
      /\ withPsect[i].name = Rec.psect
  <2>1. nextPsect + (n + k) <= MaxPsects
    BY <1>1, <1>3, RoomType
  <2>2. nextPsect + n <= MaxPsects
    <3> HIDE DEF n, k
    <3> QED BY <1>3, <2>1
  <2>3. withPsect \in [1..MaxPsects -> PsectEntry] /\ i \in 1..(nextPsect + n)
    BY <1>2, <2>2, EnteredType DEF Mentioned
  <2>4. i \in 1..MaxPsects
    <3> HIDE DEF n, i
    <3> QED BY <1>3, <2>2, <2>3
  <2>5. withPsect[i].name = Rec.psect
    <3>1. CASE Slot(Rec.psect, "PSECT") = 0
      <4>1. withPsect[i] = NewPsect(Rec.psect, "PSECT", FALSE, FALSE, FALSE)
        BY <2>4, <3>1, Typed DEF Mentioned, Entered, SlotAfter
      <4> HIDE DEF withPsect, i
      <4> QED BY <4>1 DEF NewPsect
    <3>2. CASE Slot(Rec.psect, "PSECT") # 0
      <4>1. withPsect[i] = Merge(psectInfo[i], FALSE, FALSE, FALSE)
        BY <2>4, <3>2, Typed DEF Mentioned, Entered, SlotAfter
      <4>2. psectInfo[i] \in PsectEntry /\ psectInfo[i].name = Rec.psect
        BY <3>2, EntrySlot DEF SlotAfter
      <4> HIDE DEF withPsect, i
      <4> QED BY <4>1, <4>2 DEF Merge, PsectEntry
    <3> QED BY <3>1, <3>2
  <2>6. Unset(withPsect)
    BY EnteredUnset DEF Mentioned
  <2> HIDE DEF withPsect, n, i
  <2> QED BY <2>2, <2>3, <2>4, <2>5, <2>6
<1>5. /\ withClass \in [1..MaxPsects -> PsectEntry] /\ Unset(withClass)
      /\ withClass[i].name = Rec.psect
  <2>1. CASE k = 1
    <3>1. Rec.cls \in AllNames
      BY <1>2, <2>1 DEF AllNames
    <3>2. new \in PsectEntry /\ ~new.set /\ new.link = 0 /\ Unmoved(new)
      BY <1>3, <3>1, NewEntry DEF NewPsect, Unmoved
    <3>3. c = nextPsect + n + 1
      BY <2>1 DEF Missing
    <3> HIDE DEF c, k, withPsect, new, i, n
    <3>4. i # c
      BY <1>3, <1>4, <3>3
    <3>5. withClass \in [1..MaxPsects -> PsectEntry]
      BY <1>4, <2>1, <3>2
    <3>6. Unset(withClass)
      BY <1>4, <2>1, <3>2 DEF Unset
    <3> QED BY <1>4, <2>1, <3>4, <3>5, <3>6
  <2>2. CASE k # 1
    <3> HIDE DEF k, withPsect, i
    <3> QED BY <1>4, <2>2
  <2> QED BY <2>1, <2>2
<1> DEFINE p == withClass[i]
           cls == IF Rec.cls # NoName /\ p.cls = 0 THEN c ELSE p.cls
           max == IF Rec.max # 0 /\ (p.max = 0 \/ Rec.max < p.max) THEN Rec.max ELSE p.max
           align == IF Rec.align # 0 /\ (p.align = 0 \/ Rec.align < p.align)
                    THEN Rec.align ELSE p.align
           q == [p EXCEPT !.cls = cls, !.max = max, !.align = align]
<1>6. i \in 1..MaxPsects /\ p \in PsectEntry /\ p.name = Rec.psect
  <2> HIDE DEF withClass, i
  <2> QED BY <1>4, <1>5
<1>7. psectInfo' = [withClass EXCEPT ![i] = q]
  BY <1>1, <1>5, <1>6 DEF XpsectRec
<1>8. /\ q.set = p.set /\ q.link = p.link /\ q.name = p.name /\ q.glob = p.glob /\ q.abs = p.abs
      /\ q.cls = p.cls \/ Rec.cls # NoName
  <2> HIDE DEF withClass, i, c, max, align
  <2> QED BY <1>6 DEF PsectEntry
<1>9. AbsFixed /\ Rec.cls # NoName => ~AbsName(Rec.psect)
  BY <1>1, AbsHere
<1> HIDE DEF n, i, c, k, new, withPsect, withClass, q
<1>10. \A j \in 1..MaxPsects :
         /\ psectInfo'[j].set = withClass[j].set /\ psectInfo'[j].link = withClass[j].link
         /\ psectInfo'[j].name = withClass[j].name /\ psectInfo'[j].glob = withClass[j].glob
         /\ psectInfo'[j].abs = withClass[j].abs
         /\ psectInfo'[j].cls = withClass[j].cls \/ (AbsFixed => ~AbsName(withClass[j].name))
  BY <1>5, <1>6, <1>7, <1>8, <1>9
<1> QED BY <1>5, <1>10, UnsetKept

LEMMA ReadsUnset ==
  ASSUME IInv, InPass0, Unset(psectInfo), [Next]_vars, InPass0' PROVE Unset(psectInfo')
<1>1. pass = 0 /\ pc \in {"open", "scan", "rec"} /\ ~Fatal
      /\ pc' \in {"open", "scan", "rec"}
  BY DEF InPass0, Fatal
<1>2. CASE PsectRec \/ SymNullPass1
  <2>1. CASE PsectRec
    <3>1. AbsFixed => (Rec.abs => Rec.glob /\ AbsName(Rec.psect))
      BY <2>1, AbsHere DEF PsectRec, Reading
    <3> QED BY <1>1, <2>1, <3>1, EnteredUnset DEF PsectRec, IInv
  <2> QED BY <1>1, <1>2, <2>1, EnteredUnset DEF SymNullPass1, Mentioned, IInv
<1>3. CASE XpsectRec
  BY <1>1, <1>3, XpsectUnset
<1>4. CASE TextRecPass1
  <2>1. PICK t, i, end : /\ t = Mentioned(Rec.psect)
                         /\ psectInfo' = [t EXCEPT ![i].end = end]
    BY <1>1, <1>4 DEF TextRecPass1, Grown
  <2>2. Unset(t)
    BY <2>1, EnteredUnset DEF Mentioned, IInv
  <2>3. t \in [1..MaxPsects -> PsectEntry]
    <3>1. Rec \in Record /\ Rec.t = "TEXT" /\ Room(Missing(Rec.psect, "PSECT"), 0)
      BY <1>1, <1>4, ReadingRec DEF TextRecPass1, Reading, IInv
    <3>2. Rec.psect \in AllNames
      BY <3>1, RecordFields DEF AllNames
    <3>3. Missing(Rec.psect, "PSECT") \in {0, 1}
      BY DEF Missing
    <3>4. nextPsect + Missing(Rec.psect, "PSECT") <= MaxPsects
      BY <3>1, <3>3, RoomType DEF IInv
    <3> QED BY <2>1, <3>2, <3>4, EnteredType DEF Mentioned, IInv
  <2>4. \A j \in 1..MaxPsects :
          /\ psectInfo'[j].set = t[j].set /\ psectInfo'[j].link = t[j].link
          /\ psectInfo'[j].name = t[j].name /\ psectInfo'[j].glob = t[j].glob
          /\ psectInfo'[j].abs = t[j].abs /\ psectInfo'[j].cls = t[j].cls
    BY <2>1, <2>3 DEF PsectEntry
  <2> QED BY <2>2, <2>4, UnsetKept
<1>5. CASE EndRec
  <2>1. \A j \in 1..MaxPsects : psectInfo[j] \in PsectEntry
    BY Typed DEF IInv
  <2>2. \A j \in 1..MaxPsects :
          psectInfo'[j] = psectInfo[j] \/ psectInfo'[j] = EndOfModule(psectInfo[j])
    BY <1>5 DEF EndRec
  <2>3. ASSUME NEW j \in 1..MaxPsects
        PROVE  LET u == EndOfModule(psectInfo[j])
                   t == psectInfo[j]
               IN /\ u.set = t.set /\ u.link = t.link /\ u.name = t.name
                  /\ u.glob = t.glob /\ u.abs = t.abs /\ u.cls = t.cls
    BY <2>1 DEF EndOfModule, PsectEntry
  <2> QED BY <2>2, <2>3, UnsetKept
<1>6. CASE \/ IdentRec \/ RelocRecPass1 \/ SymExternPass1 \/ SymCommPass1 \/ SkipRec
           \/ OpenFile \/ ScanModule \/ CloseLibrary \/ UNCHANGED vars
  <2>1. psectInfo' = psectInfo
    <3>1. CASE IdentRec \/ RelocRecPass1 \/ SymExternPass1 \/ SymCommPass1 \/ SkipRec
      BY <1>1, <3>1 DEF IdentRec, RelocRecPass1, SymExternPass1, SymCommPass1, SkipRec, Mention,
         tabVars
    <3>2. CASE OpenFile \/ ScanModule \/ CloseLibrary \/ UNCHANGED vars
      BY <1>1, <3>2 DEF OpenFile, ScanModule, CloseLibrary, tabVars, vars
    <3> QED BY <1>6, <3>1, <3>2
  <2> QED BY <2>1
<1>7. ~LayoutStep
  BY <1>1 DEF LayoutStep, FinPass1, PlaceSpecPsect, PlaceSpecClass, PlaceClassMember,
     SkipClassMember, SpecUnknown, SpecDone, PlaceReloc, PlacePsect, PlaceClass, PlaceStray,
     PlaceClassDone, RelocateSymbols, CommonCrash, KeepRelocatable
<1>8. ~DoModule /\ ~Pass2Rec /\ ~FinPass2 /\ ~NoEndRecord
  BY <1>1 DEF DoModule, FinPass2, Pass2Rec, TextRecPass2, RelocRecPass2, SymRecPass2,
     StartRecPass2, Reading, NoEndRecord
<1>9. ~Exited
  BY <1>1 DEF Exited, ExitPoints
<1> QED BY <1>2, <1>3, <1>4, <1>5, <1>6, <1>7, <1>8, <1>9 DEF Next, Step, ReadStep, Pass1Rec

LEMMA SameAbs ==
  ASSUME job' = job
  PROVE  /\ AbsFixed' <=> AbsFixed
         /\ \A n : AbsName(n)' <=> AbsName(n)
         /\ Unset(psectInfo') => Unset(psectInfo)'
<1>1. AbsFixed' <=> AbsFixed
  BY DEF AbsFixed, AbsName, Absolute
<1>2. \A n : AbsName(n)' <=> AbsName(n)
  BY DEF AbsName, Absolute
<1>3. \A p : Unmoved(p)' <=> Unmoved(p)
  BY <1>2 DEF Unmoved
<1>4. Unset(psectInfo') => Unset(psectInfo)'
  BY <1>1, <1>3 DEF Unset
<1> QED BY <1>1, <1>2, <1>4

LEMMA InitLays == Init => LInv
<1> SUFFICES ASSUME Init PROVE LInv
  OBVIOUS
<1>1. Unset(psectInfo)
  <2>1. ~AbsEntry.set /\ AbsEntry.link = 0 /\ Unmoved(AbsEntry)
    BY DEF AbsEntry, NewPsect, Unmoved, AbsName
  <2> QED BY <2>1 DEF Init, Unset
<1>2. pass = 0 /\ pc = "open"
  BY DEF Init
<1> QED BY <1>1, <1>2 DEF LInv, Layout

\* finPass1 begins with no psect laid out, and with the sizes that pass 0 has found
LEMMA BeginLays ==
  ASSUME IInv, BasesType, ~job.R, Unset(psectInfo), FinPass1
  PROVE  Progress' /\ Below' /\ AllSet' /\ AllApart'
<1>1. /\ UNCHANGED <<job, psectInfo, nextPsect, pass>> /\ pass = 0
      /\ pc' \in {"spec", "place"} /\ (pc' = "place" => job.loc = <<>>)
      /\ linkPt' = 0 /\ specIdx' = 1 /\ idx' = 1 /\ bases' = Append(bases, Sizes)
  BY DEF FinPass1, Bases, tabVars
<1>2. \A i \in 1..nextPsect : ~psectInfo'[i].set
  BY <1>1, Typed DEF IInv, Unset
<1>3. \A i \in 1..nextPsect : ~Done(i)'
  BY <1>2 DEF Done
<1>4. Below' /\ AllApart'
  BY <1>1, <1>3 DEF Below, AllApart
<1>5. Progress'
  <2>1. PICK n \in Nat : n = Len(bases)
    BY BasesSeq
  <2>2. Len(bases') = n + 1 /\ bases'[n + 1] = Sizes
    BY <1>1, <2>1
  <2>3. \A i \in 1..nextPsect : Total(i)' = psectInfo[i].blk
    BY <2>2 DEF Total, Sizes
  <2> QED BY <1>1, <2>3 DEF Progress
<1>6. AllSet'
  <2> SUFFICES ASSUME NEW i \in 1..nextPsect, Overdue(i)' PROVE FALSE
    BY <1>1 DEF AllSet
  <2>1. i \in Nat /\ ~(i < 1) /\ Named(i)'
    <3>1. i \in Nat /\ ~(i < 1)
      BY Typed DEF IInv
    <3> QED BY <1>1, <3>1 DEF Overdue, Due
  <2>2. PICK k \in 1..Len(job.loc) : Cut(k)'
    BY <1>1, <2>1 DEF Named
  <2>3. k \in Nat /\ ~(k < 1)
    <3>1. Len(job.loc) \in Nat
      BY DEF IInv, TypeOK, Job
    <3> QED BY <3>1
  <2>4. pc' = "place"
    BY <1>1, <2>2, <2>3 DEF Cut
  <2> QED BY <1>1, <2>2, <2>4
<1> QED BY <1>4, <1>5, <1>6

\* All psects that are due have an address, those of the items and those of the loop, and
\* pass 1 changes none.
LEMMA KeptApart ==
  ASSUME UNCHANGED <<job, nextPsect, bases>>, SameNames, AllApart,
         pc \notin {"spec", "class"}, pc' \notin {"spec", "class"},
         \A i \in 1..nextPsect : /\ psectInfo'[i].cls = psectInfo[i].cls
                                 /\ psectInfo'[i].set = psectInfo[i].set
                                 /\ psectInfo'[i].link = psectInfo[i].link,
         \A i \in 1..nextPsect : Due(i) => psectInfo[i].set
  PROVE  AllSet' /\ AllApart'
<1>1. \A i \in 1..nextPsect : Named(i)' => Named(i)
  BY CutSame, NamedSame
<1>2. \A i \in 1..nextPsect : Due(i)' => Due(i)
  BY <1>1 DEF Due, SameNames
<1>3. \A i, j \in 1..nextPsect : Apart(i, j)' <=> Apart(i, j)
  BY DEF Apart, Total
<1>4. AllSet'
  BY <1>2 DEF AllSet, Overdue
<1>5. AllApart'
  BY <1>2, <1>3 DEF AllApart, Done
<1> QED BY <1>4, <1>5

LEMMA EndLays ==
  ASSUME TypeOK, Progress, AllSet, AllApart, RelocateSymbols
  PROVE  AllSet' /\ AllApart'
<1>1. /\ UNCHANGED <<job, psectInfo, nextPsect, bases>> /\ pc = "place" /\ idx > nextPsect
      /\ pc' \in {"failed", "open"}
  BY DEF RelocateSymbols, StartPass2, histVars
<1>2. \A i \in 1..nextPsect : i < idx
  BY <1>1, Typed
<1>3. \A i \in 1..nextPsect : Due(i) => psectInfo[i].set
  BY <1>2 DEF AllSet, Overdue
<1> QED BY <1>1, <1>3, KeptApart DEF SameNames

LEMMA InLayout ==
  ASSUME pc \in Layout, [Next]_vars
  PROVE  LayoutStep \/ UNCHANGED vars
<1> USE DEF Layout
<1>1. ~OpenFile /\ ~ScanModule /\ ~DoModule /\ ~CloseLibrary /\ ~NoEndRecord /\ ~EndRec
      /\ ~FinPass2
  BY DEF OpenFile, ScanModule, DoModule, CloseLibrary, NoEndRecord, EndRec, FinPass2
<1>2. ~Pass1Rec /\ ~Pass2Rec /\ ~SkipRec
  BY DEF Pass1Rec, IdentRec, PsectRec, XpsectRec, TextRecPass1, RelocRecPass1, SymExternPass1,
     SymCommPass1, SymNullPass1, Pass2Rec, TextRecPass2, RelocRecPass2, SymRecPass2,
     StartRecPass2, SkipRec, Reading
<1>3. ~Exited
  BY DEF Exited, ExitPoints
<1> QED BY <1>1, <1>2, <1>3 DEF Next, Step, ReadStep

LEMMA NextLays ==
  ASSUME IInv, IInv', CInv, OInv, OInv', SInv, TInv, TInv', LInv, [Next]_vars
  PROVE  LInv'
<1> USE DEF IInv
<1>1. job' = job /\ (OneRun' <=> OneRun)
  BY JobStays DEF OneRun
<1>2. CASE pc \in Layout /\ pc' \in Layout
  <2>1. ~InPass0'
    BY <1>2 DEF InPass0, Layout
  <2> SUFFICES ASSUME ~job.R, OneRun PROVE Progress' /\ Below' /\ AllSet' /\ AllApart'
    BY <1>1, <2>1 DEF LInv
  <2>2. Progress /\ Below /\ AllSet /\ AllApart
    BY <1>2 DEF LInv
  <2>3. CASE LayoutStep
    <3>1. LaysOn
      BY <1>2, <2>2, <2>3, StepLays
    <3>2. PICK m \in 1..nextPsect : Lays(m)
      BY <3>1 DEF LaysOn
    <3>3. \A i \in 1..nextPsect : Total(i) \in Nat
      BY <1>2, TotalType DEF TInv
    <3> QED BY <2>2, <3>1, <3>2, <3>3, LaysApart DEF LaysOn
  <2>4. CASE UNCHANGED vars
    BY <2>2, <2>4 DEF vars, posVars, tabVars, layVars, histVars, Progress, Below, AllSet,
       AllApart, Done, Due, Overdue, Named, Cut, Apart, Total, ItemSlot, Slot, Slots, Item
  <2> QED BY <1>2, <2>3, <2>4, InLayout
<1>3. CASE pc \in Layout /\ pc' \notin Layout
  <2>1. pass = 0 /\ LayoutStep /\ pc \notin {"open", "scan", "rec"}
    <3>1. pass = 0
      BY <1>3 DEF OInv, Whereabouts
    <3>2. ~UNCHANGED vars
      BY <1>3 DEF vars, posVars
    <3> QED BY <1>3, <3>1, <3>2, InLayout DEF Layout
  <2>2. CASE RelocateSymbols
    <3>1. pass' = 1 /\ pc' \notin Layout /\ ~job.R
      BY <2>2 DEF RelocateSymbols, StartPass2, Layout
    <3>2. OneRun => AllSet' /\ AllApart'
      BY <1>3, <2>2, <3>1, EndLays DEF LInv
    <3> QED BY <1>1, <3>1, <3>2 DEF LInv, InPass0
  <2>3. CASE KeepRelocatable
    <3>1. pass' = 1 /\ job.R
      BY <2>3 DEF KeepRelocatable, StartPass2
    <3> QED BY <1>1, <3>1 DEF LInv, InPass0
  <2>4. CASE ~RelocateSymbols /\ ~KeepRelocatable
    <3>1. ~FinPass1
      BY <2>1 DEF FinPass1
    <3>2. pass' = 0 /\ pc' \in Layout \cup Lost
      <4>1. CASE PlaceSpecPsect \/ PlaceSpecClass \/ PlaceClassMember \/ SkipClassMember
        BY <2>1, <4>1 DEF PlaceSpecPsect, PlaceSpecClass, PlaceClassMember, SkipClassMember,
           Fatal, posVars, Layout, Lost
      <4>2. CASE SpecUnknown \/ SpecDone \/ PlaceReloc \/ PlaceClass \/ CommonCrash
        BY <2>1, <4>2 DEF SpecUnknown, SpecDone, PlaceReloc, PlaceClass, CommonCrash, Fatal,
           posVars, Layout, Lost
      <4>3. CASE PlacePsect \/ PlaceStray \/ PlaceClassDone
        BY <2>1, <4>3 DEF PlacePsect, PlaceStray, PlaceClassDone, FinishPsect, Fatal, posVars,
           Layout, Lost
      <4> QED BY <2>1, <2>4, <3>1, <4>1, <4>2, <4>3 DEF LayoutStep
    <3> QED BY <1>3, <3>2 DEF LInv, InPass0, Lost
  <2> QED BY <2>2, <2>3, <2>4
<1>4. CASE pc \notin Layout /\ pass = 0
  <2>1. CASE pc \in Lost
    <3>1. UNCHANGED <<pc, pass>>
      BY <2>1, LostStays DEF vars, posVars
    <3> QED BY <1>4, <2>1, <3>1 DEF LInv, InPass0, Lost
  <2>2. CASE pc \notin Lost
    <3>1. InPass0
      BY <1>4, <2>2 DEF InPass0, TypeOK, ExitPoints, Layout, Lost, OInv, Whereabouts
    <3>2. Unset(psectInfo)
      BY <3>1 DEF LInv
    <3>3. InPass0' => Unset(psectInfo)'
      BY <1>1, <3>1, <3>2, ReadsUnset, JobStays, SameAbs
    <3>4. pass' = 0
      BY <1>4, Pass0Steps DEF TypeOK, Layout
    <3>5. CASE pc' \in Layout
      <4>1. FinPass1
        BY <1>4, <3>5, Pass0Steps
      <4>2. BasesType
        BY <2>2 DEF SInv
      <4>3. ~job.R => Progress' /\ Below' /\ AllSet' /\ AllApart'
        BY <3>2, <4>1, <4>2, BeginLays
      <4> QED BY <1>1, <3>5, <4>3 DEF LInv, InPass0, Layout
    <3>6. CASE pc' \notin Layout
      BY <3>3, <3>4, <3>6 DEF LInv
    <3> QED BY <3>5, <3>6
  <2> QED BY <2>1, <2>2
<1>5. CASE pass = 1
  <2>1. SecondPass /\ pass' = 1 /\ pc \notin Layout /\ pc' \notin Layout
    <3>1. SecondPass /\ pass' = 1
      BY <1>5, Pass1Steps DEF SecondPass
    <3> QED BY <1>5, <3>1 DEF OInv, Whereabouts
  <2> SUFFICES ASSUME ~job.R, OneRun PROVE AllSet' /\ AllApart'
    BY <1>1, <2>1 DEF LInv, InPass0
  <2>2. AllSet /\ AllApart
    BY <1>5 DEF LInv
  <2>3. \A i \in 1..nextPsect : Due(i) => psectInfo[i].set
    BY <1>5, <2>2 DEF AllSet, Overdue
  <2> QED BY <2>1, <2>2, <2>3, KeptApart DEF SecondPass, SameEntries, Layout
<1> QED BY <1>2, <1>3, <1>4, <1>5 DEF TypeOK

LEMMA NoneOverlap == IInv /\ OInv /\ LInv => PsectsDisjoint
<1> SUFFICES ASSUME IInv, OInv, LInv, pass = 1, ~job.R, OneRun,
                    NEW i \in 1..nextPsect, NEW j \in 1..nextPsect,
                    i # j, Placed(i), Placed(j)
             PROVE  Apart(i, j)
  BY DEF PsectsDisjoint, Apart
<1>1. AllSet /\ AllApart /\ pc \notin {"spec", "class"}
  BY DEF LInv, OInv, Whereabouts, Layout
<1>2. ASSUME NEW m \in 1..nextPsect, Placed(m) PROVE Done(m)
  <2>1. psectInfo[m].kind = "PSECT" /\ psectInfo[m].glob \in BOOLEAN
    <3>1. psectInfo[m] \in PsectEntry
      BY Typed DEF IInv
    <3> QED BY <1>2, <3>1 DEF PsectEntry, Placed
  <2>2. Due(m)
    BY <1>1, <1>2, <2>1 DEF Due, Placed, Named, Cut
  <2> QED BY <1>1, <2>2 DEF AllSet, Overdue, Done
<1> QED BY <1>1, <1>2 DEF AllApart

-----------------------------------------------------------------------------
(* The absolute psects at 0 *)

\* Where the absolute psects are global and in no class finPass1 can move one only for an
\* item of -p that names it, and that is an error, with which no pass 1 begins.
AInv ==
  /\ pc \in Layout => \A i \in 1..nextPsect : Unmoved(psectInfo[i])
  /\ pc \in Layout /\ errCnt = 0 => AbsAtZero
  /\ pass = 1 /\ pc # "failed" => AbsAtZero

LEMMA InitAbs == Init => AInv
BY DEF Init, AInv, Layout

\* a step of finPass1 that moves no absolute psect without an error
LEMMA KeptAbs ==
  ASSUME AbsFixed, AInv, pc \in Layout, pc' \in Layout, pass' = 0, errCnt \in Nat,
         errCnt' \in Nat, errCnt <= errCnt', UNCHANGED <<job, nextPsect>>,
         \A i \in 1..nextPsect :
           /\ psectInfo'[i].name = psectInfo[i].name /\ psectInfo'[i].glob = psectInfo[i].glob
           /\ psectInfo'[i].abs = psectInfo[i].abs /\ psectInfo'[i].cls = psectInfo[i].cls
           /\ psectInfo[i].abs /\ errCnt' = 0 => psectInfo'[i].link = psectInfo[i].link
  PROVE  AInv'
<1>1. \A n : AbsName(n)' <=> AbsName(n)
  BY SameAbs
<1>2. \A i \in 1..nextPsect : Unmoved(psectInfo[i])'
  BY <1>1 DEF AInv, Unmoved
<1>3. errCnt' = 0 => AbsAtZero'
  BY DEF AInv, AbsAtZero
<1> QED BY <1>2, <1>3 DEF AInv

LEMMA OneMoved ==
  ASSUME TypeOK, AbsFixed, AInv, pc \in Layout, pc' \in Layout, pass' = 0,
         errCnt' \in Nat, errCnt <= errCnt', UNCHANGED <<job, nextPsect>>,
         NEW m \in 1..nextPsect, NEW q, psectInfo' = [psectInfo EXCEPT ![m] = q],
         q.name = psectInfo[m].name, q.glob = psectInfo[m].glob, q.abs = psectInfo[m].abs,
         q.cls = psectInfo[m].cls,
         psectInfo[m].abs /\ errCnt' = 0 => q.link = psectInfo[m].link
  PROVE  AInv'
<1>1. \A i \in 1..nextPsect : psectInfo'[i] = IF i = m THEN q ELSE psectInfo[i]
  BY Typed
<1> QED BY <1>1, KeptAbs, Typed

LEMMA NoneMoved ==
  ASSUME TypeOK, AbsFixed, AInv, pc \in Layout, pc' \in Layout, pass' = 0,
         errCnt' \in Nat, errCnt <= errCnt', UNCHANGED <<job, psectInfo, nextPsect>>
  PROVE  AInv'
BY KeptAbs, Typed

\* an item of -p that names an absolute psect is an error
LEMMA SpecAbs ==
  ASSUME TypeOK, AbsFixed, AInv, pass = 0, PlaceSpecPsect, pc' \in Layout
  PROVE  AInv'
<1>1. /\ psectInfo' = [psectInfo EXCEPT ![ItemSlot].link = ItemLink,
                                        ![ItemSlot].load = ItemLoad, ![ItemSlot].set = TRUE]
      /\ pc = "spec" /\ specIdx <= Len(job.loc) /\ ItemSlot # 0
      /\ errCnt' = errCnt + AbsError(ItemSlot)
      /\ UNCHANGED <<job, pc, pass, nextPsect>>
  BY DEF PlaceSpecPsect, Fatal, Layout, posVars
<1>2. PICK m \in 1..nextPsect : m = ItemSlot
  BY <1>1, ItemType
<1>3. psectInfo[m] \in PsectEntry /\ errCnt \in Nat
  BY <1>2, Typed
<1>4. PICK at, to : at = ItemLink /\ to = ItemLoad
  OBVIOUS
<1> DEFINE q == [psectInfo[m] EXCEPT !.link = at, !.load = to, !.set = TRUE]
<1>5. psectInfo' = [psectInfo EXCEPT ![m] = q]
  BY <1>1, <1>2, <1>4
<1>6. /\ q.name = psectInfo[m].name /\ q.glob = psectInfo[m].glob
      /\ q.abs = psectInfo[m].abs /\ q.cls = psectInfo[m].cls
  BY <1>3 DEF PsectEntry
<1> HIDE DEF q
<1>7. errCnt' \in Nat /\ errCnt <= errCnt' /\ (psectInfo[m].abs => errCnt' # 0)
  BY <1>1, <1>2, <1>3 DEF AbsError
<1> QED BY <1>1, <1>5, <1>6, <1>7, OneMoved

\* a psect of a class is not absolute
LEMMA MemberAbs ==
  ASSUME TypeOK, Positions, AbsFixed, AInv, pass = 0, PlaceClassMember, pc' \in Layout
  PROVE  AInv'
<1>1. PICK at, to :
        /\ psectInfo' = [psectInfo EXCEPT ![member].link = at, ![member].load = to,
                                          ![member].set = TRUE]
        /\ pc = "class" /\ member <= nextPsect /\ psectInfo[member].cls = ItemSlot
        /\ UNCHANGED <<job, pc, pass, nextPsect, errCnt>>
  BY DEF PlaceClassMember, Fatal, Layout, posVars
<1>2. PICK m \in 1..nextPsect : m = member
  BY <1>1, Typed
<1>3. psectInfo[m] \in PsectEntry /\ errCnt \in Nat
  BY <1>2, Typed
<1>4. psectInfo[m].cls # 0
  BY <1>1, <1>2 DEF Positions
<1> DEFINE q == [psectInfo[m] EXCEPT !.link = at, !.load = to, !.set = TRUE]
<1>5. psectInfo' = [psectInfo EXCEPT ![m] = q]
  BY <1>1, <1>2
<1>6. /\ q.name = psectInfo[m].name /\ q.glob = psectInfo[m].glob
      /\ q.abs = psectInfo[m].abs /\ q.cls = psectInfo[m].cls
  BY <1>3 DEF PsectEntry
<1> HIDE DEF q
<1>7. ~psectInfo[m].abs
  BY <1>1, <1>4 DEF AInv, Unmoved, Layout
<1>8. errCnt' \in Nat /\ errCnt <= errCnt' /\ UNCHANGED <<job, nextPsect>> /\ pass' = 0
      /\ pc \in Layout
  BY <1>1, <1>3 DEF Layout
<1> QED BY <1>5, <1>6, <1>7, <1>8, OneMoved

\* setPsectOrigin moves no global psect, and no psect at all loses its flags
LEMMA OriginAbs ==
  ASSUME NEW p \in PsectEntry, Unmoved(p),
         NEW q, \/ q = p \/ q = SetOrigin(p)
                \/ q = [p EXCEPT !.blk = 0] \/ q = [SetOrigin(p) EXCEPT !.blk = 0]
  PROVE  /\ q.name = p.name /\ q.glob = p.glob /\ q.abs = p.abs /\ q.cls = p.cls
         /\ p.abs => q.link = p.link
<1>1. p.abs => p.glob
  BY DEF Unmoved
<1>2. q.name = p.name /\ q.glob = p.glob /\ q.abs = p.abs /\ q.cls = p.cls
  BY DEF SetOrigin, PsectEntry
<1>3. p.glob => q.link = p.link
  BY DEF SetOrigin, OriginLink, PsectEntry
<1> QED BY <1>1, <1>2, <1>3

LEMMA LayoutAbs ==
  ASSUME IInv, IInv', AbsFixed, AInv, pass = 0, LayoutStep, pc \in Layout, pc' \in Layout
  PROVE  AInv'
<1> USE DEF IInv
<1>1. errCnt \in Nat /\ errCnt' \in Nat
  BY DEF TypeOK
<1>2. \A i \in 1..nextPsect : psectInfo[i] \in PsectEntry /\ Unmoved(psectInfo[i])
  BY Typed DEF AInv
<1>3. CASE PlaceSpecPsect
  BY <1>3, SpecAbs
<1>4. CASE PlaceClassMember
  BY <1>4, MemberAbs
<1>5. CASE PlaceSpecClass \/ SkipClassMember \/ SpecDone \/ PlaceClass
  <2>1. /\ UNCHANGED <<job, psectInfo, nextPsect, pass>>
        /\ errCnt <= errCnt'
    <3>1. AbsError(ItemSlot) \in Nat
      BY DEF AbsError
    <3> QED BY <1>1, <1>5, <3>1 DEF PlaceSpecClass, SkipClassMember, SpecDone, PlaceClass, tabVars
  <2> QED BY <1>1, <2>1, NoneMoved
<1>6. CASE PlaceReloc
  <2>1. PICK m \in 1..nextPsect : m = idx
    BY <1>6, Typed DEF PlaceReloc
  <2>2. PICK q : q = [psectInfo[m] EXCEPT !.blk = 0]
    OBVIOUS
  <2>3. /\ psectInfo' = [psectInfo EXCEPT ![m] = q] /\ errCnt <= errCnt'
        /\ UNCHANGED <<job, nextPsect, pass>>
    <3>1. TooBig(psectInfo[idx]) \in Nat
      BY DEF TooBig
    <3> QED BY <1>1, <1>6, <2>1, <2>2, <3>1 DEF PlaceReloc, posVars
  <2> QED BY <1>1, <1>2, <2>2, <2>3, OriginAbs, OneMoved
<1>7. CASE PlacePsect
  <2>1. PICK m \in 1..nextPsect : m = idx
    BY <1>7, Typed DEF PlacePsect
  <2>2. PICK q : q = [Final(psectInfo[m]) EXCEPT !.blk = 0]
    OBVIOUS
  <2>3. FinishPsect(m, Final(psectInfo[m]))
    BY <1>7, <2>1 DEF PlacePsect, Fatal, Layout
  <2>4. /\ psectInfo' = [psectInfo EXCEPT ![m] = q] /\ errCnt <= errCnt'
        /\ UNCHANGED <<job, nextPsect, pass>>
    <3>1. TooBig(Final(psectInfo[m])) \in Nat
      BY DEF TooBig
    <3> QED BY <1>1, <2>2, <2>3, <3>1 DEF FinishPsect
  <2>5. \/ q = [psectInfo[m] EXCEPT !.blk = 0] \/ q = [SetOrigin(psectInfo[m]) EXCEPT !.blk = 0]
    BY <2>2 DEF Final
  <2> QED BY <1>1, <1>2, <2>4, <2>5, OriginAbs, OneMoved
<1>8. CASE PlaceStray
  <2>1. PICK m \in 1..nextPsect : m = member
    BY <1>8, Typed DEF PlaceStray
  <2>2. /\ \/ psectInfo' = [psectInfo EXCEPT ![m] = SetOrigin(psectInfo[m])]
           \/ UNCHANGED psectInfo
        /\ UNCHANGED <<job, nextPsect, pass, errCnt>>
    BY <1>8, <2>1 DEF PlaceStray, posVars
  <2>3. CASE UNCHANGED psectInfo
    BY <1>1, <2>2, <2>3, NoneMoved
  <2>4. CASE ~UNCHANGED psectInfo
    <3>1. PICK q : q = SetOrigin(psectInfo[m])
      OBVIOUS
    <3> QED BY <1>1, <1>2, <2>2, <2>4, <3>1, OriginAbs, OneMoved
  <2> QED BY <2>3, <2>4
<1>9. CASE PlaceClassDone
  <2>1. FinishPsect(idx, psectInfo[idx]) /\ pc = "stray"
    BY <1>9 DEF PlaceClassDone
  <2>2. PICK m \in 1..nextPsect : m = idx
    BY <2>1, Typed DEF Positions
  <2>3. PICK q : q = [psectInfo[m] EXCEPT !.blk = 0]
    OBVIOUS
  <2>4. /\ psectInfo' = [psectInfo EXCEPT ![m] = q] /\ errCnt <= errCnt'
        /\ UNCHANGED <<job, nextPsect, pass>>
    <3>1. TooBig(psectInfo[idx]) \in Nat
      BY DEF TooBig
    <3> QED BY <1>1, <2>1, <2>2, <2>3, <3>1 DEF FinishPsect
  <2> QED BY <1>1, <1>2, <2>3, <2>4, OriginAbs, OneMoved
<1>10. ~FinPass1 /\ ~SpecUnknown /\ ~RelocateSymbols /\ ~CommonCrash /\ ~KeepRelocatable
  BY DEF FinPass1, SpecUnknown, RelocateSymbols, CommonCrash, KeepRelocatable, StartPass2,
     Fatal, Layout
<1> QED BY <1>3, <1>4, <1>5, <1>6, <1>7, <1>8, <1>9, <1>10 DEF LayoutStep

LEMMA NextAbs ==
  ASSUME IInv, IInv', OInv, OInv', LInv, AbsFixed, AInv, [Next]_vars PROVE AInv'
<1> USE DEF IInv
<1>1. job' = job /\ errCnt \in Nat /\ errCnt' \in Nat
  BY JobStays DEF TypeOK
<1>2. CASE pc \in Layout /\ pc' \in Layout
  <2>1. pass = 0
    BY <1>2 DEF OInv, Whereabouts
  <2>2. CASE LayoutStep
    BY <1>2, <2>1, <2>2, LayoutAbs
  <2>3. CASE ~LayoutStep
    <3>1. UNCHANGED vars
      BY <1>2, <2>3, InLayout
    <3> QED BY <1>1, <1>2, <2>1, <3>1, NoneMoved DEF vars, posVars, tabVars
  <2> QED BY <2>2, <2>3
<1>3. CASE pc \in Layout /\ pc' \notin Layout
  <2>1. pass = 0 /\ LayoutStep
    BY <1>3, InLayout DEF OInv, Whereabouts, vars, posVars
  <2>2. CASE RelocateSymbols \/ KeepRelocatable
    <3>1. UNCHANGED <<psectInfo, nextPsect>> /\ pc' = IF errCnt' # 0 THEN "failed" ELSE "open"
      BY <2>2 DEF RelocateSymbols, KeepRelocatable, StartPass2
    <3>2. errCnt <= errCnt'
      <4>1. UndefinedErrors \in Nat
        BY ExternsFinite DEF UndefinedErrors
      <4> QED BY <1>1, <2>2, <4>1 DEF RelocateSymbols, KeepRelocatable
    <3>3. pc' # "failed" => AbsAtZero
      BY <1>1, <1>3, <3>1, <3>2 DEF AInv
    <3> QED BY <1>3, <3>1, <3>3 DEF AInv, AbsAtZero
  <2>3. CASE ~RelocateSymbols /\ ~KeepRelocatable
    <3>1. pass' = 0
      BY <2>1, <2>3 DEF LayoutStep, FinPass1, PlaceSpecPsect, PlaceSpecClass, PlaceClassMember,
         SkipClassMember, SpecUnknown, SpecDone, PlaceReloc, PlacePsect, PlaceClass, PlaceStray,
         PlaceClassDone, CommonCrash, FinishPsect, Fatal, posVars
    <3> QED BY <1>3, <3>1 DEF AInv
  <2> QED BY <2>2, <2>3
<1>4. CASE pc \notin Layout /\ pass = 0
  <2>1. pass' = 0
    BY <1>4, Pass0Steps DEF TypeOK, Layout
  <2>2. CASE pc' \in Layout
    <3>1. FinPass1
      BY <1>4, <2>2, Pass0Steps
    <3>2. UNCHANGED <<psectInfo, nextPsect>> /\ Unset(psectInfo)
      BY <3>1 DEF FinPass1, tabVars, LInv, InPass0
    <3>3. \A i \in 1..nextPsect : psectInfo[i].link = 0 /\ Unmoved(psectInfo[i])
      BY <3>2, Typed DEF Unset
    <3>4. \A i \in 1..nextPsect : Unmoved(psectInfo[i])'
      BY <1>1, <3>2, <3>3, SameAbs DEF Unmoved
    <3>5. AbsAtZero'
      BY <3>2, <3>3 DEF AbsAtZero
    <3> QED BY <2>1, <3>2, <3>4, <3>5 DEF AInv
  <2>3. CASE pc' \notin Layout
    BY <2>1, <2>3 DEF AInv
  <2> QED BY <2>2, <2>3
<1>5. CASE pass = 1
  <2>1. SecondPass /\ pc' \notin Layout
    <3>1. SecondPass
      BY <1>5, Pass1Steps
    <3> QED BY <3>1 DEF SecondPass, OInv, Whereabouts
  <2>2. pc = "failed" => pc' = "failed"
    <3> SUFFICES ASSUME pc = "failed" PROVE pc' = "failed"
      OBVIOUS
    <3>1. UNCHANGED vars
      BY LostStays DEF Lost
    <3> QED BY <3>1 DEF vars, posVars
  <2>3. pc' # "failed" => AbsAtZero'
    BY <1>5, <2>1, <2>2 DEF SecondPass, SameEntries, AInv, AbsAtZero
  <2> QED BY <2>1, <2>3 DEF AInv
<1> QED BY <1>2, <1>3, <1>4, <1>5 DEF TypeOK

-----------------------------------------------------------------------------
(* The theorems *)

PlacesInv == /\ IInv /\ CInv /\ OInv /\ GInv
             /\ OverlaysDeclared => SInv /\ TInv /\ DInv /\ LInv
             /\ OverlaysDeclared /\ AbsFixed => AInv

LEMMA InitPlaces == Init => PlacesInv
BY InitInv, InitCounts, InitOrder, InitGood, InitPasses, InitText, InitSyms,
   InitLays, InitAbs DEF PlacesInv

LEMMA NextPlaces ==
  ASSUME PlacesInv, [Next]_vars PROVE PlacesInv'
<1>1. IInv /\ CInv /\ OInv /\ GInv
  BY DEF PlacesInv
<1>2. IInv' /\ CInv' /\ OInv'
  BY <1>1, NextInv, NextCounts, NextOrder
<1>3. GInv'
  BY <1>1, <1>2, NextGood
<1>4. (OverlaysDeclared => SInv)'
  BY <1>1, NextPasses DEF PlacesInv
<1>5. OverlaysDeclared' <=> OverlaysDeclared
  <2>1. job' = job
    BY <1>1, JobStays
  <2> QED BY <2>1, SameJob
<1>6. ASSUME OverlaysDeclared PROVE SInv' /\ TInv' /\ DInv' /\ LInv'
  <2>1. SInv /\ TInv /\ DInv /\ LInv /\ SInv'
    BY <1>4, <1>5, <1>6 DEF PlacesInv
  <2>2. TInv' /\ DInv'
    BY <1>1, <1>2, <1>6, <2>1, NextText, NextSyms
  <2> QED BY <1>1, <1>2, <2>1, <2>2, NextLays
<1>7. AbsFixed' <=> AbsFixed
  BY <1>1, JobStays, SameAbs
<1>8. ASSUME OverlaysDeclared, AbsFixed PROVE AInv'
  <2>1. LInv /\ AInv
    BY <1>8 DEF PlacesInv
  <2> QED BY <1>1, <1>2, <1>8, <2>1, NextAbs
<1> QED BY <1>2, <1>3, <1>5, <1>6, <1>7, <1>8 DEF PlacesInv

\* Text stays inside its psect as finPass1 laid it out, at one distance from its link and
\* its load address; the texts of two modules share no address of a psect that is not
\* overlaid; the psects that one -p laid out overlap nowhere; and a field relocated by a
\* psect points as far into the module's text there as the assembler said.  It holds where
\* whoever puts text into an overlaid psect says itself that it is one (link/text.c
\* textRecPass2; link/reloc.c relocRecPass2; link/sym.c symRecPass2, finPass1).
THEOREM TextKeepsToItsPlace == Spec => [](OverlaysDeclared => TextPlaced /\ RelocFollowsText)
<1>1. Init => PlacesInv
  BY InitPlaces
<1>2. PlacesInv /\ [Next]_vars => PlacesInv'
  BY NextPlaces
<1>3. PlacesInv => (OverlaysDeclared => TextPlaced /\ RelocFollowsText)
  BY TextInside, TextApart, RelocFollows, NoneOverlap DEF PlacesInv, TextPlaced
<1> QED BY <1>1, <1>2, <1>3, PTL DEF Spec

\* A global symbol of the module that pass 1 reads has the address of the text it labels,
\* and a field relocated by a psect points into that text: defineSym, relocRecPass2 and
\* textRecPass2 agree on where a module's part of a psect is, although pass 0 gave the
\* symbols their values before finPass1 moved the psects.  It holds where overlaid psects
\* are declared by whoever puts text into them and absolute psects are global and in no
\* class (link/sym.c defineSym, finPass1; link/text.c textRecPass2; link/reloc.c
\* relocRecPass2).
THEOREM AddressesMeet == Spec => [](OverlaysDeclared /\ AbsFixed => AddressesFollowText)
<1>1. Init => PlacesInv
  BY InitPlaces
<1>2. PlacesInv /\ [Next]_vars => PlacesInv'
  BY NextPlaces
<1>3. PlacesInv => (OverlaysDeclared /\ AbsFixed => AddressesFollowText)
  <2> SUFFICES ASSUME PlacesInv, OverlaysDeclared, AbsFixed PROVE AddressesFollowText
    OBVIOUS
  <2>1. IInv /\ CInv /\ OInv /\ SInv /\ TInv /\ DInv /\ AInv
    BY DEF PlacesInv
  <2>2. RelocFollowsText
    BY <2>1, RelocFollows
  <2>3. SymbolAtText
    <3>1. CASE pass = 1 /\ pc = "rec"
      BY <2>1, <3>1, SymbolsThere DEF AInv
    <3>2. CASE ~(pass = 1 /\ pc = "rec")
      BY <3>2 DEF SymbolAtText
    <3> QED BY <3>1, <3>2
  <2> QED BY <2>2, <2>3 DEF AddressesFollowText
<1> QED BY <1>1, <1>2, <1>3, PTL DEF Spec
=============================================================================
