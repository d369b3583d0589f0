----------------------------- MODULE LinkProofs -----------------------------
(***************************************************************************)
(* Proofs about module Link: its type invariant, that its loops stay       *)
(* inside the command line and the arrays they walk, what addSym and       *)
(* defineSym count, and that pass 1 reads the modules that pass 0 read.    *)
(***************************************************************************)
EXTENDS Link, FiniteSetTheorems, TLAPS

\* The fields of a record, by its type
LEMMA RecordFields ==
  ASSUME NEW r \in Record
  PROVE  /\ r.t = "IDENT" => r.order \in Orders
         /\ r.t = "PSECT" => /\ r.psect \in PsectNames
                             /\ r.glob \in BOOLEAN /\ r.ovr \in BOOLEAN /\ r.abs \in BOOLEAN
         /\ r.t = "XPSECT" => /\ r.psect \in PsectNames /\ r.cls \in ClassNames \cup {NoName}
                              /\ r.max \in Nat /\ r.align \in Nat
         /\ r.t = "TEXT" => /\ r.psect \in PsectNames \cup {Abs}
                            /\ r.off \in Nat /\ r.len \in Nat
         /\ r.t = "RELOC" =>
              /\ r.kind \in {"RNAME", "RRNAME", "RSNAME"} => r.name \in Syms
              /\ r.kind \notin {"RNAME", "RRNAME", "RSNAME"} => r.name \in AllNames
              /\ r.off \in Nat /\ r.add \in Int
         /\ r.t = "SYM" =>
              /\ r.name \in Syms
              /\ r.low \in {"NULL", "COMM", "EXTERN"}
              /\ r.low = "NULL" => /\ r.glob \in BOOLEAN /\ r.val \in Nat
                                   /\ r.psect \in PsectNames \cup {Abs}
              /\ r.low = "COMM" => r.val \in Nat
         /\ r.t = "START" => r.psect \in PsectNames \cup {Abs} /\ r.off \in Nat
BY DEF Record, AllNames

\* Addresses stay natural numbers
LEMMA AlignType ==
  ASSUME NEW x \in Nat, NEW n \in Nat
  PROVE  AlignUp(x, n) \in Nat
<1>1. CASE n = 0
  BY <1>1 DEF AlignUp
<1>2. CASE n # 0
  <2>1. x % n \in 0..(n - 1)
    BY <1>2
  <2> QED BY <2>1 DEF AlignUp
<1> QED BY <1>1, <1>2

\* An entry that is new, and entries with a field changed, are entries
LEMMA NewEntry ==
  ASSUME NEW name \in AllNames, NEW kind \in {"PSECT", "CLASS"}, NEW glob \in BOOLEAN,
         NEW ovr \in BOOLEAN, NEW abs \in BOOLEAN, fileIdx \in Nat
  PROVE  NewPsect(name, kind, glob, ovr, abs) \in PsectEntry
BY DEF NewPsect, PsectEntry

LEMMA MergedEntry ==
  ASSUME NEW p \in PsectEntry, NEW glob \in BOOLEAN, NEW ovr \in BOOLEAN, NEW abs \in BOOLEAN
  PROVE  Merge(p, glob, ovr, abs) \in PsectEntry
<1>1. (p.glob \/ glob) \in BOOLEAN /\ (p.ovr \/ ovr) \in BOOLEAN /\ (p.abs \/ abs) \in BOOLEAN
  BY DEF PsectEntry
<1> QED BY <1>1 DEF Merge, PsectEntry

LEMMA SlotType ==
  ASSUME NEW name, NEW kind, nextPsect \in Nat
  PROVE  Slot(name, kind) \in 0..nextPsect
BY DEF Slot, FirstOf, Slots

\* What addSym leaves behind: room was checked, so the array has the new entry
LEMMA EnteredType ==
  ASSUME TypeOK, NEW name \in AllNames, NEW kind \in {"PSECT", "CLASS"}, NEW glob \in BOOLEAN,
         NEW ovr \in BOOLEAN, NEW abs \in BOOLEAN,
         nextPsect + Missing(name, kind) <= MaxPsects
  PROVE  /\ Entered(name, kind, glob, ovr, abs) \in [1..MaxPsects -> PsectEntry]
         /\ SlotAfter(name, kind) \in 1..(nextPsect + Missing(name, kind))
         /\ nextPsect + Missing(name, kind) \in 1..MaxPsects
         /\ Missing(name, kind) \in {0, 1}
<1> DEFINE i == Slot(name, kind)
<1>1. i \in 0..nextPsect
  BY SlotType DEF TypeOK
<1>2. /\ MaxPsects \in Nat /\ nextPsect \in 1..MaxPsects /\ fileIdx \in Nat
      /\ psectInfo \in [1..MaxPsects -> PsectEntry]
  BY LinkAssumption DEF TypeOK
<1>3. NewPsect(name, kind, glob, ovr, abs) \in PsectEntry
  BY <1>2, NewEntry
<1>4. CASE i = 0
  BY <1>1, <1>2, <1>3, <1>4 DEF Entered, SlotAfter, Missing
<1>5. CASE i # 0
  <2>1. i \in 1..MaxPsects
    BY <1>1, <1>2, <1>5
  <2>2. Merge(psectInfo[i], glob, ovr, abs) \in PsectEntry
    BY <1>2, <2>1, MergedEntry
  <2> QED BY <1>1, <1>2, <1>5, <2>1, <2>2 DEF Entered, SlotAfter, Missing
<1> QED BY <1>4, <1>5

\* What TypeOK says of the variables that finPass1 changes
LEMMA Typed ==
  ASSUME TypeOK
  PROVE  /\ MaxPsects \in Nat /\ nextPsect \in Nat /\ nextPsect \in 1..MaxPsects
         /\ psectInfo \in [1..MaxPsects -> PsectEntry] /\ sym \in [Syms -> SymEntry]
         /\ newSymCnt \in Nat /\ cntUnresolved \in Int /\ errCnt \in Nat
         /\ linkPt \in Nat /\ loadPt \in Nat
         /\ specIdx \in Nat \ {0} /\ idx \in Nat \ {0} /\ member \in Nat \ {0}
         /\ \A i \in 1..nextPsect : i \in 1..MaxPsects /\ psectInfo[i] \in PsectEntry
<1>1. /\ MaxPsects \in Nat
  BY LinkAssumption
<1>2. /\ nextPsect \in 1..MaxPsects
      /\ psectInfo \in [1..MaxPsects -> PsectEntry] /\ sym \in [Syms -> SymEntry]
      /\ newSymCnt \in Nat /\ cntUnresolved \in Int /\ errCnt \in Nat
      /\ linkPt \in Nat /\ loadPt \in Nat
      /\ specIdx \in Nat \ {0} /\ idx \in Nat \ {0} /\ member \in Nat \ {0}
  BY DEF TypeOK
<1>3. \A i \in 1..nextPsect : i \in 1..MaxPsects
  BY <1>1, <1>2
<1> QED BY <1>1, <1>2, <1>3

-----------------------------------------------------------------------------
(* The inductive invariant *)

IInv == TypeOK /\ Positions /\ SymPsects

LEMMA CurFileType ==
  ASSUME TypeOK, Positions, fileIdx < Len(job.files)
  PROVE  /\ CurFile.mods \in Seq(Module) /\ Len(CurFile.mods) \in Nat
         /\ CurFile.kind = "obj" => Len(CurFile.mods) = 1
<1>1. job.files \in Seq(File) /\ fileIdx \in Nat
  BY DEF TypeOK, Job
<1>2. fileIdx + 1 \in DOMAIN job.files
  BY <1>1
<1>3. CurFile \in File
  BY <1>1 DEF CurFile
<1>4. CurFile.mods \in Seq(Module)
  BY <1>3 DEF File
<1>5. CurFile.kind = "obj" => Len(CurFile.mods) = 1
  BY <1>2, LinkAssumption DEF Positions, CurFile
<1> QED BY <1>4, <1>5

\* The record that a handler reads is a record
LEMMA ReadingRec ==
  ASSUME TypeOK, Positions, pc = "rec", recIdx <= Len(CurMod.recs)
  PROVE  Rec \in Record
<1>1. job.files \in Seq(File) /\ fileIdx \in Nat /\ fileIdx < Len(job.files)
  BY DEF TypeOK, Positions, Job
<1>2. CurFile \in File
  BY <1>1 DEF CurFile
<1>3. CurFile.mods \in Seq(Module) /\ modIdx \in Nat /\ modIdx < Len(CurFile.mods)
  BY <1>2 DEF File, TypeOK, Positions
<1>4. CurMod \in Module
  BY <1>3 DEF CurMod
<1>5. CurMod.recs \in Seq(Record) /\ recIdx \in 1..Len(CurMod.recs)
  BY <1>4 DEF Module, TypeOK
<1> QED BY <1>5 DEF Rec

\* A step to an exit of the process
LEMMA ExitInv ==
  ASSUME IInv, pc' \in ExitPoints,
         UNCHANGED <<job, pass, fileIdx, libFileIdx, modIdx, recIdx, libTable, ident,
                     tabVars, errCnt, layVars, outVars>>
  PROVE  IInv'
<1> USE DEF IInv, ExitPoints, tabVars, layVars, outVars
<1>1. TypeOK'
  BY DEF TypeOK
<1>2. Positions'
  BY DEF Positions
<1>3. SymPsects'
  BY DEF SymPsects
<1> QED BY <1>1, <1>2, <1>3

LEMMA FatalInv == IInv /\ Fatal => IInv'
BY ExitInv DEF Fatal, ExitPoints

\* A handler that goes on to the next record
LEMMA NextRecPositions ==
  ASSUME Positions, pc = "rec", NextRec, job' = job
  PROVE  Positions'
BY DEF Positions, NextRec, CurFile

\* A step that leaves sym alone, and no psect out of use
LEMMA SymPsectsKept ==
  ASSUME SymPsects, TypeOK, sym' = sym, nextPsect' \in Nat, nextPsect <= nextPsect'
  PROVE  SymPsects'
BY DEF SymPsects, TypeOK

\* A step of a handler that leaves the tables alone
LEMMA ReadOn ==
  ASSUME IInv, pc = "rec", NextRec,
         UNCHANGED <<job, libTable, ident, tabVars, layVars>>,
         errCnt' \in Nat, entry' \in Seq(Nat), text' \in [psect : Nat, base : Nat, len : Nat]
  PROVE  IInv'
<1> USE DEF IInv, tabVars, layVars
<1>1. TypeOK'
  BY DEF TypeOK, NextRec
<1>2. Positions'
  BY NextRecPositions
<1>3. SymPsects'
  BY SymPsectsKept DEF TypeOK
<1> QED BY <1>1, <1>2, <1>3

-----------------------------------------------------------------------------
(* One lemma per action *)

LEMMA OpenFileInv == IInv /\ OpenFile => IInv'
<1> SUFFICES ASSUME IInv, OpenFile PROVE IInv'
  OBVIOUS
<1> USE DEF IInv, tabVars, layVars, outVars, histVars
<1>1. CASE CurFile.kind = "missing" /\ Fatal
  BY <1>1, FatalInv
<1>2. fileIdx \in Nat /\ fileIdx < Len(job.files)
  BY DEF TypeOK, OpenFile
<1>3. /\ CurFile.mods \in Seq(Module) /\ Len(CurFile.mods) \in Nat
      /\ CurFile.kind = "obj" => Len(CurFile.mods) = 1
  BY <1>2, CurFileType
<1>5. CASE /\ CurFile.kind = "lib" /\ pc' = "scan" /\ modIdx' = 0
           /\ libTable' \subseteq libTable
           /\ UNCHANGED <<job, pass, fileIdx, libFileIdx, recIdx, ident, tabVars,
                          errCnt, layVars, outVars, histVars>>
  <2>1. TypeOK'
    BY <1>5 DEF TypeOK
  <2>2. Positions'
    BY <1>2, <1>3, <1>5 DEF Positions, CurFile, ExitPoints
  <2> QED BY <1>5, <2>1, <2>2 DEF SymPsects
<1>6. CASE /\ CurFile.kind = "obj" /\ modIdx' = 0 /\ StartModule
           /\ UNCHANGED <<job, pass, fileIdx, libFileIdx, libTable, ident, tabVars,
                          errCnt, layVars, outVars>>
  <2>1. TypeOK'
    BY <1>6 DEF TypeOK, StartModule
  <2>2. pc' = "rec" /\ CurFile' = CurFile /\ modIdx' < Len(CurFile.mods)
    <3>1. pc' = "rec"
      BY <1>6 DEF StartModule
    <3>3. modIdx' < Len(CurFile.mods)
      BY <1>3, <1>6
    <3>2. CurFile' = CurFile
      BY <1>6 DEF CurFile
    <3> QED BY <3>1, <3>2, <3>3
  <2>3. Positions'
    BY <1>2, <1>6, <2>2 DEF Positions
  <2> QED BY <1>6, <2>1, <2>3 DEF SymPsects
<1> QED BY <1>1, <1>5, <1>6 DEF OpenFile

LEMMA ScanModuleInv == IInv /\ ScanModule => IInv'
<1> SUFFICES ASSUME IInv, ScanModule PROVE IInv'
  OBVIOUS
<1> USE DEF IInv, tabVars, layVars, outVars
<1>1. pc' \in {"scan", "rec"} /\ modIdx' \in Nat /\ recIdx' \in Nat \ {0}
      /\ libTable' \subseteq Nat \X Nat
  BY DEF ScanModule, StartModule, TypeOK
<1>2. TypeOK'
  BY <1>1 DEF TypeOK, ScanModule
<1>3. modIdx' <= Len(CurFile.mods) /\ (pc' = "rec" => modIdx' < Len(CurFile.mods))
  <2>1. Len(CurFile.mods) \in Nat /\ modIdx \in Nat /\ modIdx < Len(CurFile.mods)
    BY CurFileType DEF ScanModule, TypeOK, Positions
  <2> QED BY <2>1 DEF ScanModule, StartModule
<1>4. Positions'
  BY <1>1, <1>3 DEF Positions, CurFile, ScanModule
<1>5. SymPsects'
  BY DEF SymPsects, ScanModule
<1> QED BY <1>2, <1>4, <1>5

LEMMA DoModuleInv == IInv /\ DoModule => IInv'
<1> SUFFICES ASSUME IInv, DoModule PROVE IInv'
  OBVIOUS
<1> USE DEF IInv, tabVars, layVars, outVars
<1>1. pc' \in {"scan", "rec"} /\ modIdx' \in Nat /\ recIdx' \in Nat \ {0}
  BY DEF DoModule, StartModule, TypeOK
<1>2. TypeOK'
  BY <1>1 DEF TypeOK, DoModule
<1>3. modIdx' <= Len(CurFile.mods) /\ (pc' = "rec" => modIdx' < Len(CurFile.mods))
  <2>1. Len(CurFile.mods) \in Nat /\ modIdx \in Nat /\ modIdx < Len(CurFile.mods)
    BY CurFileType DEF DoModule, TypeOK, Positions
  <2> QED BY <2>1 DEF DoModule, StartModule
<1>4. Positions'
  BY <1>1, <1>3 DEF Positions, CurFile, DoModule
<1>5. SymPsects'
  BY DEF SymPsects, DoModule
<1> QED BY <1>2, <1>4, <1>5

LEMMA CloseLibraryInv == IInv /\ CloseLibrary => IInv'
<1> SUFFICES ASSUME IInv, CloseLibrary PROVE IInv'
  OBVIOUS
<1> USE DEF IInv, CloseLibrary, tabVars, layVars, outVars, histVars
<1>1. TypeOK'
  BY DEF TypeOK
<1>2. Positions'
  BY DEF Positions, TypeOK, Job
<1>3. SymPsects'
  BY DEF SymPsects
<1> QED BY <1>1, <1>2, <1>3

LEMMA NoEndRecordInv == IInv /\ NoEndRecord => IInv'
BY FatalInv DEF NoEndRecord

LEMMA IdentRecInv == IInv /\ IdentRec => IInv'
<1> SUFFICES ASSUME IInv, IdentRec PROVE IInv'
  OBVIOUS
<1> USE DEF IInv, tabVars, layVars, outVars, histVars
<1>1. Rec \in Record /\ Rec.t = "IDENT"
  BY ReadingRec DEF IdentRec, Reading
<1>2. Rec.order \in Orders
  BY <1>1, RecordFields
<1>3. CASE Fatal
  BY <1>3, FatalInv
<1>4. CASE /\ ident' = Rec.order /\ NextRec
           /\ UNCHANGED <<job, libTable, tabVars, errCnt, layVars, outVars, histVars>>
  <2>1. TypeOK'
    BY <1>2, <1>4 DEF TypeOK, NextRec
  <2>2. Positions'
    BY <1>4, NextRecPositions DEF IdentRec, Reading
  <2> QED BY <1>4, <2>1, <2>2 DEF SymPsects
<1> QED BY <1>3, <1>4 DEF IdentRec

\* A handler that enters psects, and symbols that are no addresses of theirs
LEMMA PsectsGrow ==
  ASSUME IInv, pc = "rec", NextRec,
         UNCHANGED <<job, libTable, ident, sym, cntUnresolved, layVars, outVars>>,
         psectInfo' \in [1..MaxPsects -> PsectEntry],
         nextPsect' \in 1..MaxPsects, nextPsect <= nextPsect',
         newSymCnt' \in Nat, errCnt' \in Nat
  PROVE  IInv'
<1> USE DEF IInv, layVars, outVars
<1>1. TypeOK'
  BY DEF TypeOK, NextRec
<1>2. Positions'
  BY NextRecPositions
<1>3. SymPsects'
  BY SymPsectsKept
<1> QED BY <1>1, <1>2, <1>3

LEMMA PsectRecInv == IInv /\ PsectRec => IInv'
<1> SUFFICES ASSUME IInv, PsectRec PROVE IInv'
  OBVIOUS
<1> USE DEF IInv
<1>1. CASE ~Room(Missing(Rec.psect, "PSECT"), 0)
  BY <1>1, FatalInv DEF PsectRec
<1>2. CASE Room(Missing(Rec.psect, "PSECT"), 0)
  <2>1. Rec \in Record /\ Rec.t = "PSECT" /\ pc = "rec"
    BY ReadingRec DEF PsectRec, Reading
  <2>2. /\ Rec.psect \in AllNames /\ Rec.glob \in BOOLEAN
        /\ Rec.ovr \in BOOLEAN /\ Rec.abs \in BOOLEAN
    BY <2>1, RecordFields DEF AllNames
  <2> DEFINE n == Missing(Rec.psect, "PSECT")
  <2>3. n \in {0, 1} /\ nextPsect \in 1..MaxPsects /\ MaxPsects \in Nat /\ errCnt \in Nat
        /\ newSymCnt \in Nat
    BY LinkAssumption DEF TypeOK, Missing
  <2>4. nextPsect + n <= MaxPsects
    BY <1>2, <2>3 DEF Room
  <2>5. Entered(Rec.psect, "PSECT", Rec.glob, Rec.ovr, Rec.abs) \in [1..MaxPsects -> PsectEntry]
    BY <2>2, <2>4, EnteredType
  <2>6. errCnt' \in Nat
    BY <1>2, <2>3 DEF PsectRec
  <2> QED BY <1>2, <2>1, <2>3, <2>4, <2>5, <2>6, PsectsGrow DEF PsectRec, histVars
<1> QED BY <1>1, <1>2

LEMMA RoomType ==
  ASSUME TypeOK, NEW n \in Nat, NEW m \in Nat, Room(n, m)
  PROVE  nextPsect + n <= MaxPsects
BY LinkAssumption DEF TypeOK, Room

LEMMA LimitsType ==
  ASSUME NEW p \in PsectEntry, NEW cls \in Nat, NEW max \in Nat, NEW align \in Nat
  PROVE  [p EXCEPT !.cls = cls, !.max = max, !.align = align] \in PsectEntry
BY DEF PsectEntry

LEMMA XpsectRecInv == IInv /\ XpsectRec => IInv'
<1> SUFFICES ASSUME IInv, XpsectRec PROVE IInv'
  OBVIOUS
<1> USE DEF IInv
<1> DEFINE n == Missing(Rec.psect, "PSECT")
           i == SlotAfter(Rec.psect, "PSECT")
           c == IF Slot(Rec.cls, "CLASS") = 0 THEN nextPsect + n + 1 ELSE Slot(Rec.cls, "CLASS")
           k == IF Rec.cls = NoName THEN 0 ELSE Missing(Rec.cls, "CLASS")
           withPsect == Mentioned(Rec.psect)
           withClass == IF k = 1
                        THEN [withPsect EXCEPT ![c] = NewPsect(Rec.cls, "CLASS", TRUE, FALSE, FALSE)]
                        ELSE withPsect
<1>1. CASE ~Room(n + k, 0)
  BY <1>1, FatalInv DEF XpsectRec
<1>2. CASE Room(n + k, 0)
  <2>1. Rec \in Record /\ Rec.t = "XPSECT" /\ pc = "rec"
    BY ReadingRec DEF XpsectRec, Reading
  <2>2. /\ Rec.psect \in AllNames /\ Rec.cls \in ClassNames \cup {NoName}
        /\ Rec.max \in Nat /\ Rec.align \in Nat
    BY <2>1, RecordFields DEF AllNames
  <2>3. /\ n \in {0, 1} /\ k \in {0, 1} /\ nextPsect \in 1..MaxPsects /\ MaxPsects \in Nat
        /\ errCnt \in Nat /\ newSymCnt \in Nat /\ fileIdx \in Nat
    BY LinkAssumption DEF TypeOK, Missing
  <2>4. nextPsect + (n + k) <= MaxPsects
    BY <1>2, <2>3, RoomType
  <2>5. /\ withPsect \in [1..MaxPsects -> PsectEntry] /\ i \in 1..(nextPsect + n)
    <3>1. nextPsect + n <= MaxPsects
      <4> HIDE DEF n, k
      <4> QED BY <2>3, <2>4
    <3> QED BY <2>2, <3>1, EnteredType DEF Mentioned
  <2>6. c \in Nat
    <3>1. Slot(Rec.cls, "CLASS") \in 0..nextPsect
      BY <2>3, SlotType
    <3> HIDE DEF n
    <3> QED BY <2>3, <3>1
  <2>7. withClass \in [1..MaxPsects -> PsectEntry]
    <3>1. CASE k = 1
      <4>1. Rec.cls \in AllNames
        BY <2>2, <3>1 DEF AllNames
      <4>2. NewPsect(Rec.cls, "CLASS", TRUE, FALSE, FALSE) \in PsectEntry
        BY <2>3, <4>1, NewEntry
      <4> HIDE DEF c, k, withPsect
      <4> QED BY <2>5, <3>1, <4>2
    <3> QED BY <2>5, <3>1
  <2> DEFINE p == withClass[i]
             cls == IF Rec.cls # NoName /\ p.cls = 0 THEN c ELSE p.cls
             max == IF Rec.max # 0 /\ (p.max = 0 \/ Rec.max < p.max) THEN Rec.max ELSE p.max
             align == IF Rec.align # 0 /\ (p.align = 0 \/ Rec.align < p.align)
                      THEN Rec.align ELSE p.align
  <2>8. i \in 1..MaxPsects /\ p \in PsectEntry
    <3>1. i \in 1..MaxPsects
      <4> HIDE DEF n, k, i, withPsect
      <4> QED BY <2>3, <2>4, <2>5
    <3> HIDE DEF withClass, i
    <3> QED BY <2>7, <3>1
  <2>9. cls \in Nat /\ max \in Nat /\ align \in Nat
    BY <2>2, <2>6, <2>8 DEF PsectEntry
  <2>10. psectInfo' = [withClass EXCEPT ![i] = [p EXCEPT !.cls = cls, !.max = max, !.align = align]]
    BY <1>2, <2>7, <2>8 DEF XpsectRec
  <2>11. psectInfo' \in [1..MaxPsects -> PsectEntry]
    BY <2>7, <2>8, <2>9, <2>10, LimitsType
  <2>12. /\ nextPsect' = nextPsect + n + k /\ newSymCnt' = newSymCnt + n + k /\ NextRec
         /\ UNCHANGED <<job, libTable, ident, sym, cntUnresolved, layVars, outVars>>
         /\ errCnt' \in {errCnt, errCnt + 1}
    BY <1>2 DEF XpsectRec
  <2> HIDE DEF n, k
  <2> QED BY <2>1, <2>3, <2>4, <2>11, <2>12, PsectsGrow
<1> QED BY <1>1, <1>2

LEMMA GrownType ==
  ASSUME NEW table \in [1..MaxPsects -> PsectEntry], NEW i, NEW end \in Nat
  PROVE  Grown(table, i, end) \in [1..MaxPsects -> PsectEntry]
<1>1. CASE i \in 1..MaxPsects
  <2>1. [table[i] EXCEPT !.end = IF table[i].end < end THEN end ELSE table[i].end] \in PsectEntry
    BY <1>1 DEF PsectEntry
  <2> QED BY <1>1, <2>1 DEF Grown
<1>2. CASE i \notin 1..MaxPsects
  BY <1>2 DEF Grown
<1> QED BY <1>1, <1>2

LEMMA TextRecPass1Inv == IInv /\ TextRecPass1 => IInv'
<1> SUFFICES ASSUME IInv, TextRecPass1 PROVE IInv'
  OBVIOUS
<1> USE DEF IInv
<1> DEFINE n == Missing(Rec.psect, "PSECT")
<1>1. CASE ~Room(n, 0)
  BY <1>1, FatalInv DEF TextRecPass1
<1>2. CASE Room(n, 0)
  <2>1. Rec \in Record /\ Rec.t = "TEXT" /\ pc = "rec"
    BY ReadingRec DEF TextRecPass1, Reading
  <2>2. Rec.psect \in AllNames /\ Rec.off \in Nat /\ Rec.len \in Nat
    BY <2>1, RecordFields DEF AllNames
  <2>3. n \in {0, 1} /\ nextPsect \in 1..MaxPsects /\ errCnt \in Nat /\ newSymCnt \in Nat
    BY DEF TypeOK, Missing
  <2>4. nextPsect + n <= MaxPsects
    BY <1>2, <2>3, RoomType
  <2>5. Mentioned(Rec.psect) \in [1..MaxPsects -> PsectEntry]
    BY <2>2, <2>4, EnteredType DEF Mentioned
  <2>6. psectInfo' \in [1..MaxPsects -> PsectEntry]
    BY <1>2, <2>2, <2>5, GrownType DEF TextRecPass1
  <2> QED BY <1>2, <2>1, <2>3, <2>4, <2>6, LinkAssumption, PsectsGrow DEF TextRecPass1
<1> QED BY <1>1, <1>2

\* A handler that enters or defines symbols
LEMMA SymsGrow ==
  ASSUME IInv, pc = "rec", NextRec,
         UNCHANGED <<job, libTable, ident, layVars, outVars>>,
         psectInfo' \in [1..MaxPsects -> PsectEntry],
         nextPsect' \in 1..MaxPsects, newSymCnt' \in Nat, errCnt' \in Nat,
         cntUnresolved' \in Int, sym' \in [Syms -> SymEntry], SymPsects'
  PROVE  IInv'
<1> USE DEF IInv, layVars, outVars
<1>1. TypeOK'
  BY DEF TypeOK, NextRec
<1>2. Positions'
  BY NextRecPositions
<1> QED BY <1>1, <1>2

LEMMA MentionInv ==
  ASSUME IInv, pc = "rec", NEW s \in Syms, Mention(s)
  PROVE  IInv'
<1> USE DEF IInv
<1>1. CASE ~Room(0, NewSym(s))
  BY <1>1, FatalInv DEF Mention
<1>2. CASE Room(0, NewSym(s))
  <2>1. NewSym(s) \in {0, 1}
    BY DEF NewSym
  <2>2. newSymCnt' \in Nat /\ cntUnresolved' \in Int
    BY <1>2, <2>1 DEF Mention, TypeOK
  <2> DEFINE new == [sym EXCEPT ![s] = Unresolved]
  <2>3. sym \in [Syms -> SymEntry] /\ sym' \in {sym, new}
    BY <1>2 DEF Mention, TypeOK
  <2>6. Unresolved \in SymEntry /\ Unresolved.low = "EXTERN"
    BY DEF Unresolved, SymEntry
  <2>7. sym' \in [Syms -> SymEntry] /\ \A t \in Syms : sym'[t] \in {sym[t], Unresolved}
    BY <2>3, <2>6
  <2>4. SymPsects'
    BY <1>2, <2>6, <2>7 DEF SymPsects, Mention
  <2>5. NextRec /\ UNCHANGED <<job, libTable, ident, psectInfo, nextPsect, errCnt, layVars,
                               outVars>>
    BY <1>2 DEF Mention
  <2> QED BY <2>2, <2>4, <2>5, <2>7, SymsGrow DEF TypeOK
<1> QED BY <1>1, <1>2

LEMMA RelocRecPass1Inv == IInv /\ RelocRecPass1 => IInv'
<1> SUFFICES ASSUME IInv, RelocRecPass1 PROVE IInv'
  OBVIOUS
<1> USE DEF IInv
<1>1. Rec \in Record /\ Rec.t = "RELOC" /\ pc = "rec"
  BY ReadingRec DEF RelocRecPass1, Reading
<1>2. CASE Rec.kind \in {"RNAME", "RRNAME"}
  <2>1. Rec.name \in Syms
    BY <1>1, <1>2, RecordFields
  <2> QED BY <1>1, <1>2, <2>1, MentionInv DEF RelocRecPass1
<1>3. CASE Rec.kind \notin {"RNAME", "RRNAME"}
  BY <1>1, <1>3, ReadOn DEF RelocRecPass1, TypeOK, outVars
<1> QED BY <1>2, <1>3

LEMMA SymExternPass1Inv == IInv /\ SymExternPass1 => IInv'
<1> SUFFICES ASSUME IInv, SymExternPass1 PROVE IInv'
  OBVIOUS
<1>1. Rec \in Record /\ Rec.t = "SYM" /\ pc = "rec"
  BY ReadingRec DEF SymExternPass1, Reading, IInv
<1>2. Rec.name \in Syms
  BY <1>1, RecordFields
<1> QED BY <1>1, <1>2, MentionInv DEF SymExternPass1

\* What defineSym leaves behind
LEMMA DefineSymType ==
  ASSUME TypeOK, NEW s \in Syms, NEW low \in {"NULL", "COMM"}, NEW val \in Nat,
         NEW psect \in Nat, NEW off \in Nat, DefineSym(s, low, val, psect, off)
  PROVE  /\ sym' \in [Syms -> SymEntry] /\ cntUnresolved' \in Int /\ errCnt' \in Nat
         /\ \A t \in Syms : t # s => sym'[t] = sym[t]
         /\ sym'[s].low = "NULL" => \/ sym'[s] = sym[s]
                                    \/ low = "NULL" /\ sym'[s].psect = psect
<1> DEFINE d == Defined(s, low, val, psect, off)
<1>1. sym[s] \in SymEntry
  BY DEF TypeOK
<1>2. CASE sym[s].low \in {"none", "EXTERN"}
  <2>1. d = [low |-> low, value |-> val + off, psect |-> psect]
    BY <1>2 DEF Defined
  <2>2. d \in SymEntry
    BY <2>1 DEF SymEntry
  <2> QED BY <2>1, <2>2 DEF DefineSym, TypeOK
<1>3. CASE sym[s].low = "COMM" /\ low = "COMM" /\ sym[s].value < val
  <2>1. d = [sym[s] EXCEPT !.value = val]
    BY <1>3 DEF Defined
  <2>2. d \in SymEntry /\ d.low = "COMM"
    BY <1>1, <1>3, <2>1 DEF SymEntry
  <2> QED BY <2>2 DEF DefineSym, TypeOK
<1>4. CASE ~(sym[s].low \in {"none", "EXTERN"})
           /\ ~(sym[s].low = "COMM" /\ low = "COMM" /\ sym[s].value < val)
  <2>1. d = sym[s]
    BY <1>4 DEF Defined
  <2> QED BY <1>1, <2>1 DEF DefineSym, TypeOK
<1> QED BY <1>2, <1>3, <1>4

LEMMA SymCommPass1Inv == IInv /\ SymCommPass1 => IInv'
<1> SUFFICES ASSUME IInv, SymCommPass1 PROVE IInv'
  OBVIOUS
<1> USE DEF IInv
<1>1. CASE ~Room(0, NewSym(Rec.name))
  BY <1>1, FatalInv DEF SymCommPass1
<1>2. CASE Room(0, NewSym(Rec.name))
  <2>1. Rec \in Record /\ Rec.t = "SYM" /\ Rec.low = "COMM" /\ pc = "rec"
    BY ReadingRec DEF SymCommPass1, Reading
  <2>2. Rec.name \in Syms /\ Rec.val \in Nat
    BY <2>1, RecordFields
  <2>3. /\ sym' \in [Syms -> SymEntry] /\ cntUnresolved' \in Int /\ errCnt' \in Nat
        /\ \A t \in Syms : sym'[t].low = "NULL" => sym'[t] = sym[t]
    BY <1>2, <2>2, DefineSymType DEF SymCommPass1
  <2>4. newSymCnt' \in Nat
    BY <1>2 DEF SymCommPass1, NewSym, TypeOK
  <2>5. NextRec /\ UNCHANGED <<job, libTable, ident, psectInfo, nextPsect, layVars, outVars>>
    BY <1>2 DEF SymCommPass1
  <2>6. SymPsects'
    BY <2>3, <2>5 DEF SymPsects
  <2> QED BY <2>1, <2>3, <2>4, <2>5, <2>6, SymsGrow DEF TypeOK
<1> QED BY <1>1, <1>2

LEMMA SymNullPass1Inv == IInv /\ SymNullPass1 => IInv'
<1> SUFFICES ASSUME IInv, SymNullPass1 PROVE IInv'
  OBVIOUS
<1> USE DEF IInv
<1> DEFINE n == Missing(Rec.psect, "PSECT")
           i == SlotAfter(Rec.psect, "PSECT")
           new == Mentioned(Rec.psect)
           m == IF Rec.glob THEN NewSym(Rec.name) ELSE 0
           off == IF new[i].ovr THEN 0 ELSE new[i].blk
<1>1. CASE ~Room(n, m)
  BY <1>1, FatalInv DEF SymNullPass1
<1>2. CASE Room(n, m)
  <2>1. Rec \in Record /\ Rec.t = "SYM" /\ Rec.low = "NULL" /\ pc = "rec"
    BY ReadingRec DEF SymNullPass1, Reading
  <2>2. /\ Rec.psect \in AllNames /\ Rec.name \in Syms /\ Rec.glob \in BOOLEAN
        /\ Rec.val \in Nat
    BY <2>1, RecordFields DEF AllNames
  <2>3. n \in {0, 1} /\ m \in {0, 1} /\ newSymCnt \in Nat
    BY DEF TypeOK, Missing, NewSym
  <2>4. nextPsect + n <= MaxPsects
    <3> HIDE DEF n, m
    <3> QED BY <1>2, <2>3, RoomType
  <2>5. /\ new \in [1..MaxPsects -> PsectEntry] /\ i \in 1..(nextPsect + n)
        /\ nextPsect + n \in 1..MaxPsects
    BY <2>2, <2>4, EnteredType DEF Mentioned
  <2>6. i \in Nat /\ off \in Nat /\ nextPsect \in Nat /\ nextPsect <= nextPsect + n
    <3> HIDE DEF n, i, new
    <3>1. MaxPsects \in Nat /\ nextPsect \in Nat
      BY LinkAssumption DEF TypeOK
    <3>2. i \in 1..MaxPsects
      BY <2>3, <2>5, <3>1
    <3>3. new[i] \in PsectEntry
      BY <2>5, <3>2
    <3> QED BY <2>3, <3>1, <3>2, <3>3 DEF PsectEntry
  <2>7. /\ psectInfo' = new /\ nextPsect' = nextPsect + n /\ newSymCnt' = newSymCnt + n + m
        /\ NextRec /\ UNCHANGED <<job, libTable, ident, layVars, outVars>>
    BY <1>2 DEF SymNullPass1
  <2>8. newSymCnt' \in Nat
    <3> HIDE DEF n, m
    <3> QED BY <2>3, <2>7
  <2>9. CASE Rec.glob
    <3>1. DefineSym(Rec.name, "NULL", Rec.val, i, off)
      BY <1>2, <2>9 DEF SymNullPass1
    <3> HIDE DEF n, i, m, new, off
    <3>2. /\ sym' \in [Syms -> SymEntry] /\ cntUnresolved' \in Int /\ errCnt' \in Nat
          /\ \A t \in Syms : sym'[t].low = "NULL" => sym'[t] = sym[t] \/ sym'[t].psect = i
      BY <2>2, <2>6, <3>1, DefineSymType
    <3>3. SymPsects'
      BY <2>3, <2>5, <2>6, <2>7, <3>2 DEF SymPsects
    <3> QED BY <2>1, <2>5, <2>7, <2>8, <3>2, <3>3, SymsGrow
  <2>10. CASE ~Rec.glob
    <3>1. UNCHANGED <<sym, cntUnresolved, errCnt>>
      BY <1>2, <2>10 DEF SymNullPass1
    <3> HIDE DEF n, i, m, new, off
    <3> QED BY <2>1, <2>5, <2>6, <2>7, <2>8, <3>1, PsectsGrow DEF TypeOK
  <2> QED BY <2>9, <2>10
<1> QED BY <1>1, <1>2

LEMMA EndOfModuleType ==
  ASSUME NEW p \in PsectEntry
  PROVE  EndOfModule(p) \in PsectEntry
<1> DEFINE blk == IF p.ovr THEN IF p.blk < p.end THEN p.end ELSE p.blk ELSE p.blk + p.end
<1>1. blk \in Nat
  BY DEF PsectEntry
<1>2. [p EXCEPT !.blk = blk, !.end = 0] \in PsectEntry
  <2> HIDE DEF blk
  <2> QED BY <1>1 DEF PsectEntry
<1> QED BY <1>2 DEF EndOfModule

LEMMA EndRecInv == IInv /\ EndRec => IInv'
<1> SUFFICES ASSUME IInv, EndRec PROVE IInv'
  OBVIOUS
<1> USE DEF IInv, tabVars, layVars, outVars
<1>1. psectInfo' \in [1..MaxPsects -> PsectEntry]
  BY EndOfModuleType DEF EndRec, TypeOK
<1>2. TypeOK'
  BY <1>1 DEF TypeOK, EndRec
<1>3. fileIdx \in Nat /\ fileIdx < Len(job.files) /\ Len(job.files) \in Nat
  BY DEF TypeOK, Positions, EndRec, Job
<1>4. Len(CurFile.mods) \in Nat /\ modIdx \in Nat /\ modIdx < Len(CurFile.mods)
  BY <1>3, CurFileType DEF TypeOK, Positions, EndRec
<1>5. Positions'
  <2>1. CASE InLib
    BY <1>3, <1>4, <2>1 DEF Positions, EndRec, CurFile
  <2>2. CASE ~InLib
    BY <1>3, <2>2 DEF Positions, EndRec
  <2> QED BY <2>1, <2>2
<1>6. SymPsects'
  BY DEF SymPsects, EndRec
<1> QED BY <1>2, <1>5, <1>6

LEMMA SkipRecInv == IInv /\ SkipRec => IInv'
<1> SUFFICES ASSUME IInv, SkipRec PROVE IInv'
  OBVIOUS
<1>1. pc = "rec" /\ errCnt \in Nat /\ entry \in Seq(Nat)
      /\ text \in [psect : Nat, base : Nat, len : Nat]
  BY DEF SkipRec, Reading, IInv, TypeOK
<1>2. NextRec /\ UNCHANGED <<job, libTable, ident, tabVars, errCnt, layVars, outVars>>
  BY DEF SkipRec
<1> QED BY <1>1, <1>2, ReadOn DEF outVars

-----------------------------------------------------------------------------
(* finPass1 *)

\* A step of finPass1 that stays in finPass1
LEMMA LayoutInv ==
  ASSUME IInv, pc' \in {"spec", "class", "place", "stray"},
         UNCHANGED <<job, pass, fileIdx, libFileIdx, modIdx, recIdx, libTable, ident,
                     nextPsect, outVars>>,
         psectInfo' \in [1..MaxPsects -> PsectEntry], sym' \in [Syms -> SymEntry],
         newSymCnt' \in Nat, cntUnresolved' \in Int, errCnt' \in Nat,
         linkPt' \in Nat, loadPt' \in Nat,
         specIdx' \in Nat \ {0}, idx' \in Nat \ {0}, member' \in Nat \ {0},
         SymPsects',
         pc' = "class" => specIdx' <= Len(job.loc) /\ ItemSlot' # 0,
         pc' = "stray" => idx' <= nextPsect
  PROVE  IInv'
<1> USE DEF IInv, outVars
<1>1. TypeOK'
  BY DEF TypeOK
<1>2. Positions'
  BY DEF Positions
<1> QED BY <1>1, <1>2

LEMMA FinPass1Inv == IInv /\ FinPass1 => IInv'
<1> SUFFICES ASSUME IInv, FinPass1 PROVE IInv'
  OBVIOUS
<1> USE DEF IInv, FinPass1, tabVars
<1>1. pc' \in {"spec", "place"}
  OBVIOUS
<1>2. SymPsects'
  BY DEF SymPsects
<1> QED BY <1>1, <1>2, LayoutInv DEF TypeOK

LEMMA ItemType ==
  ASSUME TypeOK, specIdx <= Len(job.loc), ItemSlot # 0
  PROVE  /\ ItemSlot \in 1..nextPsect /\ ItemSlot \in 1..MaxPsects
         /\ psectInfo[ItemSlot] \in PsectEntry
         /\ ItemLink \in Nat /\ ItemLoad \in Nat
<1>1. job.loc \in Seq(SpecItem) /\ specIdx \in 1..Len(job.loc)
  BY DEF TypeOK, Job
<1>2. Item \in SpecItem
  BY <1>1 DEF Item
<1>3. nextPsect \in Nat /\ nextPsect \in 1..MaxPsects /\ MaxPsects \in Nat
  BY LinkAssumption DEF TypeOK
<1>4. ItemSlot \in 0..nextPsect
  BY <1>3, SlotType DEF ItemSlot
<1>5. ItemSlot \in 1..nextPsect /\ ItemSlot \in 1..MaxPsects
  BY <1>3, <1>4
<1>6. psectInfo[ItemSlot] \in PsectEntry
  BY <1>5 DEF TypeOK
<1>7. psectInfo[ItemSlot].align \in Nat /\ linkPt \in Nat /\ loadPt \in Nat
  BY <1>6 DEF PsectEntry, TypeOK
<1>8. /\ AlignUp(linkPt, psectInfo[ItemSlot].align) \in Nat
      /\ AlignUp(loadPt, psectInfo[ItemSlot].align) \in Nat
  BY <1>7, AlignType
<1>9. ItemLink \in Nat
  BY <1>2, <1>8 DEF ItemLink, SpecItem
<1>10. ItemLoad \in Nat
  BY <1>2, <1>8 DEF ItemLoad, SpecItem
<1> QED BY <1>5, <1>6, <1>9, <1>10

\* Addresses change no name: a -p item keeps its slot
SameNames == \A i \in 1..nextPsect : /\ psectInfo'[i].name = psectInfo[i].name
                                     /\ psectInfo'[i].kind = psectInfo[i].kind
                                     /\ psectInfo'[i].glob = psectInfo[i].glob
                                     /\ psectInfo'[i].fileId = psectInfo[i].fileId

LEMMA ItemSlotKept ==
  ASSUME UNCHANGED <<job, fileIdx, nextPsect, specIdx>>,
         SameNames
  PROVE  ItemSlot' = ItemSlot
<1>1. Item' = Item
  BY DEF Item
<1>2. /\ Slots(Item.name, "PSECT")' = Slots(Item.name, "PSECT")
      /\ Slots(Item.name, "CLASS")' = Slots(Item.name, "CLASS")
  BY <1>1 DEF Slots, SameNames
<1>3. /\ Slot(Item.name, "PSECT")' = Slot(Item.name, "PSECT")
      /\ Slot(Item.name, "CLASS")' = Slot(Item.name, "CLASS")
  BY <1>2 DEF Slot
<1> QED BY <1>3 DEF ItemSlot

\* An entry that gets its addresses
LEMMA PlacedType ==
  ASSUME TypeOK, NEW i \in 1..nextPsect, NEW link \in Nat, NEW load \in Nat,
         psectInfo' = [psectInfo EXCEPT ![i].link = link, ![i].load = load, ![i].set = TRUE]
  PROVE  psectInfo' \in [1..MaxPsects -> PsectEntry] /\ SameNames
<1> DEFINE q == [psectInfo[i] EXCEPT !.link = link, !.load = load, !.set = TRUE]
<1>1. /\ psectInfo \in [1..MaxPsects -> PsectEntry] /\ i \in 1..MaxPsects
      /\ nextPsect \in 1..MaxPsects /\ MaxPsects \in Nat
  BY Typed
<1>2. psectInfo[i] \in PsectEntry
  BY Typed
<1>3. /\ q \in PsectEntry
      /\ q.name = psectInfo[i].name /\ q.kind = psectInfo[i].kind
      /\ q.glob = psectInfo[i].glob /\ q.fileId = psectInfo[i].fileId
  BY <1>2 DEF PsectEntry
<1>4. psectInfo' = [psectInfo EXCEPT ![i] = q]
  BY <1>1, <1>2 DEF PsectEntry
<1> HIDE DEF q
<1>5. psectInfo' \in [1..MaxPsects -> PsectEntry]
  BY <1>1, <1>3, <1>4
<1>6. \A j \in 1..nextPsect : psectInfo'[j] = IF j = i THEN q ELSE psectInfo[j]
  BY <1>1, <1>4, Typed
<1>7. SameNames
  BY <1>3, <1>6 DEF SameNames
<1> QED BY <1>5, <1>7

LEMMA AbsErrorType == ASSUME NEW i PROVE AbsError(i) \in {0, 1}
BY DEF AbsError

LEMMA PlaceSpecPsectInv == IInv /\ PlaceSpecPsect => IInv'
<1> SUFFICES ASSUME IInv, PlaceSpecPsect PROVE IInv'
  OBVIOUS
<1> USE DEF IInv
<1> DEFINE i == ItemSlot
<1>1. /\ i \in 1..nextPsect /\ psectInfo[i] \in PsectEntry
      /\ ItemLink \in Nat /\ ItemLoad \in Nat
  BY ItemType DEF PlaceSpecPsect
<1>2. CASE Fatal
  BY <1>2, FatalInv
<1>3. CASE ~Fatal
  <2>1. /\ psectInfo' = [psectInfo EXCEPT ![i].link = ItemLink, ![i].load = ItemLoad,
                                          ![i].set = TRUE]
        /\ linkPt' = ItemLink + psectInfo[i].blk /\ loadPt' = ItemLoad + psectInfo[i].blk
        /\ errCnt' = errCnt + AbsError(i) /\ specIdx' = specIdx + 1
        /\ UNCHANGED <<job, posVars, libTable, ident, sym, nextPsect, newSymCnt,
                       cntUnresolved, idx, member, outVars>>
    BY <1>3 DEF PlaceSpecPsect
  <2>2. psectInfo' \in [1..MaxPsects -> PsectEntry]
    <3> HIDE DEF i
    <3> QED BY <1>1, <2>1, PlacedType
  <2>3. linkPt' \in Nat /\ loadPt' \in Nat
    BY <1>1, <2>1 DEF PsectEntry
  <2>4. errCnt' \in Nat /\ specIdx' \in Nat \ {0}
    <3> HIDE DEF i
    <3>1. AbsError(i) \in {0, 1}
      BY AbsErrorType
    <3> QED BY <2>1, <3>1, Typed
  <2>5. SymPsects'
    BY <2>1 DEF SymPsects
  <2>6. pc' = "spec"
    BY <2>1 DEF posVars, PlaceSpecPsect
  <2> HIDE DEF i
  <2> QED BY <2>1, <2>2, <2>3, <2>4, <2>5, <2>6, LayoutInv, Typed DEF posVars
<1> QED BY <1>2, <1>3

LEMMA PlaceSpecClassInv == IInv /\ PlaceSpecClass => IInv'
<1> SUFFICES ASSUME IInv, PlaceSpecClass PROVE IInv'
  OBVIOUS
<1> USE DEF IInv
<1>1. ItemSlot # 0 /\ specIdx <= Len(job.loc)
  BY DEF PlaceSpecClass
<1>2. ItemLink \in Nat /\ ItemLoad \in Nat
  BY <1>1, ItemType
<1>3. errCnt' \in Nat
  BY AbsErrorType DEF PlaceSpecClass, TypeOK
<1>4. /\ pc' = "class" /\ linkPt' = ItemLink /\ loadPt' = ItemLoad /\ member' = 1
      /\ UNCHANGED <<job, pass, fileIdx, libFileIdx, modIdx, recIdx, libTable, ident,
                     tabVars, specIdx, idx, outVars>>
  BY DEF PlaceSpecClass
<1>5. ItemSlot' = ItemSlot
  BY <1>4, ItemSlotKept DEF tabVars, SameNames
<1>6. SymPsects'
  BY <1>4 DEF SymPsects, tabVars
<1> QED BY <1>1, <1>2, <1>3, <1>4, <1>5, <1>6, LayoutInv, Typed DEF tabVars

LEMMA PlaceClassMemberInv == IInv /\ PlaceClassMember => IInv'
<1> SUFFICES ASSUME IInv, PlaceClassMember PROVE IInv'
  OBVIOUS
<1> USE DEF IInv
<1> DEFINE p    == psectInfo[member]
           link == IF LinkMode = "CALCULATE" THEN AlignUp(linkPt, p.align) ELSE linkPt
           load == IF LoadMode = "CALCULATE" THEN AlignUp(loadPt, p.align) ELSE loadPt
<1>1. CASE Fatal
  BY <1>1, FatalInv
<1>2. CASE ~Fatal
  <2>1. /\ psectInfo' = [psectInfo EXCEPT ![member].link = link, ![member].load = load,
                                          ![member].set = TRUE]
        /\ linkPt' \in {link, link + p.blk} /\ loadPt' \in {load, load + p.blk}
        /\ member' = member + 1
        /\ UNCHANGED <<job, posVars, libTable, ident, sym, nextPsect, newSymCnt,
                       cntUnresolved, errCnt, specIdx, idx, outVars>>
    BY <1>2 DEF PlaceClassMember
  <2>2. member \in 1..nextPsect /\ member \in 1..MaxPsects
    <3>1. member <= nextPsect
      BY DEF PlaceClassMember
    <3> QED BY <3>1, Typed
  <2>3. p \in PsectEntry
    BY <2>2 DEF TypeOK
  <2>4. linkPt \in Nat /\ loadPt \in Nat /\ p.align \in Nat /\ p.blk \in Nat
    BY <2>3 DEF TypeOK, PsectEntry
  <2>5. link \in Nat /\ load \in Nat
    BY <2>4, AlignType
  <2>6. linkPt' \in Nat /\ loadPt' \in Nat
    <3> HIDE DEF link, load, p
    <3> QED BY <2>1, <2>4, <2>5
  <2> HIDE DEF link, load
  <2>7. psectInfo' \in [1..MaxPsects -> PsectEntry] /\ SameNames
    BY <2>1, <2>2, <2>5, PlacedType
  <2>8. ItemSlot' = ItemSlot
    BY <2>1, <2>7, ItemSlotKept DEF posVars
  <2>9. SymPsects'
    BY <2>1 DEF SymPsects
  <2>10. pc' = "class" /\ specIdx' <= Len(job.loc) /\ ItemSlot' # 0
    BY <2>1, <2>8 DEF posVars, PlaceClassMember, Positions
  <2> QED BY <2>1, <2>6, <2>7, <2>9, <2>10, LayoutInv, Typed DEF posVars
<1> QED BY <1>1, <1>2

LEMMA SkipClassMemberInv == IInv /\ SkipClassMember => IInv'
<1> SUFFICES ASSUME IInv, SkipClassMember PROVE IInv'
  OBVIOUS
<1> USE DEF IInv, tabVars
<1>1. /\ pc = "class" /\ member' \in Nat \ {0} /\ specIdx' \in Nat \ {0}
      /\ pc' \in {"class", "spec"} /\ (pc' = "class" => specIdx' = specIdx)
  BY DEF SkipClassMember, TypeOK
<1>2. UNCHANGED <<job, pass, fileIdx, libFileIdx, modIdx, recIdx, libTable, ident,
                  tabVars, errCnt, linkPt, loadPt, idx, outVars>>
  BY DEF SkipClassMember
<1>3. SymPsects'
  BY <1>2 DEF SymPsects
<1>4. specIdx' = specIdx => ItemSlot' = ItemSlot
  BY <1>2, ItemSlotKept DEF SameNames
<1>5. pc' = "class" => specIdx' <= Len(job.loc) /\ ItemSlot' # 0
  BY <1>1, <1>4 DEF Positions
<1>6. pc' \in {"spec", "class", "place", "stray"} /\ pc' # "stray"
  BY <1>1
<1> QED BY <1>1, <1>2, <1>3, <1>5, <1>6, LayoutInv, Typed

LEMMA SpecUnknownInv == IInv /\ SpecUnknown => IInv'
BY FatalInv DEF SpecUnknown

LEMMA SpecDoneInv == IInv /\ SpecDone => IInv'
<1> SUFFICES ASSUME IInv, SpecDone PROVE IInv'
  OBVIOUS
<1> USE DEF IInv, SpecDone, tabVars, layVars
<1>1. SymPsects'
  BY DEF SymPsects
<1> QED BY <1>1, LayoutInv DEF TypeOK

\* setPsectOrigin
LEMMA SetOriginType ==
  ASSUME TypeOK, NEW p \in PsectEntry
  PROVE  /\ OriginLink(p) \in Nat /\ OriginLoad(p) \in Nat
         /\ SetOrigin(p) \in PsectEntry
<1>1. /\ p.link \in Nat /\ p.load \in Nat /\ p.align \in Nat
      /\ linkPt \in Nat /\ loadPt \in Nat
  BY DEF PsectEntry, TypeOK
<1>2. AlignUp(linkPt, p.align) \in Nat /\ AlignUp(loadPt, p.align) \in Nat
  BY <1>1, AlignType
<1>3. OriginLink(p) \in Nat /\ OriginLoad(p) \in Nat
  BY <1>1, <1>2 DEF OriginLink, OriginLoad
<1>4. SetOrigin(p) \in PsectEntry
  BY <1>3 DEF SetOrigin, PsectEntry
<1> QED BY <1>3, <1>4

LEMMA AdvanceType ==
  ASSUME TypeOK, NEW p \in PsectEntry, Advance(p)
  PROVE  linkPt' \in Nat /\ loadPt' \in Nat
<1>1. OriginLink(p) \in Nat /\ OriginLoad(p) \in Nat /\ p.blk \in Nat
  BY SetOriginType DEF PsectEntry
<1>2. linkPt \in Nat /\ loadPt \in Nat
  BY Typed
<1>3. OriginLink(p) + p.blk \in Nat /\ OriginLoad(p) + p.blk \in Nat
  BY <1>1
<1> QED BY <1>2, <1>3 DEF Advance

\* at most three labels belong to an entry
LEMMA LabelsFinite ==
  ASSUME NEW i, NEW p
  PROVE  /\ IsFiniteSet(Fresh(i, p)) /\ IsFiniteSet(Needed(i, p) \ Fresh(i, p))
         /\ Cardinality(Fresh(i, p)) \in Nat
         /\ Cardinality(Needed(i, p) \ Fresh(i, p)) \in Nat
<1> DEFINE three == {<<"L", p.name>>, <<"H", p.name>>, <<"B", p.name>>}
<1>1. IsFiniteSet(three)
  <2>1. IsFiniteSet({<<"L", p.name>>})
    BY FS_Singleton
  <2>2. IsFiniteSet({<<"L", p.name>>} \cup {<<"H", p.name>>})
    BY <2>1, FS_AddElement
  <2>3. IsFiniteSet(({<<"L", p.name>>} \cup {<<"H", p.name>>}) \cup {<<"B", p.name>>})
    BY <2>2, FS_AddElement
  <2>4. three = ({<<"L", p.name>>} \cup {<<"H", p.name>>}) \cup {<<"B", p.name>>}
    OBVIOUS
  <2> QED BY <2>3, <2>4
<1>2. Needed(i, p) \subseteq three
  BY DEF Needed, LabelsOf
<1>3. Fresh(i, p) \subseteq three /\ (Needed(i, p) \ Fresh(i, p)) \subseteq three
  BY <1>2 DEF Fresh
<1>4. IsFiniteSet(Fresh(i, p)) /\ IsFiniteSet(Needed(i, p) \ Fresh(i, p))
  BY <1>1, <1>3, FS_Subset
<1> QED BY <1>4, FS_CardinalityType

LEMMA TooBigType == ASSUME NEW p PROVE TooBig(p) \in {0, 1}
BY DEF TooBig

LEMMA FinishPsectInv ==
  ASSUME IInv, NEW i \in 1..nextPsect, i = idx, NEW p \in PsectEntry, FinishPsect(i, p),
         linkPt' \in Nat, loadPt' \in Nat
  PROVE  IInv'
<1> USE DEF IInv
<1>1. /\ psectInfo' = [psectInfo EXCEPT ![i] = [p EXCEPT !.blk = 0]]
      /\ pc' = "place" /\ idx' = idx + 1 /\ member' = member
      /\ newSymCnt' = newSymCnt + Cardinality(Fresh(i, p))
      /\ cntUnresolved' = cntUnresolved - Cardinality(Needed(i, p) \ Fresh(i, p))
      /\ errCnt' = errCnt + TooBig(p)
      /\ UNCHANGED <<job, pass, fileIdx, libFileIdx, modIdx, recIdx, libTable,
                     ident, nextPsect, specIdx, outVars>>
  BY DEF FinishPsect
<1>2. [p EXCEPT !.blk = 0] \in PsectEntry
  BY DEF PsectEntry
<1>3. psectInfo' \in [1..MaxPsects -> PsectEntry]
  BY <1>1, <1>2, Typed
<1>4. newSymCnt' \in Nat /\ cntUnresolved' \in Int
  <2>1. /\ Cardinality(Fresh(i, p)) \in Nat
        /\ Cardinality(Needed(i, p) \ Fresh(i, p)) \in Nat
    BY LabelsFinite
  <2> QED BY <1>1, <2>1, Typed
<1>5. errCnt' \in Nat /\ idx' \in Nat \ {0}
  <2>1. TooBig(p) \in {0, 1}
    BY TooBigType
  <2> QED BY <1>1, <2>1, Typed
<1> DEFINE label(s) == [low |-> "NULL", value |-> LabelValue(s, p), psect |-> i]
<1>6. sym' = [s \in Syms |-> IF s \in Needed(i, p) THEN label(s) ELSE sym[s]]
  BY DEF FinishPsect
<1>7. \A s \in Syms : label(s) \in SymEntry /\ label(s).psect = i
  <2>1. \A s \in Syms : LabelValue(s, p) \in Int
    BY DEF LabelValue, PsectEntry
  <2> QED BY <2>1, Typed DEF SymEntry
<1> HIDE DEF label
<1>8. sym' \in [Syms -> SymEntry]
  BY <1>6, <1>7, Typed
<1>9. SymPsects'
  BY <1>1, <1>6, <1>7 DEF SymPsects
<1> QED BY <1>1, <1>3, <1>4, <1>5, <1>8, <1>9, LayoutInv, Typed

LEMMA PlaceRelocInv == IInv /\ PlaceReloc => IInv'
<1> SUFFICES ASSUME IInv, PlaceReloc PROVE IInv'
  OBVIOUS
<1> USE DEF IInv
<1>1. /\ psectInfo' = [psectInfo EXCEPT ![idx].blk = 0]
      /\ errCnt' = errCnt + TooBig(psectInfo[idx]) /\ idx' = idx + 1
      /\ UNCHANGED <<job, posVars, libTable, ident, sym, nextPsect, newSymCnt,
                     cntUnresolved, linkPt, loadPt, specIdx, member, outVars>>
      /\ pc = "place" /\ idx <= nextPsect
  BY DEF PlaceReloc
<1>2. idx \in 1..MaxPsects /\ psectInfo[idx] \in PsectEntry
  BY <1>1, Typed
<1>3. [psectInfo[idx] EXCEPT !.blk = 0] \in PsectEntry
  BY <1>2 DEF PsectEntry
<1>4. psectInfo' \in [1..MaxPsects -> PsectEntry]
  BY <1>1, <1>2, <1>3, Typed
<1>5. errCnt' \in Nat /\ idx' \in Nat \ {0}
  <2>1. TooBig(psectInfo[idx]) \in {0, 1}
    BY TooBigType
  <2> QED BY <1>1, <2>1, Typed
<1>6. SymPsects'
  BY <1>1 DEF SymPsects
<1> QED BY <1>1, <1>4, <1>5, <1>6, LayoutInv, Typed DEF posVars

LEMMA PlacePsectInv == IInv /\ PlacePsect => IInv'
<1> SUFFICES ASSUME IInv, PlacePsect PROVE IInv'
  OBVIOUS
<1> USE DEF IInv
<1> DEFINE p == psectInfo[idx]
<1>1. CASE ~LabelRoom(idx, Final(p))
  BY <1>1, FatalInv DEF PlacePsect
<1>2. CASE LabelRoom(idx, Final(p))
  <2>1. /\ idx <= nextPsect /\ FinishPsect(idx, Final(p))
        /\ IF NeedsOrigin(p) THEN Advance(p) ELSE UNCHANGED <<linkPt, loadPt>>
    BY <1>2 DEF PlacePsect
  <2>2. idx \in 1..nextPsect /\ p \in PsectEntry
    BY <2>1, Typed
  <2> HIDE DEF p
  <2>3. Final(p) \in PsectEntry
    BY <2>2, SetOriginType DEF Final
  <2>4. linkPt' \in Nat /\ loadPt' \in Nat
    BY <2>1, <2>2, AdvanceType, Typed
  <2> QED BY <2>1, <2>2, <2>3, <2>4, FinishPsectInv
<1> QED BY <1>1, <1>2

LEMMA PlaceClassInv == IInv /\ PlaceClass => IInv'
<1> SUFFICES ASSUME IInv, PlaceClass PROVE IInv'
  OBVIOUS
<1> USE DEF IInv, tabVars
<1>1. /\ pc' = "stray" /\ member' = 1 /\ idx <= nextPsect
      /\ UNCHANGED <<job, pass, fileIdx, libFileIdx, modIdx, recIdx, libTable, ident,
                     tabVars, errCnt, linkPt, loadPt, specIdx, idx, outVars>>
  BY DEF PlaceClass
<1>2. SymPsects'
  BY <1>1 DEF SymPsects
<1> QED BY <1>1, <1>2, LayoutInv, Typed

LEMMA PlaceStrayInv == IInv /\ PlaceStray => IInv'
<1> SUFFICES ASSUME IInv, PlaceStray PROVE IInv'
  OBVIOUS
<1> USE DEF IInv
<1> DEFINE p == psectInfo[member]
<1>1. /\ pc = "stray" /\ member <= nextPsect /\ member' = member + 1
      /\ UNCHANGED <<job, posVars, libTable, ident, sym, nextPsect, newSymCnt,
                     cntUnresolved, errCnt, specIdx, idx, outVars>>
  BY DEF PlaceStray
<1>2. member \in 1..nextPsect /\ member \in 1..MaxPsects /\ p \in PsectEntry
  BY <1>1, Typed
<1>3. /\ psectInfo' \in [1..MaxPsects -> PsectEntry] /\ linkPt' \in Nat /\ loadPt' \in Nat
  <2>1. CASE psectInfo' = [psectInfo EXCEPT ![member] = SetOrigin(p)] /\ Advance(p)
    <3> HIDE DEF p
    <3>1. SetOrigin(p) \in PsectEntry /\ linkPt' \in Nat /\ loadPt' \in Nat
      BY <1>2, <2>1, SetOriginType, AdvanceType
    <3> QED BY <1>2, <2>1, <3>1, Typed
  <2>2. CASE UNCHANGED <<psectInfo, linkPt, loadPt>>
    BY <2>2, Typed
  <2> QED BY <2>1, <2>2 DEF PlaceStray
<1>4. SymPsects'
  BY <1>1 DEF SymPsects
<1>5. idx' <= nextPsect
  BY <1>1 DEF Positions
<1>6. member' \in Nat \ {0}
  BY <1>1, Typed
<1> QED BY <1>1, <1>3, <1>4, <1>5, <1>6, LayoutInv, Typed DEF posVars

LEMMA PlaceClassDoneInv == IInv /\ PlaceClassDone => IInv'
<1> SUFFICES ASSUME IInv, PlaceClassDone PROVE IInv'
  OBVIOUS
<1>1. /\ FinishPsect(idx, psectInfo[idx]) /\ UNCHANGED <<linkPt, loadPt>>
      /\ idx <= nextPsect
  BY DEF PlaceClassDone, IInv, Positions
<1>2. idx \in 1..nextPsect /\ psectInfo[idx] \in PsectEntry /\ linkPt' \in Nat /\ loadPt' \in Nat
  BY <1>1, Typed DEF IInv
<1> QED BY <1>1, <1>2, FinishPsectInv

LEMMA SymsFinite == IsFiniteSet(Syms)
<1>1. IsFiniteSet({"L", "H", "B"})
  <2>1. IsFiniteSet({"L"})
    BY FS_Singleton
  <2>2. IsFiniteSet({"L"} \cup {"H"})
    BY <2>1, FS_AddElement
  <2>3. IsFiniteSet(({"L"} \cup {"H"}) \cup {"B"})
    BY <2>2, FS_AddElement
  <2>4. {"L", "H", "B"} = ({"L"} \cup {"H"}) \cup {"B"}
    OBVIOUS
  <2> QED BY <2>3, <2>4
<1>2. IsFiniteSet(LabelSyms)
  BY <1>1, FS_Product, LinkAssumption DEF LabelSyms
<1> QED BY <1>2, FS_Union, LinkAssumption DEF Syms

LEMMA ExternsFinite ==
  /\ IsFiniteSet(Externs) /\ Cardinality(Externs) \in Nat
  /\ IsFiniteSet(KnownSyms) /\ Cardinality(KnownSyms) \in Nat
<1>1. Externs \subseteq Syms /\ KnownSyms \subseteq Syms
  BY DEF Externs, KnownSyms
<1>2. IsFiniteSet(Externs) /\ IsFiniteSet(KnownSyms)
  BY <1>1, SymsFinite, FS_Subset
<1> QED BY <1>2, FS_CardinalityType

\* From the end of finPass1 to pass 1
LEMMA StartPass2Inv ==
  ASSUME IInv, StartPass2, errCnt' \in Nat, sym' \in [Syms -> SymEntry], SymPsects'
  PROVE  IInv'
<1> USE DEF IInv, StartPass2, layVars, outVars
<1>1. pc' \in {"failed", "open"}
  OBVIOUS
<1>2. TypeOK'
  BY <1>1 DEF TypeOK, ExitPoints
<1>3. Positions'
  BY <1>1 DEF Positions, TypeOK, Job
<1> QED BY <1>2, <1>3

LEMMA RelocateSymbolsInv == IInv /\ RelocateSymbols => IInv'
<1> SUFFICES ASSUME IInv, RelocateSymbols PROVE IInv'
  OBVIOUS
<1> USE DEF IInv
<1>1. UndefinedErrors \in Nat
  BY ExternsFinite DEF UndefinedErrors
<1>2. errCnt' \in Nat /\ StartPass2
  BY <1>1, Typed DEF RelocateSymbols
<1> DEFINE at(s) == sym[s].value + psectInfo[sym[s].psect].link
<1>3. sym' = [s \in Syms |->
                IF sym[s].low = "NULL" /\ ~psectInfo[sym[s].psect].abs
                THEN [sym[s] EXCEPT !.value = at(s)] ELSE sym[s]]
  <2>1. \A s \in Syms : [sym[s] EXCEPT !.value = @ + psectInfo[sym[s].psect].link]
                            = [sym[s] EXCEPT !.value = at(s)]
    BY Typed DEF SymEntry
  <2> QED BY <2>1 DEF RelocateSymbols
<1>4. \A s \in Syms : sym[s].low = "NULL" =>
        /\ [sym[s] EXCEPT !.value = at(s)] \in SymEntry
        /\ [sym[s] EXCEPT !.value = at(s)].psect = sym[s].psect
  <2> SUFFICES ASSUME NEW s \in Syms, sym[s].low = "NULL"
               PROVE  /\ [sym[s] EXCEPT !.value = at(s)] \in SymEntry
                      /\ [sym[s] EXCEPT !.value = at(s)].psect = sym[s].psect
    OBVIOUS
  <2>1. sym[s] \in SymEntry /\ sym[s].psect \in 1..nextPsect
    BY Typed DEF SymPsects
  <2>2. psectInfo[sym[s].psect].link \in Nat
    BY <2>1, Typed DEF PsectEntry
  <2>3. at(s) \in Int
    BY <2>1, <2>2 DEF SymEntry
  <2> HIDE DEF at
  <2> QED BY <2>1, <2>3 DEF SymEntry
<1> HIDE DEF at
<1>5. sym' \in [Syms -> SymEntry]
  BY <1>3, <1>4, Typed
<1>6. SymPsects'
  BY <1>2, <1>3, <1>4 DEF SymPsects, StartPass2
<1> QED BY <1>2, <1>5, <1>6, StartPass2Inv

LEMMA CommonCrashInv == IInv /\ CommonCrash => IInv'
BY ExitInv DEF CommonCrash, ExitPoints

LEMMA KeepRelocatableInv == IInv /\ KeepRelocatable => IInv'
<1> SUFFICES ASSUME IInv, KeepRelocatable PROVE IInv'
  OBVIOUS
<1>1. StartPass2 /\ UNCHANGED <<errCnt, sym>>
  BY DEF KeepRelocatable
<1>2. SymPsects'
  BY <1>1 DEF SymPsects, StartPass2, IInv
<1> QED BY <1>1, <1>2, StartPass2Inv, Typed DEF IInv

-----------------------------------------------------------------------------
(* The record handlers of pass 1 *)

LEMMA PsectSlot ==
  ASSUME TypeOK, NEW name, Slot(name, "PSECT") # 0
  PROVE  /\ Slot(name, "PSECT") \in 1..nextPsect
         /\ psectInfo[Slot(name, "PSECT")] \in PsectEntry
<1>1. Slot(name, "PSECT") \in 0..nextPsect
  BY Typed, SlotType
<1>2. Slot(name, "PSECT") \in 1..nextPsect
  BY <1>1, Typed
<1> QED BY <1>2, Typed

LEMMA BaseType ==
  ASSUME TypeOK, NEW i \in 1..nextPsect
  PROVE  TextBlock(i) \in Nat /\ PsectBase(i) \in Nat
<1>1. psectInfo[i] \in PsectEntry
  BY Typed
<1>2. psectInfo[i].blk \in Nat /\ psectInfo[i].link \in Nat
  BY <1>1 DEF PsectEntry
<1> QED BY <1>2 DEF TextBlock, PsectBase

LEMMA TextRecPass2Inv == IInv /\ TextRecPass2 => IInv'
<1> SUFFICES ASSUME IInv, TextRecPass2 PROVE IInv'
  OBVIOUS
<1> USE DEF IInv
<1> DEFINE i == Slot(Rec.psect, "PSECT")
           linkAt == Rec.off + TextBlock(i) + (IF job.R THEN 0 ELSE psectInfo[i].link)
<1>1. Rec \in Record /\ Rec.t = "TEXT" /\ pc = "rec" /\ i # 0
  BY ReadingRec DEF TextRecPass2, Reading
<1>2. Rec.off \in Nat /\ Rec.len \in Nat
  BY <1>1, RecordFields
<1>3. i \in 1..nextPsect /\ psectInfo[i] \in PsectEntry
  BY <1>1, PsectSlot
<1>4. /\ psectInfo' = Grown(psectInfo, i, Rec.off + Rec.len)
      /\ text' = [psect |-> i, base |-> linkAt, len |-> Rec.len]
      /\ NextRec
      /\ UNCHANGED <<job, libTable, ident, sym, nextPsect, newSymCnt, cntUnresolved,
                     errCnt, layVars, entry>>
  BY DEF TextRecPass2
<1> HIDE DEF i
<1>5. psectInfo' \in [1..MaxPsects -> PsectEntry]
  <2>1. Rec.off + Rec.len \in Nat /\ psectInfo \in [1..MaxPsects -> PsectEntry]
    BY <1>2, Typed
  <2> QED BY <1>4, <2>1, GrownType
<1>6. linkAt \in Nat /\ i \in Nat
  <2>1. TextBlock(i) \in Nat /\ i \in Nat /\ psectInfo[i].link \in Nat
    BY <1>3, BaseType, Typed DEF PsectEntry
  <2> QED BY <1>2, <2>1
<1> HIDE DEF linkAt
<1>7. text' \in [psect : Nat, base : Nat, len : Nat]
  BY <1>2, <1>4, <1>6
<1>8. TypeOK'
  BY <1>4, <1>5, <1>7 DEF TypeOK, NextRec, layVars
<1>9. Positions'
  BY <1>1, <1>4, NextRecPositions
<1>10. SymPsects'
  BY <1>4 DEF SymPsects
<1> QED BY <1>8, <1>9, <1>10

LEMMA FixupErrorsType == ASSUME NEW add, NEW deltas PROVE FixupErrors(add, deltas) \in Nat
BY DEF FixupErrors, OverflowErr

LEMMA RelocRecPass2Inv == IInv /\ RelocRecPass2 => IInv'
<1> SUFFICES ASSUME IInv, RelocRecPass2 PROVE IInv'
  OBVIOUS
<1> USE DEF IInv
<1>1. CASE Fatal
  BY <1>1, FatalInv
<1>2. CASE pc' = "crash" /\ UNCHANGED <<job, pass, fileIdx, libFileIdx, modIdx, recIdx,
                                       libTable, ident, tabVars, errCnt, layVars, outVars>>
  BY <1>2, ExitInv DEF ExitPoints
<1>3. CASE /\ errCnt' = errCnt + FixupErrors(Rec.add, Deltas) /\ NextRec
           /\ UNCHANGED <<job, libTable, ident, tabVars, layVars, text, entry>>
  <2>1. FixupErrors(Rec.add, Deltas) \in Nat
    BY FixupErrorsType
  <2>2. errCnt' \in Nat
    BY <1>3, <2>1, Typed
  <2>3. pc = "rec"
    BY DEF RelocRecPass2, Reading
  <2> QED BY <1>3, <2>2, <2>3, ReadOn DEF TypeOK
<1> QED BY <1>1, <1>2, <1>3 DEF RelocRecPass2

LEMMA SymRecPass2Inv == IInv /\ SymRecPass2 => IInv'
<1> SUFFICES ASSUME IInv, SymRecPass2 PROVE IInv'
  OBVIOUS
<1>1. /\ pc = "rec" /\ NextRec
      /\ UNCHANGED <<job, libTable, ident, tabVars, errCnt, layVars, text, entry>>
  BY DEF SymRecPass2, Reading
<1> QED BY <1>1, ReadOn DEF IInv, TypeOK

LEMMA StartRecPass2Inv == IInv /\ StartRecPass2 => IInv'
<1> SUFFICES ASSUME IInv, StartRecPass2 PROVE IInv'
  OBVIOUS
<1> USE DEF IInv
<1> DEFINE i == Slot(Rec.psect, "PSECT")
<1>1. Rec \in Record /\ Rec.t = "START" /\ pc = "rec" /\ i # 0
  BY ReadingRec DEF StartRecPass2, Reading
<1>2. Rec.off \in Nat
  BY <1>1, RecordFields
<1>3. i \in 1..nextPsect
  BY <1>1, PsectSlot
<1>4. /\ errCnt' \in {errCnt, errCnt + 1} /\ entry' = Append(entry, Rec.off + PsectBase(i))
      /\ NextRec /\ UNCHANGED <<job, libTable, ident, tabVars, layVars, text>>
  BY DEF StartRecPass2
<1> HIDE DEF i
<1>5. Rec.off + PsectBase(i) \in Nat
  BY <1>2, <1>3, BaseType
<1>6. entry' \in Seq(Nat)
  BY <1>4, <1>5 DEF TypeOK
<1>7. errCnt' \in Nat
  BY <1>4, Typed
<1> QED BY <1>1, <1>4, <1>6, <1>7, ReadOn DEF TypeOK

LEMMA FinPass2Inv == IInv /\ FinPass2 => IInv'
BY ExitInv DEF FinPass2, ExitPoints

-----------------------------------------------------------------------------
(* The theorem *)

LEMMA InitInv == Init => IInv
<1> SUFFICES ASSUME Init PROVE IInv
  OBVIOUS
<1> USE DEF Init
<1>1. job \in Job /\ job \in Jobs
  BY LinkAssumption
<1>2. job.force \subseteq UserSyms
  BY <1>1 DEF Job
<1>3. Cardinality(job.force) \in Nat
  BY <1>2, LinkAssumption, FS_Subset, FS_CardinalityType
<1>4. AbsEntry \in PsectEntry
  BY DEF AbsEntry, NewPsect, PsectEntry, AllNames
<1>5. psectInfo \in [1..MaxPsects -> PsectEntry]
  BY <1>4
<1>6. sym \in [Syms -> SymEntry] /\ \A s \in Syms : sym[s].low # "NULL"
  BY DEF SymEntry, Unresolved, NoSym
<1>7. MaxPsects \in Nat \ {0}
  BY LinkAssumption
<1>8. TypeOK
  <2>1. /\ newSymCnt \in Nat /\ cntUnresolved \in Int /\ errCnt \in Nat
        /\ nextPsect \in 1..MaxPsects
    BY <1>3, <1>7
  <2>2. entry \in Seq(Nat) /\ text \in [psect : Nat, base : Nat, len : Nat]
    OBVIOUS
  <2>3. /\ libTable \subseteq Nat \X Nat /\ ident \in Orders \cup {NoOrder}
        /\ pc \in {"open"} /\ pass \in {0, 1}
        /\ fileIdx \in Nat /\ libFileIdx \in Nat /\ modIdx \in Nat /\ recIdx \in Nat \ {0}
        /\ linkPt \in Nat /\ loadPt \in Nat
        /\ specIdx \in Nat \ {0} /\ idx \in Nat \ {0} /\ member \in Nat \ {0}
    OBVIOUS
  <2> HIDE DEF Init
  <2> QED BY <1>1, <1>5, <1>6, <2>1, <2>2, <2>3 DEF TypeOK
<1>9. Positions
  BY <1>1 DEF Positions, Job
<1>10. SymPsects
  BY <1>6 DEF SymPsects
<1> QED BY <1>8, <1>9, <1>10 DEF IInv

LEMMA NextInv == IInv /\ [Next]_vars => IInv'
<1> SUFFICES ASSUME IInv, [Next]_vars PROVE IInv'
  OBVIOUS
<1>1. CASE ReadStep
  <2>1. CASE Pass1Rec
    BY <2>1, IdentRecInv, PsectRecInv, XpsectRecInv, TextRecPass1Inv, RelocRecPass1Inv,
       SymExternPass1Inv, SymCommPass1Inv, SymNullPass1Inv DEF Pass1Rec
  <2>2. CASE Pass2Rec
    BY <2>2, TextRecPass2Inv, RelocRecPass2Inv, SymRecPass2Inv, StartRecPass2Inv DEF Pass2Rec
  <2> QED BY <1>1, <2>1, <2>2, OpenFileInv, ScanModuleInv, DoModuleInv, CloseLibraryInv,
             NoEndRecordInv, EndRecInv, SkipRecInv DEF ReadStep
<1>2. CASE LayoutStep
  BY <1>2, FinPass1Inv, PlaceSpecPsectInv, PlaceSpecClassInv, PlaceClassMemberInv,
     SkipClassMemberInv, SpecUnknownInv, SpecDoneInv, PlaceRelocInv, PlacePsectInv,
     PlaceClassInv, PlaceStrayInv, PlaceClassDoneInv, RelocateSymbolsInv, CommonCrashInv,
     KeepRelocatableInv DEF LayoutStep
<1>3. CASE FinPass2
  BY <1>3, FinPass2Inv
<1>4. CASE UNCHANGED vars
  <2> USE <1>4 DEF vars, posVars, tabVars, layVars, outVars, histVars
  <2>1. TypeOK'
    BY DEF IInv, TypeOK
  <2>2. CurFile' = CurFile
    BY DEF CurFile
  <2>3. ItemSlot' = ItemSlot
    BY ItemSlotKept DEF SameNames
  <2>4. Positions'
    BY <2>2, <2>3 DEF IInv, Positions
  <2>5. SymPsects'
    BY DEF IInv, SymPsects
  <2> QED BY <2>1, <2>4, <2>5 DEF IInv
<1> QED BY <1>1, <1>2, <1>3, <1>4 DEF Next, Step, Exited

\* Every variable of the linker keeps its type through both passes, so no handler
\* indexes psectInfo or symTab past the entries addSym made (link/sym.c addSym,
\* finPass1), for every set of files, any table sizes and any -p items.
THEOREM TypeCorrect == Spec => []TypeOK
<1>1. Init => IInv
  BY InitInv
<1>2. IInv /\ [Next]_vars => IInv'
  BY NextInv
<1>3. IInv => TypeOK
  BY DEF IInv
<1> QED BY <1>1, <1>2, <1>3, PTL DEF Spec

\* The loops of main, of visitModules and of the -p items never leave the files,
\* modules and items there are.
THEOREM PositionsCorrect == Spec => []Positions
<1>1. Init => IInv
  BY InitInv
<1>2. IInv /\ [Next]_vars => IInv'
  BY NextInv
<1>3. IInv => Positions
  BY DEF IInv
<1> QED BY <1>1, <1>2, <1>3, PTL DEF Spec

-----------------------------------------------------------------------------
(* The counts of the symbol table (CountsCorrect).                         *)
(*                                                                         *)
(* addSym, defineSym and finPass1 keep count of the table: newSymCnt is    *)
(* the number of its slots in use, within its size, and cntUnresolved the  *)
(* number of symbols still external.                                       *)
(*                                                                         *)
(* A count is of interest only where entries are made.  The actions fall   *)
(* in five groups: those that make none (KeptCounts), those that enter     *)
(* psects or classes, those that mention a symbol, those that define one,  *)
(* and those that define the labels of a psect.                            *)

-----------------------------------------------------------------------------
(* The inductive invariant *)

\* The first entry is the absolute psect, so that addSym never makes another one
\* and no labels are ever made of the empty name.
AbsFirst == /\ psectInfo[1].name = Abs /\ psectInfo[1].kind = "PSECT" /\ psectInfo[1].glob

\* The entry of a psect, other than the first, has the name of one.
PsectNamed == \A i \in 2..nextPsect :
                psectInfo[i].kind = "PSECT" => psectInfo[i].name \in PsectNames

\* finPass1 looks for the psects of a class.
StrayClass == pc = "stray" => psectInfo[idx].kind = "CLASS"

Entries == AbsFirst /\ PsectNamed /\ StrayClass

CInv == TableCounts /\ Entries

LEMMA NatCounts ==
  ASSUME TypeOK
  PROVE  /\ newSymCnt \in Nat /\ cntUnresolved \in Int /\ nextPsect \in Nat
         /\ MaxSymbols \in Nat
         /\ Cardinality(KnownSyms) \in Nat /\ Cardinality(Externs) \in Nat
BY Typed, ExternsFinite, LinkAssumption

-----------------------------------------------------------------------------
(* Steps that make no entry *)

\* no symbol becomes known, defined or external, no psect another one
KeptCounts ==
  /\ UNCHANGED <<nextPsect, newSymCnt, cntUnresolved>>
  /\ \A s \in Syms : sym'[s].low = sym[s].low
  /\ SameNames
  /\ pc' = "stray" => psectInfo[idx'].kind = "CLASS" /\ idx' \in 1..nextPsect

LEMMA KeptInv ==
  ASSUME TypeOK, CInv, KeptCounts
  PROVE  CInv'
<1> USE DEF CInv
<1>1. KnownSyms' = KnownSyms /\ Externs' = Externs
  BY DEF KeptCounts, KnownSyms, Known, Externs, Extern
<1>2. TableCounts'
  BY <1>1 DEF TableCounts, KeptCounts
<1>3. 1 \in 1..nextPsect /\ nextPsect' = nextPsect
  BY Typed DEF KeptCounts
<1>4. AbsFirst' /\ PsectNamed'
  <2>1. \A i \in 2..nextPsect : i \in 1..nextPsect
    BY <1>3
  <2> QED BY <1>3, <2>1 DEF Entries, AbsFirst, PsectNamed, KeptCounts, SameNames
<1>5. StrayClass'
  BY DEF StrayClass, KeptCounts, SameNames
<1> QED BY <1>2, <1>4, <1>5 DEF Entries

\* the tables stay as they are, and finPass1 where it is
LEMMA UntouchedInv ==
  ASSUME TypeOK, CInv, UNCHANGED tabVars, pc' # "stray" \/ (pc' = pc /\ idx' = idx),
         Positions
  PROVE  CInv'
<1>1. KeptCounts
  <2>1. SameNames
    BY DEF SameNames, tabVars
  <2>2. pc' = "stray" => psectInfo[idx'].kind = "CLASS" /\ idx' \in 1..nextPsect
    BY Typed DEF CInv, Entries, StrayClass, Positions
  <2> QED BY <2>1, <2>2 DEF KeptCounts, tabVars
<1> QED BY <1>1, KeptInv

LEMMA FatalCounts ==
  ASSUME TypeOK, Positions, CInv, Fatal PROVE CInv'
BY UntouchedInv DEF Fatal

\* those that leave the symbol table alone
Untouching ==
  \/ OpenFile \/ ScanModule \/ DoModule \/ CloseLibrary \/ NoEndRecord \/ IdentRec
  \/ RelocRecPass2 \/ SymRecPass2 \/ StartRecPass2 \/ SkipRec
  \/ FinPass1 \/ PlaceSpecClass \/ SkipClassMember \/ SpecUnknown \/ SpecDone
  \/ CommonCrash \/ KeepRelocatable \/ FinPass2 \/ UNCHANGED vars

LEMMA UntouchingCounts ==
  ASSUME TypeOK, Positions, CInv, Untouching PROVE CInv'
<1>1. UNCHANGED tabVars /\ (pc' # "stray" \/ (pc' = pc /\ idx' = idx))
  <2> USE DEF tabVars, layVars, Fatal, StartModule, NextRec, posVars
  <2>1. CASE OpenFile
    BY <2>1 DEF OpenFile
  <2>2. CASE ScanModule
    BY <2>2 DEF ScanModule
  <2>3. CASE DoModule
    BY <2>3 DEF DoModule
  <2>4. CASE CloseLibrary \/ NoEndRecord
    BY <2>4 DEF CloseLibrary, NoEndRecord
  <2>5. CASE IdentRec
    BY <2>5 DEF IdentRec
  <2>6. CASE RelocRecPass2
    BY <2>6 DEF RelocRecPass2
  <2>7. CASE SymRecPass2 \/ StartRecPass2
    BY <2>7 DEF SymRecPass2, StartRecPass2
  <2>8. CASE SkipRec
    BY <2>8 DEF SkipRec
  <2>9. CASE FinPass1 \/ PlaceSpecClass \/ SpecUnknown \/ SpecDone
    BY <2>9 DEF FinPass1, PlaceSpecClass, SpecUnknown, SpecDone
  <2>10. CASE SkipClassMember
    BY <2>10 DEF SkipClassMember
  <2>11. CASE CommonCrash \/ FinPass2 \/ UNCHANGED vars
    BY <2>11 DEF CommonCrash, FinPass2, vars
  <2>12. CASE KeepRelocatable
    BY <2>12 DEF KeepRelocatable, StartPass2
  <2> QED BY <2>1, <2>2, <2>3, <2>4, <2>5, <2>6, <2>7, <2>8, <2>9, <2>10, <2>11, <2>12
          DEF Untouching
<1> QED BY <1>1, UntouchedInv
-----------------------------------------------------------------------------
(* Steps that change entries of psectInfo, or values, but make none *)

\* one entry of psectInfo gets new addresses or sizes
LEMMA OneEntryKept ==
  ASSUME TypeOK, NEW i \in 1..nextPsect, NEW q,
         psectInfo' = [psectInfo EXCEPT ![i] = q],
         q.name = psectInfo[i].name, q.kind = psectInfo[i].kind,
         q.glob = psectInfo[i].glob, q.fileId = psectInfo[i].fileId
  PROVE  SameNames
<1>1. \A j \in 1..nextPsect : psectInfo'[j] = IF j = i THEN q ELSE psectInfo[j]
  BY Typed
<1> QED BY <1>1 DEF SameNames

LEMMA SetOriginNames ==
  ASSUME NEW p \in PsectEntry
  PROVE  /\ SetOrigin(p).name = p.name /\ SetOrigin(p).kind = p.kind
         /\ SetOrigin(p).glob = p.glob /\ SetOrigin(p).fileId = p.fileId
BY DEF SetOrigin, PsectEntry

LEMMA PlaceSpecPsectCounts ==
  ASSUME TypeOK, Positions, CInv, PlaceSpecPsect PROVE CInv'
<1> DEFINE i == ItemSlot
           p == psectInfo[i]
<1>1. CASE Fatal
  BY <1>1, FatalCounts
<1>2. CASE ~Fatal
  <2>1. /\ psectInfo' = [psectInfo EXCEPT ![i].link = ItemLink, ![i].load = ItemLoad,
                                          ![i].set = TRUE]
        /\ UNCHANGED <<pc, sym, nextPsect, newSymCnt, cntUnresolved, idx>>
        /\ pc = "spec" /\ specIdx <= Len(job.loc) /\ i # 0
    BY <1>2 DEF PlaceSpecPsect, posVars
  <2>2. i \in 1..nextPsect /\ ItemLink \in Nat /\ ItemLoad \in Nat
    BY <2>1, ItemType
  <2>3. SameNames
    BY <2>1, <2>2, PlacedType
  <2>4. KeptCounts
    BY <2>1, <2>3 DEF KeptCounts
  <2> QED BY <2>4, KeptInv
<1> QED BY <1>1, <1>2

LEMMA PlaceClassMemberCounts ==
  ASSUME TypeOK, Positions, CInv, PlaceClassMember PROVE CInv'
<1> DEFINE p    == psectInfo[member]
           link == IF LinkMode = "CALCULATE" THEN AlignUp(linkPt, p.align) ELSE linkPt
           load == IF LoadMode = "CALCULATE" THEN AlignUp(loadPt, p.align) ELSE loadPt
<1>1. CASE Fatal
  BY <1>1, FatalCounts
<1>2. CASE ~Fatal
  <2>1. /\ psectInfo' = [psectInfo EXCEPT ![member].link = link, ![member].load = load,
                                          ![member].set = TRUE]
        /\ UNCHANGED <<pc, sym, nextPsect, newSymCnt, cntUnresolved, idx>>
        /\ pc = "class" /\ member <= nextPsect
    BY <1>2 DEF PlaceClassMember, posVars
  <2>2. member \in 1..nextPsect /\ p \in PsectEntry
    BY <2>1, Typed
  <2>3. link \in Nat /\ load \in Nat
    BY <2>2, AlignType, Typed DEF PsectEntry
  <2> HIDE DEF link, load
  <2>4. SameNames
    BY <2>1, <2>2, <2>3, PlacedType
  <2>5. KeptCounts
    BY <2>1, <2>4 DEF KeptCounts
  <2> QED BY <2>5, KeptInv
<1> QED BY <1>1, <1>2

LEMMA PlaceRelocCounts ==
  ASSUME TypeOK, Positions, CInv, PlaceReloc PROVE CInv'
<1>1. /\ psectInfo' = [psectInfo EXCEPT ![idx].blk = 0]
      /\ UNCHANGED <<pc, sym, nextPsect, newSymCnt, cntUnresolved>>
      /\ pc = "place" /\ idx <= nextPsect
  BY DEF PlaceReloc, posVars
<1>2. idx \in 1..nextPsect /\ psectInfo[idx] \in PsectEntry
  BY <1>1, Typed
<1> DEFINE q == [psectInfo[idx] EXCEPT !.blk = 0]
<1>3. /\ q.name = psectInfo[idx].name /\ q.kind = psectInfo[idx].kind
      /\ q.glob = psectInfo[idx].glob /\ q.fileId = psectInfo[idx].fileId
      /\ psectInfo' = [psectInfo EXCEPT ![idx] = q]
  BY <1>1, <1>2 DEF PsectEntry
<1> HIDE DEF q
<1>4. SameNames
  BY <1>2, <1>3, OneEntryKept
<1> QED BY <1>1, <1>4, KeptInv DEF KeptCounts

LEMMA PlaceClassCounts ==
  ASSUME TypeOK, Positions, CInv, PlaceClass PROVE CInv'
<1>1. /\ UNCHANGED tabVars /\ idx' = idx /\ idx <= nextPsect /\ psectInfo[idx].kind = "CLASS"
  BY DEF PlaceClass
<1>2. idx \in 1..nextPsect
  BY <1>1, Typed
<1> QED BY <1>1, <1>2, KeptInv DEF KeptCounts, SameNames, tabVars

LEMMA PlaceStrayCounts ==
  ASSUME TypeOK, Positions, CInv, PlaceStray PROVE CInv'
<1> DEFINE p == psectInfo[member]
<1>1. /\ UNCHANGED <<pc, sym, nextPsect, newSymCnt, cntUnresolved, idx>>
      /\ pc = "stray" /\ member <= nextPsect
      /\ psectInfo' = [psectInfo EXCEPT ![member] = SetOrigin(p)] \/ psectInfo' = psectInfo
  BY DEF PlaceStray, posVars
<1>2. member \in 1..nextPsect /\ p \in PsectEntry
  BY <1>1, Typed
<1>3. SameNames
  <2>1. CASE psectInfo' = psectInfo
    BY <2>1 DEF SameNames
  <2>2. CASE psectInfo' = [psectInfo EXCEPT ![member] = SetOrigin(p)]
    BY <1>2, <2>2, SetOriginNames, OneEntryKept
  <2> QED BY <1>1, <2>1, <2>2
<1>4. idx \in 1..nextPsect /\ psectInfo[idx].kind = "CLASS"
  BY <1>1, Typed DEF Positions, CInv, Entries, StrayClass
<1> QED BY <1>1, <1>3, <1>4, KeptInv DEF KeptCounts

LEMMA EndRecCounts ==
  ASSUME TypeOK, Positions, CInv, EndRec PROVE CInv'
<1>1. /\ psectInfo' = [i \in 1..MaxPsects |->
                         IF i <= nextPsect THEN EndOfModule(psectInfo[i]) ELSE psectInfo[i]]
      /\ pc' \in {"scan", "open"}
      /\ UNCHANGED <<sym, nextPsect, newSymCnt, cntUnresolved>>
  BY DEF EndRec
<1>2. \A i \in 1..nextPsect :
        /\ i \in 1..MaxPsects /\ i <= nextPsect
        /\ EndOfModule(psectInfo[i]).name = psectInfo[i].name
        /\ EndOfModule(psectInfo[i]).kind = psectInfo[i].kind
        /\ EndOfModule(psectInfo[i]).glob = psectInfo[i].glob
        /\ EndOfModule(psectInfo[i]).fileId = psectInfo[i].fileId
  <2> SUFFICES ASSUME NEW i \in 1..nextPsect
               PROVE /\ i \in 1..MaxPsects /\ i <= nextPsect
                     /\ EndOfModule(psectInfo[i]).name = psectInfo[i].name
                     /\ EndOfModule(psectInfo[i]).kind = psectInfo[i].kind
                     /\ EndOfModule(psectInfo[i]).glob = psectInfo[i].glob
                     /\ EndOfModule(psectInfo[i]).fileId = psectInfo[i].fileId
    OBVIOUS
  <2>1. i \in 1..MaxPsects /\ psectInfo[i] \in PsectEntry /\ i <= nextPsect
    BY Typed
  <2> QED BY <2>1 DEF EndOfModule, PsectEntry
<1>3. SameNames
  BY <1>1, <1>2 DEF SameNames
<1> QED BY <1>1, <1>3, KeptInv DEF KeptCounts

LEMMA TextRecPass2Counts ==
  ASSUME TypeOK, Positions, CInv, TextRecPass2 PROVE CInv'
<1> DEFINE i == Slot(Rec.psect, "PSECT")
           end == Rec.off + Rec.len
           q == [psectInfo[i] EXCEPT !.end = IF @ < end THEN end ELSE @]
<1>1. /\ psectInfo' = Grown(psectInfo, i, end) /\ i # 0
      /\ UNCHANGED <<pc, sym, nextPsect, newSymCnt, cntUnresolved>> /\ pc = "rec"
  BY DEF TextRecPass2, Reading, NextRec
<1> HIDE DEF end
<1>2. i \in 1..nextPsect /\ psectInfo[i] \in PsectEntry
  BY <1>1, PsectSlot
<1> HIDE DEF i
<1>3. /\ q.name = psectInfo[i].name /\ q.kind = psectInfo[i].kind
      /\ q.glob = psectInfo[i].glob /\ q.fileId = psectInfo[i].fileId
      /\ psectInfo' = [psectInfo EXCEPT ![i] = q]
  BY <1>1, <1>2 DEF Grown, PsectEntry
<1> HIDE DEF q
<1>4. SameNames
  BY <1>2, <1>3, OneEntryKept
<1> QED BY <1>1, <1>4, KeptInv DEF KeptCounts

\* values become addresses
LEMMA RelocateSymbolsCounts ==
  ASSUME TypeOK, Positions, CInv, RelocateSymbols PROVE CInv'
<1>1. /\ UNCHANGED <<psectInfo, nextPsect, newSymCnt, cntUnresolved>>
      /\ pc' \in {"failed", "open"}
  BY DEF RelocateSymbols, StartPass2
<1>2. \A s \in Syms : sym'[s].low = sym[s].low
  BY Typed DEF RelocateSymbols, SymEntry
<1> QED BY <1>1, <1>2, KeptInv DEF KeptCounts, SameNames
-----------------------------------------------------------------------------
(* Handlers that enter psects and classes *)

\* the table has the entries of psectInfo and, up to n, new ones
Extends(table, n) ==
  /\ \A i \in 1..nextPsect : /\ table[i].name = psectInfo[i].name
                             /\ table[i].kind = psectInfo[i].kind
                             /\ psectInfo[i].glob => table[i].glob
  /\ \A i \in (nextPsect + 1)..n : table[i].kind = "PSECT" => table[i].name \in PsectNames

\* What a handler of pass 0 has to get right: k psects or classes and m symbols
LEMMA HandlerInv ==
  ASSUME TypeOK, CInv, NEW k \in Nat, NEW m \in Nat, Room(k, m), pc' # "stray",
         nextPsect' = nextPsect + k, newSymCnt' = newSymCnt + k + m,
         Extends(psectInfo', nextPsect + k),
         Cardinality(KnownSyms)' = Cardinality(KnownSyms) + m,
         cntUnresolved' = Cardinality(Externs)'
  PROVE  CInv'
<1>1. newSymCnt' <= MaxSymbols
  BY NatCounts DEF Room, CInv, TableCounts
<1>2. newSymCnt' = nextPsect' + Cardinality(KnownSyms)'
  BY NatCounts DEF CInv, TableCounts
<1>3. TableCounts'
  BY <1>1, <1>2 DEF TableCounts
<1>4. nextPsect \in Nat /\ 1 \in 1..nextPsect
  BY Typed
<1>5. AbsFirst'
  BY <1>4 DEF Extends, CInv, Entries, AbsFirst
<1>6. PsectNamed'
  <2> SUFFICES ASSUME NEW i \in 2..(nextPsect + k), psectInfo'[i].kind = "PSECT"
               PROVE  psectInfo'[i].name \in PsectNames
    BY DEF PsectNamed
  <2>1. CASE i \in 2..nextPsect
    <3>1. i \in 1..nextPsect
      BY <1>4, <2>1
    <3> QED BY <2>1, <3>1 DEF Extends, CInv, Entries, PsectNamed
  <2>2. CASE i \in (nextPsect + 1)..(nextPsect + k)
    BY <2>2 DEF Extends
  <2> QED BY <1>4, <2>1, <2>2
<1> QED BY <1>3, <1>5, <1>6 DEF CInv, Entries, StrayClass

\* the symbols stay as they are
LEMMA SymsSame ==
  ASSUME CInv, sym' = sym, cntUnresolved' = cntUnresolved
  PROVE  /\ KnownSyms' = KnownSyms /\ Cardinality(KnownSyms)' = Cardinality(KnownSyms)
         /\ cntUnresolved' = Cardinality(Externs)'
<1>1. KnownSyms' = KnownSyms /\ Externs' = Externs
  BY DEF KnownSyms, Known, Externs, Extern
<1> QED BY <1>1 DEF CInv, TableCounts

\* the absolute psect is always found
LEMMA AbsFound ==
  ASSUME TypeOK, AbsFirst
  PROVE  Slot(Abs, "PSECT") # 0
<1> DEFINE S == Slots(Abs, "PSECT")
           firsts == {i \in S : \A j \in S : i <= j}
<1>1. nextPsect \in Nat /\ 1 \in 1..nextPsect
  BY Typed
<1>2. 1 \in S /\ \A j \in S : j \in 1..nextPsect
  BY <1>1 DEF Slots, AbsFirst
<1>3. 1 \in firsts
  BY <1>1, <1>2
<1>4. Slot(Abs, "PSECT") \in firsts
  BY <1>3 DEF Slot, FirstOf
<1> QED BY <1>1, <1>2, <1>4

LEMMA EnteredExtends ==
  ASSUME TypeOK, CInv, NEW name \in PsectNames \cup {Abs}, NEW glob \in BOOLEAN,
         NEW ovr \in BOOLEAN, NEW abs \in BOOLEAN,
         nextPsect + Missing(name, "PSECT") <= MaxPsects
  PROVE  Extends(Entered(name, "PSECT", glob, ovr, abs), nextPsect + Missing(name, "PSECT"))
<1> DEFINE i == Slot(name, "PSECT")
           q == Merge(psectInfo[i], glob, ovr, abs)
           n == NewPsect(name, "PSECT", glob, ovr, abs)
           new == Entered(name, "PSECT", glob, ovr, abs)
<1>1. i \in 0..nextPsect /\ nextPsect \in Nat /\ nextPsect \in 1..MaxPsects /\ MaxPsects \in Nat
  BY SlotType, Typed
<1>2. CASE i = 0
  <2>1. new = [psectInfo EXCEPT ![nextPsect + 1] = n] /\ Missing(name, "PSECT") = 1
    BY <1>2 DEF Entered, Missing
  <2>2. name \in PsectNames
    BY <1>2, AbsFound DEF CInv, Entries
  <2>3. n.name = name
    BY DEF NewPsect
  <2>4. nextPsect + 1 \in 1..MaxPsects
    BY <1>1, <2>1
  <2> HIDE DEF n, new
  <2>5. \A j \in 1..nextPsect : new[j] = psectInfo[j]
    <3> SUFFICES ASSUME NEW j \in 1..nextPsect PROVE new[j] = psectInfo[j]
      OBVIOUS
    <3>1. j # nextPsect + 1 /\ j \in 1..MaxPsects
      BY <1>1
    <3> QED BY <2>1, <3>1, Typed
  <2>6. new[nextPsect + 1] = n
    BY <2>1, <2>4, Typed
  <2>7. \A j \in (nextPsect + 1)..(nextPsect + 1) : j = nextPsect + 1
    BY <1>1
  <2> QED BY <2>1, <2>2, <2>3, <2>5, <2>6, <2>7 DEF Extends, new
<1>3. CASE i # 0
  <2>1. new = [psectInfo EXCEPT ![i] = q] /\ Missing(name, "PSECT") = 0
    BY <1>3 DEF Entered, Missing
  <2>2. i \in 1..nextPsect /\ psectInfo[i] \in PsectEntry
    BY <1>1, <1>3, Typed
  <2>3. /\ q.name = psectInfo[i].name /\ q.kind = psectInfo[i].kind
        /\ psectInfo[i].glob => q.glob
    BY <2>2 DEF Merge, PsectEntry
  <2> HIDE DEF i, q, new
  <2>4. \A j \in 1..nextPsect : new[j] = IF j = i THEN q ELSE psectInfo[j]
    BY <2>1, Typed
  <2>5. (nextPsect + 1)..(nextPsect + Missing(name, "PSECT")) = {}
    BY <1>1, <2>1
  <2> QED BY <2>3, <2>4, <2>5 DEF Extends, new
<1> QED BY <1>2, <1>3

LEMMA PsectRecCounts ==
  ASSUME TypeOK, Positions, CInv, PsectRec PROVE CInv'
<1> DEFINE k == Missing(Rec.psect, "PSECT")
<1>1. CASE ~Room(k, 0)
  BY <1>1, FatalCounts DEF PsectRec
<1>2. CASE Room(k, 0)
  <2>1. Rec \in Record /\ Rec.t = "PSECT"
    BY ReadingRec DEF PsectRec, Reading
  <2>2. /\ Rec.psect \in PsectNames /\ Rec.glob \in BOOLEAN
        /\ Rec.ovr \in BOOLEAN /\ Rec.abs \in BOOLEAN
    BY <2>1, RecordFields
  <2>3. k \in Nat /\ nextPsect + k <= MaxPsects
    <3>1. k \in Nat
      BY DEF Missing
    <3> QED BY <1>2, <3>1, RoomType
  <2>4. /\ psectInfo' = Entered(Rec.psect, "PSECT", Rec.glob, Rec.ovr, Rec.abs)
        /\ nextPsect' = nextPsect + k /\ newSymCnt' = newSymCnt + k
        /\ UNCHANGED <<sym, cntUnresolved>> /\ pc' = "rec"
    BY <1>2 DEF PsectRec, Reading, NextRec
  <2>5. Extends(psectInfo', nextPsect + k)
    BY <2>2, <2>3, <2>4, EnteredExtends
  <2> HIDE DEF k
  <2>6. newSymCnt' = newSymCnt + k + 0
        /\ Cardinality(KnownSyms)' = Cardinality(KnownSyms) + 0
    BY <2>3, <2>4, NatCounts, SymsSame
  <2> QED BY <1>2, <2>3, <2>4, <2>5, <2>6, SymsSame, HandlerInv
<1> QED BY <1>1, <1>2

LEMMA TextRecPass1Counts ==
  ASSUME TypeOK, Positions, CInv, TextRecPass1 PROVE CInv'
<1> DEFINE k == Missing(Rec.psect, "PSECT")
           i == SlotAfter(Rec.psect, "PSECT")
           new == Mentioned(Rec.psect)
           end == Rec.off + Rec.len
<1>1. CASE ~Room(k, 0)
  BY <1>1, FatalCounts DEF TextRecPass1
<1>2. CASE Room(k, 0)
  <2>1. Rec \in Record /\ Rec.t = "TEXT"
    BY ReadingRec DEF TextRecPass1, Reading
  <2>2. Rec.psect \in PsectNames \cup {Abs} /\ Rec.psect \in AllNames
    BY <2>1, RecordFields DEF AllNames
  <2>3. k \in Nat /\ nextPsect + k <= MaxPsects
    <3>1. k \in Nat
      BY DEF Missing
    <3> QED BY <1>2, <3>1, RoomType
  <2>4. /\ psectInfo' = Grown(new, i, end)
        /\ nextPsect' = nextPsect + k /\ newSymCnt' = newSymCnt + k
        /\ UNCHANGED <<sym, cntUnresolved>> /\ pc' = "rec"
    BY <1>2 DEF TextRecPass1, Reading, NextRec
  <2>5. /\ new \in [1..MaxPsects -> PsectEntry] /\ i \in 1..(nextPsect + k)
        /\ nextPsect + k \in 1..MaxPsects
    BY <2>2, <2>3, EnteredType DEF Mentioned
  <2>6. Extends(new, nextPsect + k)
    BY <2>2, <2>3, EnteredExtends DEF Mentioned
  <2> HIDE DEF k, i, new, end
  <2>7. nextPsect \in Nat /\ MaxPsects \in Nat
    BY Typed
  <2>8. \A j \in 1..(nextPsect + k) : /\ psectInfo'[j].name = new[j].name
                                      /\ psectInfo'[j].kind = new[j].kind
                                      /\ psectInfo'[j].glob = new[j].glob
    <3> SUFFICES ASSUME NEW j \in 1..(nextPsect + k)
                 PROVE /\ psectInfo'[j].name = new[j].name
                       /\ psectInfo'[j].kind = new[j].kind
                       /\ psectInfo'[j].glob = new[j].glob
      OBVIOUS
    <3>1. j \in 1..MaxPsects
      BY <2>3, <2>5, <2>7
    <3>2. new[j] \in PsectEntry
      BY <2>5, <3>1
    <3> QED BY <2>4, <2>5, <3>1, <3>2 DEF Grown, PsectEntry
  <2>9. Extends(psectInfo', nextPsect + k)
    <3>1. /\ \A j \in 1..nextPsect : j \in 1..(nextPsect + k)
          /\ \A j \in (nextPsect + 1)..(nextPsect + k) : j \in 1..(nextPsect + k)
      BY <2>3, <2>7
    <3> QED BY <2>6, <2>8, <3>1 DEF Extends
  <2>10. newSymCnt' = newSymCnt + k + 0
         /\ Cardinality(KnownSyms)' = Cardinality(KnownSyms) + 0
    BY <2>3, <2>4, NatCounts, SymsSame
  <2> QED BY <1>2, <2>3, <2>4, <2>9, <2>10, SymsSame, HandlerInv
<1> QED BY <1>1, <1>2
\* the entry of a class has the name of none of the psects
LEMMA ClassExtends ==
  ASSUME TypeOK, NEW table \in [1..MaxPsects -> PsectEntry], NEW n \in Nat, NEW name \in AllNames,
         Extends(table, nextPsect + n), nextPsect + n + 1 <= MaxPsects
  PROVE  Extends([table EXCEPT ![nextPsect + n + 1] = NewPsect(name, "CLASS", TRUE, FALSE, FALSE)],
                 nextPsect + n + 1)
<1> DEFINE c == nextPsect + n + 1
           q == NewPsect(name, "CLASS", TRUE, FALSE, FALSE)
           new == [table EXCEPT ![c] = q]
<1>1. nextPsect \in Nat /\ MaxPsects \in Nat /\ c \in 1..MaxPsects
  BY Typed
<1>2. q.kind = "CLASS"
  BY DEF NewPsect
<1> HIDE DEF q
<1>3. \A j \in 1..c : new[j] = IF j = c THEN q ELSE table[j]
  <2> SUFFICES ASSUME NEW j \in 1..c PROVE new[j] = IF j = c THEN q ELSE table[j]
    OBVIOUS
  <2>1. j \in 1..MaxPsects
    BY <1>1
  <2> QED BY <2>1
<1>4. \A j \in 1..nextPsect : j \in 1..c /\ j # c
  BY <1>1
<1>5. \A j \in (nextPsect + 1)..c : j \in 1..c /\ (j # c => j \in (nextPsect + 1)..(nextPsect + n))
  BY <1>1
<1> HIDE DEF new
<1>6. \A i \in 1..nextPsect : /\ new[i].name = psectInfo[i].name
                              /\ new[i].kind = psectInfo[i].kind
                              /\ psectInfo[i].glob => new[i].glob
  BY <1>3, <1>4 DEF Extends
<1>7. \A i \in (nextPsect + 1)..c : new[i].kind = "PSECT" => new[i].name \in PsectNames
  BY <1>2, <1>3, <1>5 DEF Extends
<1>8. Extends(new, c)
  BY <1>6, <1>7 DEF Extends
<1> QED BY <1>8 DEF new, q

LEMMA XpsectRecCounts ==
  ASSUME TypeOK, Positions, CInv, XpsectRec PROVE CInv'
<1> DEFINE n == Missing(Rec.psect, "PSECT")
           i == SlotAfter(Rec.psect, "PSECT")
           c == IF Slot(Rec.cls, "CLASS") = 0 THEN nextPsect + n + 1 ELSE Slot(Rec.cls, "CLASS")
           k == IF Rec.cls = NoName THEN 0 ELSE Missing(Rec.cls, "CLASS")
           withPsect == Mentioned(Rec.psect)
           withClass == IF k = 1
                        THEN [withPsect EXCEPT ![c] = NewPsect(Rec.cls, "CLASS", TRUE, FALSE, FALSE)]
                        ELSE withPsect
<1>1. CASE ~Room(n + k, 0)
  BY <1>1, FatalCounts DEF XpsectRec
<1>2. CASE Room(n + k, 0)
  <2>1. Rec \in Record /\ Rec.t = "XPSECT"
    BY ReadingRec DEF XpsectRec, Reading
  <2>2. /\ Rec.psect \in PsectNames /\ Rec.psect \in AllNames /\ Rec.cls \in ClassNames \cup {NoName}
        /\ Rec.max \in Nat /\ Rec.align \in Nat
    BY <2>1, RecordFields DEF AllNames
  <2>3. n \in {0, 1} /\ k \in {0, 1} /\ nextPsect \in Nat /\ MaxPsects \in Nat
    BY Typed DEF Missing
  <2>4. nextPsect + (n + k) <= MaxPsects
    BY <1>2, <2>3, RoomType
  <2>5. nextPsect + n <= MaxPsects
    <3> HIDE DEF n, k
    <3> QED BY <2>3, <2>4
  <2>6. /\ withPsect \in [1..MaxPsects -> PsectEntry] /\ i \in 1..(nextPsect + n)
        /\ Extends(withPsect, nextPsect + n)
    BY <2>2, <2>5, EnteredType, EnteredExtends DEF Mentioned
  <2>7. Extends(withClass, nextPsect + n + k) /\ withClass \in [1..MaxPsects -> PsectEntry]
    <3>1. CASE k = 1
      <4>1. Rec.cls \in AllNames /\ c = nextPsect + n + 1
        BY <2>2, <3>1 DEF AllNames, Missing
      <4>2. NewPsect(Rec.cls, "CLASS", TRUE, FALSE, FALSE) \in PsectEntry
        BY <4>1, NewEntry DEF TypeOK
      <4> HIDE DEF n, k, c, withPsect
      <4>3. nextPsect + n + 1 <= MaxPsects
        BY <2>3, <2>4, <3>1
      <4> DEFINE tab == [withPsect EXCEPT ![nextPsect + n + 1]
                                             = NewPsect(Rec.cls, "CLASS", TRUE, FALSE, FALSE)]
      <4>4. Extends(tab, nextPsect + n + 1)
        BY <2>3, <2>6, <4>1, <4>3, ClassExtends
      <4>5. tab \in [1..MaxPsects -> PsectEntry]
        BY <2>6, <4>2
      <4>6. withClass = tab /\ nextPsect + n + k = nextPsect + n + 1
        BY <3>1, <4>1
      <4> HIDE DEF tab, withClass
      <4> QED BY <4>4, <4>5, <4>6
    <3>2. CASE k = 0
      <4>1. nextPsect + n + k = nextPsect + n
        <5> HIDE DEF n, k
        <5> QED BY <2>3, <3>2
      <4>2. withClass = withPsect
        BY <3>2
      <4> HIDE DEF n, k, withClass, withPsect
      <4> QED BY <2>6, <4>1, <4>2
    <3> HIDE DEF n, k, withClass
    <3> QED BY <2>3, <3>1, <3>2
  <2>8. /\ psectInfo' = [withClass EXCEPT
             ![i].cls = IF Rec.cls # NoName /\ @ = 0 THEN c ELSE @,
             ![i].max = IF Rec.max # 0 /\ (@ = 0 \/ Rec.max < @) THEN Rec.max ELSE @,
             ![i].align = IF Rec.align # 0 /\ (@ = 0 \/ Rec.align < @) THEN Rec.align ELSE @]
        /\ nextPsect' = nextPsect + n + k /\ newSymCnt' = newSymCnt + n + k
        /\ UNCHANGED <<sym, cntUnresolved>> /\ pc' = "rec"
    BY <1>2 DEF XpsectRec, Reading, NextRec
  <2> HIDE DEF n, i, c, k, withClass
  <2>9. \A j \in 1..MaxPsects : /\ psectInfo'[j].name = withClass[j].name
                                /\ psectInfo'[j].kind = withClass[j].kind
                                /\ psectInfo'[j].glob = withClass[j].glob
    BY <2>7, <2>8 DEF PsectEntry
  <2>10. Extends(psectInfo', nextPsect + n + k)
    <3>1. /\ \A j \in 1..nextPsect : j \in 1..MaxPsects
          /\ \A j \in (nextPsect + 1)..(nextPsect + n + k) : j \in 1..MaxPsects
      BY <2>3, <2>4
    <3> QED BY <2>7, <2>9, <3>1 DEF Extends
  <2> DEFINE all == n + k
  <2>11. all \in Nat /\ nextPsect + n + k = nextPsect + all /\ newSymCnt + n + k = newSymCnt + all + 0
    BY <2>3, NatCounts
  <2>12. Cardinality(KnownSyms)' = Cardinality(KnownSyms) + 0
    BY <2>8, NatCounts, SymsSame
  <2>13. Room(all, 0)
    BY <1>2
  <2> HIDE DEF all
  <2> QED BY <2>8, <2>10, <2>11, <2>12, <2>13, SymsSame, HandlerInv
<1> QED BY <1>1, <1>2

-----------------------------------------------------------------------------
(* Handlers that enter and define symbols *)

\* psectInfo is left alone
LEMMA SameExtends ==
  ASSUME TypeOK, NEW table, table = psectInfo
  PROVE  Extends(table, nextPsect + 0)
<1>1. (nextPsect + 1)..(nextPsect + 0) = {}
  BY Typed
<1> QED BY <1>1 DEF Extends

LEMMA MentionCounts ==
  ASSUME TypeOK, Positions, CInv, NEW s \in Syms, pc = "rec", Mention(s)
  PROVE  CInv'
<1>1. CASE ~Room(0, NewSym(s))
  BY <1>1, FatalCounts DEF Mention
<1>2. CASE Room(0, NewSym(s))
  <2>1. /\ sym' = IF Known(s) THEN sym ELSE [sym EXCEPT ![s] = Unresolved]
        /\ newSymCnt' = newSymCnt + NewSym(s)
        /\ cntUnresolved' = cntUnresolved + NewSym(s)
        /\ UNCHANGED <<psectInfo, nextPsect>> /\ pc' = "rec"
    BY <1>2 DEF Mention, NextRec
  <2>2. IsFiniteSet(KnownSyms) /\ IsFiniteSet(Externs)
    BY ExternsFinite
  <2>3. /\ Cardinality(KnownSyms)' = Cardinality(KnownSyms) + NewSym(s)
        /\ Cardinality(Externs)' = Cardinality(Externs) + NewSym(s)
    <3>1. CASE Known(s)
      <4>1. KnownSyms' = KnownSyms /\ Externs' = Externs
        BY <2>1, <3>1 DEF KnownSyms, Known, Externs, Extern
      <4> QED BY <3>1, <4>1, NatCounts DEF NewSym
    <3>2. CASE ~Known(s)
      <4>1. sym' = [sym EXCEPT ![s] = Unresolved] /\ Unresolved.low = "EXTERN" /\ sym \in [Syms -> SymEntry]
        BY <2>1, <3>2, Typed DEF Unresolved
      <4>2. KnownSyms' = KnownSyms \cup {s} /\ Externs' = Externs \cup {s}
        BY <4>1 DEF KnownSyms, Known, Externs, Extern
      <4>3. s \notin KnownSyms /\ s \notin Externs
        BY <3>2 DEF KnownSyms, Known, Externs, Extern
      <4> QED BY <2>2, <3>2, <4>2, <4>3, FS_AddElement DEF NewSym
    <3> QED BY <3>1, <3>2
  <2>4. cntUnresolved' = Cardinality(Externs)'
    BY <2>1, <2>3 DEF CInv, TableCounts
  <2>5. /\ nextPsect' = nextPsect + 0 /\ newSymCnt' = newSymCnt + 0 + NewSym(s)
        /\ NewSym(s) \in Nat /\ Extends(psectInfo', nextPsect + 0)
    BY <2>1, NatCounts, SameExtends DEF NewSym
  <2> QED BY <1>2, <2>1, <2>3, <2>4, <2>5, HandlerInv
<1> QED BY <1>1, <1>2

LEMMA MentionsCounts ==
  ASSUME TypeOK, Positions, CInv, RelocRecPass1 \/ SymExternPass1 PROVE CInv'
<1>1. Rec \in Record /\ pc = "rec" /\ Rec.t \in {"RELOC", "SYM"}
      /\ (RelocRecPass1 => Rec.t = "RELOC") /\ (SymExternPass1 => Rec.t = "SYM")
  BY ReadingRec DEF RelocRecPass1, SymExternPass1, Reading
<1>2. CASE SymExternPass1
  <2>1. Rec.name \in Syms
    BY <1>1, <1>2, RecordFields
  <2> QED BY <1>1, <1>2, <2>1, MentionCounts DEF SymExternPass1
<1>3. CASE RelocRecPass1 /\ Rec.kind \in {"RNAME", "RRNAME"}
  <2>1. Rec.name \in Syms
    BY <1>1, <1>3, RecordFields
  <2> QED BY <1>1, <1>3, <2>1, MentionCounts DEF RelocRecPass1
<1>4. CASE RelocRecPass1 /\ Rec.kind \notin {"RNAME", "RRNAME"}
  BY <1>1, <1>4, UntouchedInv DEF RelocRecPass1, NextRec
<1> QED BY <1>2, <1>3, <1>4

\* defineSym: the symbol is known and no longer external
LEMMA DefineSymCounts ==
  ASSUME TypeOK, CInv, NEW s \in Syms, NEW low \in {"NULL", "COMM"}, NEW val \in Nat,
         NEW psect \in Nat, NEW off \in Nat, DefineSym(s, low, val, psect, off)
  PROVE  /\ Cardinality(KnownSyms)' = Cardinality(KnownSyms) + NewSym(s)
         /\ cntUnresolved' = Cardinality(Externs)'
<1> DEFINE d == Defined(s, low, val, psect, off)
<1>1. sym[s] \in SymEntry
  BY Typed
<1>2. d.low \notin {"none", "EXTERN"}
  <2>1. CASE sym[s].low \in {"none", "EXTERN"}
    <3>1. d = [low |-> low, value |-> val + off, psect |-> psect]
      BY <2>1 DEF Defined
    <3> QED BY <3>1
  <2>2. CASE sym[s].low = "COMM" /\ low = "COMM" /\ sym[s].value < val
    <3>1. d = [sym[s] EXCEPT !.value = val]
      BY <2>2 DEF Defined
    <3> QED BY <1>1, <2>2, <3>1 DEF SymEntry
  <2>3. CASE ~(sym[s].low \in {"none", "EXTERN"})
             /\ ~(sym[s].low = "COMM" /\ low = "COMM" /\ sym[s].value < val)
    <3>1. d = sym[s]
      BY <2>3 DEF Defined
    <3> QED BY <2>3, <3>1
  <2> QED BY <2>1, <2>2, <2>3
<1>3. sym' = [sym EXCEPT ![s] = d] /\ sym \in [Syms -> SymEntry]
  BY Typed DEF DefineSym
<1> HIDE DEF d
<1>4. KnownSyms' = KnownSyms \cup {s} /\ Externs' = Externs \ {s}
  BY <1>2, <1>3 DEF KnownSyms, Known, Externs, Extern
<1>5. (s \in KnownSyms <=> Known(s)) /\ (s \in Externs <=> Extern(s))
  BY DEF KnownSyms, Externs
<1>6. IsFiniteSet(KnownSyms) /\ IsFiniteSet(Externs)
  BY ExternsFinite
<1>7. Cardinality(KnownSyms)' = Cardinality(KnownSyms) + NewSym(s)
  <2>1. Cardinality(KnownSyms \cup {s}) = IF s \in KnownSyms THEN Cardinality(KnownSyms)
                                           ELSE Cardinality(KnownSyms) + 1
    BY <1>6, FS_AddElement
  <2>2. Cardinality(KnownSyms)' = Cardinality(KnownSyms \cup {s})
    BY <1>4
  <2>3. CASE Known(s)
    BY <1>5, <2>1, <2>2, <2>3, NatCounts DEF NewSym
  <2>4. CASE ~Known(s)
    BY <1>5, <2>1, <2>2, <2>4 DEF NewSym
  <2> QED BY <2>3, <2>4
<1>8. Cardinality(Externs)' = IF Extern(s) THEN Cardinality(Externs) - 1 ELSE Cardinality(Externs)
  BY <1>4, <1>5, <1>6, FS_RemoveElement
<1> QED BY <1>7, <1>8 DEF DefineSym, CInv, TableCounts

LEMMA SymCommPass1Counts ==
  ASSUME TypeOK, Positions, CInv, SymCommPass1 PROVE CInv'
<1> DEFINE m == NewSym(Rec.name)
<1>1. CASE ~Room(0, m)
  BY <1>1, FatalCounts DEF SymCommPass1
<1>2. CASE Room(0, m)
  <2>1. Rec \in Record /\ Rec.t = "SYM" /\ Rec.low = "COMM"
    BY ReadingRec DEF SymCommPass1, Reading
  <2>2. Rec.name \in Syms /\ Rec.val \in Nat
    BY <2>1, RecordFields
  <2>3. /\ DefineSym(Rec.name, "COMM", Rec.val, 0, 0)
        /\ newSymCnt' = newSymCnt + m /\ UNCHANGED <<psectInfo, nextPsect>> /\ pc' = "rec"
    BY <1>2 DEF SymCommPass1, Reading, NextRec
  <2>4. /\ Cardinality(KnownSyms)' = Cardinality(KnownSyms) + m
        /\ cntUnresolved' = Cardinality(Externs)'
    BY <2>2, <2>3, DefineSymCounts
  <2>5. /\ m \in Nat /\ nextPsect' = nextPsect + 0 /\ newSymCnt' = newSymCnt + 0 + m
        /\ Extends(psectInfo', nextPsect + 0)
    BY <2>3, NatCounts, SameExtends DEF NewSym
  <2> QED BY <1>2, <2>3, <2>4, <2>5, HandlerInv
<1> QED BY <1>1, <1>2

LEMMA SymNullPass1Counts ==
  ASSUME TypeOK, Positions, CInv, SymNullPass1 PROVE CInv'
<1> DEFINE k == Missing(Rec.psect, "PSECT")
           i == SlotAfter(Rec.psect, "PSECT")
           new == Mentioned(Rec.psect)
           m == IF Rec.glob THEN NewSym(Rec.name) ELSE 0
           off == IF new[i].ovr THEN 0 ELSE new[i].blk
<1>1. CASE ~Room(k, m)
  BY <1>1, FatalCounts DEF SymNullPass1
<1>2. CASE Room(k, m)
  <2>1. Rec \in Record /\ Rec.t = "SYM" /\ Rec.low = "NULL"
    BY ReadingRec DEF SymNullPass1, Reading
  <2>2. /\ Rec.psect \in PsectNames \cup {Abs} /\ Rec.psect \in AllNames /\ Rec.name \in Syms
        /\ Rec.glob \in BOOLEAN /\ Rec.val \in Nat
    BY <2>1, RecordFields DEF AllNames
  <2>3. k \in {0, 1} /\ m \in {0, 1}
    BY DEF Missing, NewSym
  <2>4. nextPsect + k <= MaxPsects
    <3> HIDE DEF k, m
    <3> QED BY <1>2, <2>3, RoomType
  <2>5. /\ new \in [1..MaxPsects -> PsectEntry] /\ i \in 1..(nextPsect + k)
        /\ Extends(new, nextPsect + k)
    BY <2>2, <2>4, EnteredType, EnteredExtends DEF Mentioned
  <2>6. /\ psectInfo' = new /\ nextPsect' = nextPsect + k /\ newSymCnt' = newSymCnt + k + m
        /\ pc' = "rec"
    BY <1>2 DEF SymNullPass1, Reading, NextRec
  <2>7. /\ Cardinality(KnownSyms)' = Cardinality(KnownSyms) + m
        /\ cntUnresolved' = Cardinality(Externs)'
    <3>1. CASE Rec.glob
      <4>1. DefineSym(Rec.name, "NULL", Rec.val, i, off)
        BY <1>2, <3>1 DEF SymNullPass1
      <4>2. i \in Nat /\ off \in Nat
        <5> HIDE DEF k, i, new
        <5>1. nextPsect \in Nat /\ MaxPsects \in Nat
          BY Typed
        <5>2. i \in 1..MaxPsects
          BY <2>3, <2>4, <2>5, <5>1
        <5>3. new[i] \in PsectEntry
          BY <2>5, <5>2
        <5> QED BY <5>2, <5>3 DEF PsectEntry
      <4>3. m = NewSym(Rec.name)
        BY <3>1
      <4> HIDE DEF i, off, m
      <4> QED BY <2>2, <4>1, <4>2, <4>3, DefineSymCounts
    <3>2. CASE ~Rec.glob
      <4>1. UNCHANGED <<sym, cntUnresolved>> /\ m = 0
        BY <1>2, <3>2 DEF SymNullPass1
      <4> QED BY <4>1, SymsSame, NatCounts
    <3> QED BY <3>1, <3>2
  <2> HIDE DEF k, m, new
  <2> QED BY <1>2, <2>3, <2>5, <2>6, <2>7, HandlerInv
<1> QED BY <1>1, <1>2

-----------------------------------------------------------------------------
(* Handlers that define the labels of a psect *)

\* the labels of an entry are symbols
LEMMA LabelsAreSyms ==
  ASSUME CInv, NEW i \in 1..nextPsect, nextPsect \in Nat, NEW p,
         p.name = psectInfo[i].name, p.kind = psectInfo[i].kind, p.kind \in {"PSECT", "CLASS"}
  PROVE  LabelsOf(i, p) \subseteq Syms
<1>1. CASE i = 1 \/ p.kind = "CLASS" \/ ~p.glob
  <2>1. LabelsOf(i, p) = {}
    BY <1>1 DEF LabelsOf
  <2> QED BY <2>1
<1>2. CASE i # 1 /\ p.kind # "CLASS" /\ p.glob
  <2>1. i \in 2..nextPsect /\ p.kind = "PSECT"
    BY <1>2
  <2>2. p.name \in PsectNames
    BY <2>1 DEF CInv, Entries, PsectNamed
  <2>3. LabelsOf(i, p) \subseteq {<<"L", p.name>>, <<"H", p.name>>, <<"B", p.name>>}
    BY DEF LabelsOf
  <2>4. /\ <<"L", p.name>> \in LabelSyms /\ <<"H", p.name>> \in LabelSyms
        /\ <<"B", p.name>> \in LabelSyms
    BY <2>2 DEF LabelSyms
  <2> QED BY <2>3, <2>4 DEF Syms
<1> QED BY <1>1, <1>2

LEMMA FinishPsectCounts ==
  ASSUME TypeOK, CInv, NEW i \in 1..nextPsect, NEW p \in PsectEntry,
         p.name = psectInfo[i].name, p.kind = psectInfo[i].kind, p.glob = psectInfo[i].glob,
         p.fileId = psectInfo[i].fileId, FinishPsect(i, p), LabelRoom(i, p)
  PROVE  CInv'
<1> DEFINE needed == Needed(i, p)
           fresh  == Fresh(i, p)
           old    == needed \ fresh
<1>1. nextPsect \in Nat /\ psectInfo \in [1..MaxPsects -> PsectEntry]
  BY Typed
<1>2. LabelsOf(i, p) \subseteq Syms
  <2>1. p.kind \in {"PSECT", "CLASS"}
    BY DEF PsectEntry
  <2> QED BY <1>1, <2>1, LabelsAreSyms
<1>3. needed \subseteq Syms /\ fresh \subseteq needed
  BY <1>2 DEF Needed, Fresh
<1>4. \A s \in needed : (s \in fresh <=> ~Known(s)) /\ sym[s].low \in {"none", "EXTERN"}
  BY DEF Needed, Fresh
<1>5. /\ \A s \in Syms : sym'[s].low = IF s \in needed THEN "NULL" ELSE sym[s].low
      /\ newSymCnt' = newSymCnt + Cardinality(fresh)
      /\ cntUnresolved' = cntUnresolved - Cardinality(old)
      /\ psectInfo' = [psectInfo EXCEPT ![i] = [p EXCEPT !.blk = 0]]
      /\ pc' = "place" /\ nextPsect' = nextPsect
  BY DEF FinishPsect
<1>6. newSymCnt + Cardinality(fresh) <= MaxSymbols
  BY DEF LabelRoom
<1>7. /\ IsFiniteSet(fresh) /\ Cardinality(fresh) \in Nat
      /\ IsFiniteSet(old) /\ Cardinality(old) \in Nat
  BY LabelsFinite
<1> HIDE DEF needed, fresh
<1>8. KnownSyms' = KnownSyms \cup fresh /\ KnownSyms \cap fresh = {}
  BY <1>3, <1>4, <1>5 DEF KnownSyms, Known
<1>9. Externs' = Externs \ old /\ old \subseteq Externs
  <2>1. \A s \in old : s \in Externs
    BY <1>3, <1>4 DEF Externs, Extern, Known
  <2>2. \A s \in fresh : s \notin Externs
    BY <1>3, <1>4 DEF Externs, Extern, Known
  <2>3. Externs' = Externs \ needed
    BY <1>5 DEF Externs, Extern
  <2> QED BY <1>3, <2>1, <2>2, <2>3
<1> HIDE DEF old
<1>10. Cardinality(KnownSyms)' = Cardinality(KnownSyms) + Cardinality(fresh)
  <2>1. Cardinality(KnownSyms \cup fresh)
          = Cardinality(KnownSyms) + Cardinality(fresh) - Cardinality(KnownSyms \cap fresh)
    BY <1>7, ExternsFinite, FS_Union
  <2>2. Cardinality(KnownSyms \cap fresh) = 0
    BY <1>8, FS_EmptySet
  <2> QED BY <1>7, <1>8, <2>1, <2>2, ExternsFinite
<1>11. Cardinality(Externs)' = Cardinality(Externs) - Cardinality(old)
  <2>1. Cardinality(Externs \ old) = Cardinality(Externs) - Cardinality(Externs \cap old)
    BY ExternsFinite, FS_Difference
  <2>2. Externs \cap old = old
    BY <1>9
  <2> QED BY <1>9, <2>1, <2>2
<1>12. TableCounts'
  BY <1>5, <1>6, <1>7, <1>10, <1>11, NatCounts DEF TableCounts, CInv
<1>13. SameNames
  <2> DEFINE q == [p EXCEPT !.blk = 0]
  <2>1. /\ q.name = p.name /\ q.kind = p.kind /\ q.glob = p.glob /\ q.fileId = p.fileId
        /\ psectInfo' = [psectInfo EXCEPT ![i] = q]
    BY <1>5 DEF PsectEntry
  <2> HIDE DEF q
  <2>2. \A j \in 1..nextPsect : psectInfo'[j] = IF j = i THEN q ELSE psectInfo[j]
    BY <2>1, Typed
  <2> QED BY <2>1, <2>2 DEF SameNames
<1>14. AbsFirst' /\ PsectNamed'
  <2>1. 1 \in 1..nextPsect /\ \A j \in 2..nextPsect : j \in 1..nextPsect
    BY Typed
  <2> QED BY <1>5, <1>13, <2>1 DEF CInv, Entries, AbsFirst, PsectNamed, SameNames
<1>15. StrayClass'
  BY <1>5 DEF StrayClass
<1> QED BY <1>12, <1>14, <1>15 DEF CInv, Entries

LEMMA PlacePsectCounts ==
  ASSUME TypeOK, Positions, CInv, PlacePsect PROVE CInv'
<1> DEFINE p == psectInfo[idx]
<1>1. CASE ~LabelRoom(idx, Final(p))
  BY <1>1, FatalCounts DEF PlacePsect
<1>2. CASE LabelRoom(idx, Final(p))
  <2>1. idx <= nextPsect /\ FinishPsect(idx, Final(p))
    BY <1>2 DEF PlacePsect
  <2>2. idx \in 1..nextPsect /\ p \in PsectEntry
    BY <2>1, Typed
  <2>3. /\ Final(p) \in PsectEntry /\ Final(p).name = p.name
        /\ Final(p).kind = p.kind /\ Final(p).glob = p.glob /\ Final(p).fileId = p.fileId
    <3> HIDE DEF p
    <3> QED BY <2>2, SetOriginType, SetOriginNames DEF Final
  <2> QED BY <1>2, <2>1, <2>2, <2>3, FinishPsectCounts
<1> QED BY <1>1, <1>2

LEMMA PlaceClassDoneCounts ==
  ASSUME TypeOK, Positions, CInv, PlaceClassDone PROVE CInv'
<1> DEFINE p == psectInfo[idx]
<1>1. FinishPsect(idx, p) /\ pc = "stray" /\ idx <= nextPsect
  BY DEF PlaceClassDone, Positions
<1>2. idx \in 1..nextPsect /\ p \in PsectEntry /\ p.kind = "CLASS"
  BY <1>1, Typed DEF CInv, Entries, StrayClass
<1>3. LabelRoom(idx, p)
  <2>1. Fresh(idx, p) = {}
    BY <1>2 DEF Fresh, Needed, LabelsOf
  <2>2. Cardinality(Fresh(idx, p)) = 0
    BY <2>1, FS_EmptySet
  <2> QED BY <2>2, NatCounts DEF LabelRoom, CInv, TableCounts
<1> QED BY <1>1, <1>2, <1>3, FinishPsectCounts

-----------------------------------------------------------------------------
LEMMA InitCounts == Init => CInv
<1> SUFFICES ASSUME Init PROVE CInv
  OBVIOUS
<1>1. job \in Job /\ job \in Jobs
  BY LinkAssumption DEF Init
<1>2. job.force \subseteq Syms
  BY <1>1 DEF Job, Syms
<1>3. /\ nextPsect = 1 /\ pc = "open"
      /\ newSymCnt = Cardinality(job.force) + 1 /\ cntUnresolved = Cardinality(job.force)
      /\ \A s \in Syms : sym[s].low = IF s \in job.force THEN "EXTERN" ELSE "none"
  BY DEF Init, Unresolved, NoSym
<1>4. KnownSyms = job.force /\ Externs = job.force
  BY <1>2, <1>3 DEF KnownSyms, Known, Externs, Extern
<1>5. Cardinality(job.force) \in Nat /\ Cardinality(job.force) < MaxSymbols
  BY <1>1, <1>4, ExternsFinite, LinkAssumption
<1>6. TableCounts
  BY <1>3, <1>4, <1>5, LinkAssumption DEF TableCounts
<1>7. AbsFirst
  BY LinkAssumption DEF Init, AbsFirst, AbsEntry, NewPsect
<1>8. PsectNamed /\ StrayClass
  BY <1>3 DEF PsectNamed, StrayClass
<1> QED BY <1>6, <1>7, <1>8 DEF CInv, Entries

LEMMA NextCounts ==
  ASSUME IInv, CInv, [Next]_vars PROVE CInv'
<1> USE DEF IInv
<1>1. CASE Untouching
  BY <1>1, UntouchingCounts
<1>2. CASE Pass1Rec
  <2>1. CASE IdentRec
    BY <2>1, UntouchingCounts DEF Untouching
  <2> QED BY <1>2, <2>1, PsectRecCounts, XpsectRecCounts, TextRecPass1Counts, MentionsCounts,
             SymCommPass1Counts, SymNullPass1Counts DEF Pass1Rec
<1>3. CASE TextRecPass2 \/ EndRec
  BY <1>3, TextRecPass2Counts, EndRecCounts
<1>4. CASE PlaceSpecPsect \/ PlaceClassMember \/ PlaceReloc \/ PlacePsect
  BY <1>4, PlaceSpecPsectCounts, PlaceClassMemberCounts, PlaceRelocCounts, PlacePsectCounts
<1>5. CASE PlaceClass \/ PlaceStray \/ PlaceClassDone \/ RelocateSymbols
  BY <1>5, PlaceClassCounts, PlaceStrayCounts, PlaceClassDoneCounts, RelocateSymbolsCounts
<1> QED BY <1>1, <1>2, <1>3, <1>4, <1>5
        DEF Next, Step, Exited, ReadStep, LayoutStep, Pass2Rec, Untouching

\* The counts kept by addSym and defineSym are those of the table: newSymCnt is
\* the number of its slots in use and never passes its size, and cntUnresolved is
\* the number of symbols still external, which decides whether the link fails
\* (link/sym.c addSym, defineSym, finPass1).
THEOREM CountsCorrect == Spec => []TableCounts
<1>1. Init => IInv /\ CInv
  BY InitInv, InitCounts
<1>2. IInv /\ CInv /\ [Next]_vars => (IInv /\ CInv)'
  BY NextInv, NextCounts
<1>3. IInv /\ CInv => TableCounts
  BY DEF CInv
<1> QED BY <1>1, <1>2, <1>3, PTL DEF Spec

-----------------------------------------------------------------------------
(***************************************************************************)
(* Pass 1 of module Link reads the modules that pass 0 read, in the same   *)
(* order, although only the bits of libTable are kept in between.          *)
(*                                                                         *)
(* The argument: both passes walk the same places, <<file, module>>, in    *)
(* the same order.  Pass 0 has picked exactly the chosen places behind its *)
(* cursor, pass 1 has reread those of them that are behind its own.        *)
(***************************************************************************)

Lost   == {"failed", "crash"}
Layout == {"spec", "class", "place", "stray"}

Places == Nat \X Nat
Before(x, y) == x[1] < y[1] \/ (x[1] = y[1] /\ x[2] < y[2])

\* the libraries among the first n files
Libs(n)   == {k \in 1..n : job.files[k].kind = "lib"}
LibNum(n) == Cardinality(Libs(n))

\* the place that is read next, or whose reading comes next
Cursor == CASE pc = "rec"  -> <<fileIdx, modIdx + 1>>
            [] pc = "scan" -> <<fileIdx, modIdx>>
            [] OTHER       -> <<fileIdx, 0>>

\* a module of an object file, or one whose bit is set
ModsAt(x) == job.files[x[1] + 1].mods
KindAt(x) == job.files[x[1] + 1].kind
Chosen(x) ==
  /\ x[1] < Len(job.files) /\ x[2] < Len(ModsAt(x))
  /\ KindAt(x) # "missing"
  /\ KindAt(x) = "lib" => <<LibNum(x[1]), x[2]>> \in libTable

Picked(x) == \E j \in 1..Len(loaded[0]) : loaded[0][j] = x

-----------------------------------------------------------------------------
(* The inductive invariant *)

Histories == loaded \in [{0, 1} -> Seq(Places)]

Whereabouts ==
  /\ pc \in Layout => pass = 0
  /\ pc = "done" => pass = 1
  /\ pc \in Layout \cup {"done"} => fileIdx = Len(job.files)
  /\ pc = "scan" => CurFile.kind = "lib"
  /\ pc = "rec" => CurFile.kind # "missing"

LibCount == libFileIdx = LibNum(fileIdx)

\* no bit is set for what pass 0 has not come to yet
BitsBehind ==
  pass = 0 /\ pc \notin Lost =>
    \A b \in libTable :
      \/ b[1] < libFileIdx
      \/ /\ pc \in {"scan", "rec"} /\ InLib
         /\ b[1] = libFileIdx /\ b[2] < Cursor[2]

InOrder == \A j, k \in 1..Len(loaded[0]) : j < k => Before(loaded[0][j], loaded[0][k])

\* the module being read is the one entered last
EnteredLast == pc = "rec" => /\ loaded[pass] # <<>>
                             /\ loaded[pass][Len(loaded[pass])] = <<fileIdx, modIdx>>

PickedBehind ==
  pass = 0 /\ pc \notin Lost =>
    /\ loaded[1] = <<>>
    /\ \A x \in Places : Picked(x) <=> Chosen(x) /\ Before(x, Cursor)

Rereading ==
  pass = 1 /\ pc \notin Lost =>
    /\ \A x \in Places : Picked(x) <=> Chosen(x)
    /\ Len(loaded[1]) <= Len(loaded[0])
    /\ \A j \in 1..Len(loaded[1]) : loaded[1][j] = loaded[0][j]
    /\ \A j \in 1..Len(loaded[0]) : j <= Len(loaded[1]) <=> Before(loaded[0][j], Cursor)

OInv == /\ Histories /\ Whereabouts /\ LibCount /\ BitsBehind
        /\ InOrder /\ EnteredLast /\ PickedBehind /\ Rereading

-----------------------------------------------------------------------------
(* Counting libraries *)

LEMMA LibNumType ==
  ASSUME NEW n \in Nat
  PROVE  IsFiniteSet(Libs(n)) /\ LibNum(n) \in Nat
<1>1. IsFiniteSet(1..n)
  BY FS_Interval
<1>2. Libs(n) \in SUBSET (1..n)
  BY DEF Libs
<1> QED BY <1>1, <1>2, FS_Subset, FS_CardinalityType DEF LibNum

LEMMA LibNumZero == LibNum(0) = 0
BY FS_EmptySet DEF LibNum, Libs

LEMMA LibNumNext ==
  ASSUME NEW n \in Nat
  PROVE  LibNum(n + 1) = IF job.files[n + 1].kind = "lib" THEN LibNum(n) + 1 ELSE LibNum(n)
<1>1. n + 1 \notin Libs(n) /\ IsFiniteSet(Libs(n))
  BY LibNumType DEF Libs
<1>2. CASE job.files[n + 1].kind = "lib"
  <2>1. Libs(n + 1) = Libs(n) \cup {n + 1}
    BY <1>2 DEF Libs
  <2> QED BY <1>1, <1>2, <2>1, FS_AddElement DEF LibNum
<1>3. CASE job.files[n + 1].kind # "lib"
  <2>1. Libs(n + 1) = Libs(n)
    BY <1>3 DEF Libs
  <2> QED BY <1>3, <2>1 DEF LibNum
<1> QED BY <1>2, <1>3

LEMMA LibNumGrows ==
  ASSUME NEW m \in Nat, NEW n \in Nat, m <= n
  PROVE  LibNum(m) <= LibNum(n)
<1>1. Libs(m) \in SUBSET Libs(n)
  BY DEF Libs
<1> QED BY <1>1, LibNumType, FS_Subset DEF LibNum

\* two libraries have different numbers
LEMMA LibNumApart ==
  ASSUME NEW m \in Nat, NEW n \in Nat, m < n, job.files[m + 1].kind = "lib"
  PROVE  LibNum(m) < LibNum(n)
<1>1. LibNum(m + 1) <= LibNum(n)
  BY LibNumGrows
<1>2. LibNum(m + 1) = LibNum(m) + 1
  BY LibNumNext
<1> QED BY <1>1, <1>2, LibNumType

-----------------------------------------------------------------------------
(* Steps that stay in the same module, or in finPass1 *)

posHist == <<job, pass, fileIdx, libFileIdx, modIdx, libTable, loaded>>

StaysPut ==
  /\ UNCHANGED posHist
  /\ \/ pc' \in Lost
     \/ pc' = pc
     \/ pc \in Layout /\ pc' \in Layout
     \/ pc = "open" /\ fileIdx = Len(job.files) /\ IF pass = 0 THEN pc' \in Layout ELSE pc' = "done"

LEMMA SamePlaces ==
  ASSUME UNCHANGED posHist
  PROVE  /\ \A x : (Chosen(x) <=> Chosen(x)') /\ (Picked(x) <=> Picked(x)')
         /\ LibNum(fileIdx)' = LibNum(fileIdx) /\ CurFile' = CurFile
BY DEF posHist, Chosen, Picked, KindAt, ModsAt, LibNum, Libs, CurFile

LEMMA StaysPutInv ==
  ASSUME TypeOK, OInv, StaysPut
  PROVE  OInv'
<1> USE DEF OInv, StaysPut, posHist
<1>1. \/ pc' \in Lost
      \/ pc' \notin Lost /\ pc \notin Lost /\ Cursor' = Cursor
         /\ (pc' \in {"scan", "rec"} => pc' = pc) /\ (pc \in {"scan", "rec"} => pc' = pc)
      \/ pc \in Lost /\ pc' \in Lost
  BY DEF Lost, Layout, Cursor
<1>2. Histories' /\ InOrder' /\ LibCount'
  BY SamePlaces DEF Histories, InOrder, LibCount
<1>3. Whereabouts'
  BY SamePlaces DEF Whereabouts, Layout, Lost, TypeOK
<1>4. EnteredLast'
  BY <1>1 DEF EnteredLast, Lost
<1>5. BitsBehind'
  BY <1>1, SamePlaces DEF BitsBehind, InLib
<1>6. PickedBehind'
  BY <1>1, SamePlaces DEF PickedBehind
<1>7. Rereading'
  BY <1>1, SamePlaces DEF Rereading
<1> QED BY <1>2, <1>3, <1>4, <1>5, <1>6, <1>7

-----------------------------------------------------------------------------
(* Steps that pass over places, or leave a module *)

LEMMA HistoryType ==
  ASSUME Histories
  PROVE  /\ loaded[0] \in Seq(Places) /\ Len(loaded[0]) \in Nat
         /\ loaded[1] \in Seq(Places) /\ Len(loaded[1]) \in Nat
         /\ \A j \in 1..Len(loaded[0]) : loaded[0][j] \in Places
BY DEF Histories

LEMMA PassesOver ==
  ASSUME OInv, UNCHANGED <<job, pass, libTable, loaded>>,
         pc \notin Lost, pc' \in {"open", "scan"},
         \A x \in Places : Chosen(x) => (Before(x, Cursor') <=> Before(x, Cursor)),
         LibCount', Whereabouts', BitsBehind'
  PROVE  OInv'
<1> USE DEF OInv
<1>1. \A x : (Chosen(x) <=> Chosen(x)') /\ (Picked(x) <=> Picked(x)')
  BY DEF Chosen, Picked, KindAt, ModsAt, LibNum, Libs
<1>2. Histories' /\ InOrder' /\ EnteredLast'
  BY DEF Histories, InOrder, EnteredLast
<1>3. PickedBehind'
  BY <1>1 DEF PickedBehind
<1>4. Rereading'
  <2> SUFFICES ASSUME pass = 1 PROVE Rereading'
    BY DEF Rereading
  <2>1. \A j \in 1..Len(loaded[0]) : loaded[0][j] \in Places /\ Chosen(loaded[0][j])
    BY HistoryType DEF Rereading, Picked
  <2> QED BY <1>1, <2>1 DEF Rereading
<1> QED BY <1>2, <1>3, <1>4

\* what the cursor is at
LEMMA AtCursor ==
  ASSUME TypeOK, Positions, pc \in {"scan", "rec"}
  PROVE  /\ fileIdx \in Nat /\ modIdx \in Nat /\ libFileIdx \in Nat
         /\ fileIdx < Len(job.files) /\ Len(job.files) \in Nat
         /\ job.files[fileIdx + 1] = CurFile
         /\ CurFile.mods \in Seq(Module) /\ Len(CurFile.mods) \in Nat
         /\ CurFile.kind \in {"obj", "lib", "missing"}
         /\ CurFile.kind = "obj" => Len(CurFile.mods) = 1
         /\ libTable \subseteq Nat \X Nat
<1>1. /\ fileIdx \in Nat /\ modIdx \in Nat /\ libFileIdx \in Nat
      /\ fileIdx < Len(job.files) /\ job.files \in Seq(File) /\ libTable \subseteq Nat \X Nat
  BY DEF TypeOK, Positions, Job
<1>2. CurFile \in File
  BY <1>1 DEF CurFile
<1> QED BY <1>1, <1>2, CurFileType DEF CurFile, File

LEMMA EndRecOrder ==
  ASSUME TypeOK, Positions, OInv, EndRec
  PROVE  OInv'
<1> USE DEF OInv, EndRec, histVars
<1>1. /\ fileIdx \in Nat /\ modIdx \in Nat /\ libFileIdx \in Nat /\ Len(CurFile.mods) \in Nat
      /\ modIdx < Len(CurFile.mods) /\ job.files[fileIdx + 1] = CurFile
      /\ CurFile.kind = "obj" => modIdx = 0
      /\ CurFile.kind \in {"obj", "lib"}
      /\ Cursor = <<fileIdx, modIdx + 1>>
      /\ libTable \subseteq Nat \X Nat
  <2>1. pc = "rec"
    OBVIOUS
  <2> HIDE DEF EndRec
  <2>2. modIdx < Len(CurFile.mods) /\ CurFile.kind # "missing" /\ Cursor = <<fileIdx, modIdx + 1>>
    BY <2>1 DEF Positions, Whereabouts, Cursor
  <2>3. /\ fileIdx \in Nat /\ modIdx \in Nat /\ libFileIdx \in Nat /\ Len(CurFile.mods) \in Nat
        /\ job.files[fileIdx + 1] = CurFile /\ libTable \subseteq Nat \X Nat
        /\ CurFile.kind \in {"obj", "lib", "missing"}
        /\ CurFile.kind = "obj" => Len(CurFile.mods) = 1
    BY <2>1, AtCursor
  <2>4. CurFile.kind = "obj" => modIdx = 0
    <3> SUFFICES ASSUME CurFile.kind = "obj" PROVE modIdx = 0
      OBVIOUS
    <3>1. modIdx \in Nat /\ modIdx < Len(CurFile.mods) /\ Len(CurFile.mods) = 1
      BY <2>2, <2>3
    <3> QED BY <3>1
  <2> QED BY <2>2, <2>3, <2>4
<1>2. CASE InLib
  <2>1. pc' = "scan" /\ Cursor' = Cursor /\ CurFile' = CurFile /\ CurFile.kind = "lib"
    BY <1>1, <1>2 DEF Cursor, CurFile, InLib
  <2>2. LibCount' /\ Whereabouts'
    BY <1>2, <2>1 DEF LibCount, LibNum, Libs, Whereabouts, Layout
  <2>3. BitsBehind'
    BY <2>1, <1>2 DEF BitsBehind, InLib, Lost
  <2> QED BY <2>1, <2>2, <2>3, PassesOver, <1>2 DEF Lost
<1>3. CASE ~InLib
  <2>1. pc' = "open" /\ Cursor' = <<fileIdx + 1, 0>> /\ CurFile.kind = "obj" /\ Cursor = <<fileIdx, 1>>
    BY <1>1, <1>3 DEF Cursor, InLib
  <2>2. LibCount'
    BY <1>1, <1>3, <2>1, LibNumNext DEF LibCount, LibNum, Libs, InLib
  <2>3. Whereabouts'
    BY <2>1 DEF Whereabouts, Layout
  <2>4. BitsBehind'
    BY <2>1, <1>3 DEF BitsBehind, InLib, Lost
  <2>5. \A x \in Places : Chosen(x) => (Before(x, Cursor') <=> Before(x, Cursor))
    <3> SUFFICES ASSUME NEW x \in Places, Chosen(x)
                 PROVE  Before(x, Cursor') <=> Before(x, Cursor)
      OBVIOUS
    <3>1. x[1] \in Nat /\ x[2] \in Nat
      BY DEF Places
    <3>2. x[1] = fileIdx => x[2] < 1
      BY <1>1, <2>1, AtCursor DEF Chosen, ModsAt
    <3> QED BY <1>1, <2>1, <3>1, <3>2 DEF Before
  <2> QED BY <2>1, <2>2, <2>3, <2>4, <2>5, PassesOver, <1>3 DEF Lost
<1> QED BY <1>2, <1>3

LEMMA CloseLibraryOrder ==
  ASSUME TypeOK, Positions, OInv, CloseLibrary
  PROVE  OInv'
<1> USE DEF CloseLibrary, histVars
<1>1. /\ fileIdx \in Nat /\ modIdx \in Nat /\ libFileIdx \in Nat /\ Len(CurFile.mods) \in Nat
      /\ job.files[fileIdx + 1] = CurFile
  BY AtCursor
<1>2. modIdx = Len(CurFile.mods) /\ CurFile.kind = "lib"
  BY DEF OInv, Whereabouts
<1>3. Cursor = <<fileIdx, modIdx>> /\ Cursor' = <<fileIdx + 1, 0>>
  BY DEF Cursor
<1>4. LibCount'
  BY <1>1, <1>2, LibNumNext DEF OInv, LibCount, LibNum, Libs
<1>5. Whereabouts'
  BY DEF Whereabouts, Layout
<1>6. BitsBehind'
  <2> SUFFICES ASSUME pass = 0, NEW b \in libTable PROVE b[1] < libFileIdx + 1
    BY DEF BitsBehind
  <2>1. b \in Nat \X Nat
    BY DEF TypeOK
  <2>2. b[1] < libFileIdx \/ b[1] = libFileIdx
    BY DEF OInv, BitsBehind, Lost
  <2> QED BY <1>1, <2>1, <2>2
<1>7. \A x \in Places : Chosen(x) => (Before(x, Cursor') <=> Before(x, Cursor))
  <2> SUFFICES ASSUME NEW x \in Places, Chosen(x)
               PROVE  Before(x, Cursor') <=> Before(x, Cursor)
    OBVIOUS
  <2>1. x[1] \in Nat /\ x[2] \in Nat
    BY DEF Places
  <2>2. CASE x[1] = fileIdx
    <3>1. x[2] < modIdx
      BY <1>1, <1>2, <2>2 DEF Chosen, ModsAt
    <3> QED BY <1>1, <1>3, <2>1, <2>2, <3>1 DEF Before
  <2>3. CASE x[1] # fileIdx
    BY <1>1, <1>3, <2>1, <2>3 DEF Before
  <2> QED BY <2>2, <2>3
<1> QED BY <1>4, <1>5, <1>6, <1>7, PassesOver DEF Lost

\* a module of a library that is left out
LeavesOut == /\ pc = "scan" /\ modIdx < Len(CurFile.mods)
             /\ <<libFileIdx, modIdx>> \notin libTable
             /\ modIdx' = modIdx + 1
             /\ UNCHANGED <<job, pc, pass, fileIdx, libFileIdx, libTable, loaded>>

LEMMA LeavesOutOrder ==
  ASSUME TypeOK, Positions, OInv, LeavesOut
  PROVE  OInv'
<1> USE DEF LeavesOut
<1>1. /\ fileIdx \in Nat /\ modIdx \in Nat /\ libFileIdx \in Nat
      /\ job.files[fileIdx + 1] = CurFile
  BY AtCursor
<1>2. CurFile.kind = "lib" /\ CurFile' = CurFile /\ libFileIdx = LibNum(fileIdx)
  BY DEF OInv, Whereabouts, CurFile, LibCount
<1>3. Cursor = <<fileIdx, modIdx>> /\ Cursor' = <<fileIdx, modIdx + 1>>
  BY DEF Cursor
<1>4. LibCount' /\ Whereabouts'
  BY <1>2 DEF OInv, LibCount, LibNum, Libs, Whereabouts, Layout
<1>5. BitsBehind'
  <2> SUFFICES ASSUME pass = 0, NEW b \in libTable
               PROVE  b[1] < libFileIdx \/ (b[1] = libFileIdx /\ b[2] < modIdx + 1)
    BY <1>2, <1>3 DEF BitsBehind, InLib
  <2>1. b \in Nat \X Nat
    BY DEF TypeOK
  <2>2. b[1] < libFileIdx \/ (b[1] = libFileIdx /\ b[2] < modIdx)
    BY <1>3 DEF OInv, BitsBehind, Lost
  <2> QED BY <1>1, <2>1, <2>2
<1>6. \A x \in Places : Chosen(x) => (Before(x, Cursor') <=> Before(x, Cursor))
  <2> SUFFICES ASSUME NEW x \in Places, Chosen(x)
               PROVE  Before(x, Cursor') <=> Before(x, Cursor)
    OBVIOUS
  <2>1. x[1] \in Nat /\ x[2] \in Nat
    BY DEF Places
  <2>2. ~(x[1] = fileIdx /\ x[2] = modIdx)
    BY <1>1, <1>2 DEF Chosen, KindAt
  <2> QED BY <1>1, <1>3, <2>1, <2>2 DEF Before
<1> QED BY <1>4, <1>5, <1>6, PassesOver DEF Lost

-----------------------------------------------------------------------------
(* Steps that start a module *)

\* the module at the cursor is started
Starts == /\ pc \in {"open", "scan"} /\ pc' = "rec"
          /\ fileIdx < Len(job.files) /\ CurFile.kind # "missing"
          /\ Cursor = <<fileIdx, modIdx'>> /\ modIdx' \in Nat
          /\ UNCHANGED <<job, pass, fileIdx, libFileIdx>>
          /\ loaded' = [loaded EXCEPT ![pass] = Append(@, <<fileIdx, modIdx'>>)]

LEMMA StartsHere ==
  ASSUME TypeOK, OInv, Starts
  PROVE  /\ Histories' /\ Whereabouts' /\ LibCount' /\ EnteredLast'
         /\ Cursor' = <<fileIdx, modIdx' + 1>> /\ CurFile' = CurFile
         /\ fileIdx \in Nat /\ Cursor \in Places
         /\ \A x \in Places : Before(x, Cursor') <=> Before(x, Cursor) \/ x = Cursor
         /\ pc \notin Lost /\ pc' \notin Lost
<1> USE DEF OInv, Starts
<1>1. fileIdx \in Nat /\ pass \in {0, 1} /\ <<fileIdx, modIdx'>> \in Places
  BY DEF TypeOK, Places
<1>2. Cursor' = <<fileIdx, modIdx' + 1>> /\ CurFile' = CurFile
  BY DEF Cursor, CurFile
<1>3. loaded[pass] \in Seq(Places)
  BY <1>1 DEF Histories
<1>4. Append(loaded[pass], <<fileIdx, modIdx'>>) \in Seq(Places)
  BY <1>1, <1>3
<1>5. Histories'
  BY <1>1, <1>4 DEF Histories
<1>6. EnteredLast'
  <2>1. loaded'[pass] = Append(loaded[pass], <<fileIdx, modIdx'>>)
    BY <1>1 DEF Histories
  <2>2. Len(loaded[pass]) \in Nat
    BY <1>3
  <2>3. /\ Len(loaded'[pass]) = Len(loaded[pass]) + 1
        /\ loaded'[pass][Len(loaded[pass]) + 1] = <<fileIdx, modIdx'>>
    BY <1>3, <2>1, <2>2
  <2>4. loaded'[pass] # <<>>
    BY <2>2, <2>3
  <2> QED BY <2>3, <2>4 DEF EnteredLast
<1>7. Whereabouts' /\ LibCount'
  BY <1>2 DEF Whereabouts, Layout, LibCount, LibNum, Libs
<1>8. \A x \in Places : Before(x, Cursor') <=> Before(x, Cursor) \/ x = Cursor
  <2> SUFFICES ASSUME NEW x \in Places
               PROVE  Before(x, Cursor') <=> Before(x, Cursor) \/ x = Cursor
    OBVIOUS
  <2>1. x[1] \in Nat /\ x[2] \in Nat /\ (x = Cursor <=> x[1] = fileIdx /\ x[2] = modIdx')
    BY DEF Places
  <2> QED BY <1>1, <1>2, <2>1 DEF Before
<1> QED BY <1>1, <1>2, <1>5, <1>6, <1>7, <1>8 DEF Lost

LEMMA StartsInPass0 ==
  ASSUME TypeOK, OInv, Starts, pass = 0, BitsBehind',
         NEW c \in Places, c = Cursor, Chosen(c)',
         \A x \in Places : Before(x, Cursor) => (Chosen(x)' <=> Chosen(x))
  PROVE  OInv'
<1> DEFINE L == loaded[0]
<1>1. /\ L \in Seq(Places) /\ Len(L) \in Nat /\ loaded'[0] = Append(L, c) /\ loaded'[1] = loaded[1]
  BY StartsHere, HistoryType DEF OInv, Starts, Histories
<1>2. /\ Len(loaded'[0]) = Len(L) + 1 /\ loaded'[0][Len(L) + 1] = c
      /\ \A j \in 1..Len(L) : loaded'[0][j] = L[j]
  BY <1>1
<1>3. \A j \in 1..Len(L) : L[j] \in Places /\ Before(L[j], c)
  BY <1>1, HistoryType, StartsHere DEF OInv, PickedBehind, Picked
<1>4. InOrder'
  <2> SUFFICES ASSUME NEW j \in 1..(Len(L) + 1), NEW k \in 1..(Len(L) + 1), j < k
               PROVE  Before(loaded'[0][j], loaded'[0][k])
    BY <1>2 DEF InOrder
  <2>1. j \in 1..Len(L)
    BY <1>1
  <2>2. CASE k = Len(L) + 1
    BY <1>2, <1>3, <2>1, <2>2
  <2>3. CASE k # Len(L) + 1
    <3>1. k \in 1..Len(L)
      BY <1>1, <2>3
    <3> QED BY <1>2, <2>1, <3>1 DEF OInv, InOrder
  <2> QED BY <2>2, <2>3
<1>5. \A x : Picked(x)' <=> Picked(x) \/ x = c
  <2>1. \A x : Picked(x) => Picked(x)'
    BY <1>1, <1>2 DEF Picked
  <2>2. Picked(c)'
    BY <1>1, <1>2 DEF Picked
  <2>3. \A x : Picked(x)' => Picked(x) \/ x = c
    <3> SUFFICES ASSUME NEW x, NEW j \in 1..(Len(L) + 1), loaded'[0][j] = x
                 PROVE  Picked(x) \/ x = c
      BY <1>2 DEF Picked
    <3>1. j = Len(L) + 1 \/ j \in 1..Len(L)
      BY <1>1
    <3> QED BY <1>2, <3>1 DEF Picked
  <2> QED BY <2>1, <2>2, <2>3
<1>6. PickedBehind'
  <2> SUFFICES ASSUME NEW x \in Places
               PROVE  loaded'[1] = <<>> /\ (Picked(x)' <=> Chosen(x)' /\ Before(x, Cursor'))
    BY DEF PickedBehind
  <2>1. loaded'[1] = <<>> /\ (Picked(x) <=> Chosen(x) /\ Before(x, Cursor))
    BY <1>1, StartsHere DEF OInv, PickedBehind
  <2>2. Before(x, Cursor') <=> Before(x, Cursor) \/ x = Cursor
    BY StartsHere
  <2>3. CASE x = c
    BY <1>5, <2>1, <2>2, <2>3
  <2>4. CASE x # c
    BY <1>1, <1>5, <2>1, <2>2, <2>4
  <2> QED BY <2>3, <2>4
<1> QED BY <1>4, <1>6, StartsHere DEF OInv, Rereading, Starts

LEMMA StartsInPass1 ==
  ASSUME TypeOK, OInv, Starts, pass = 1, Chosen(Cursor), libTable' = libTable
  PROVE  OInv'
<1> DEFINE L == loaded[0]
           R == loaded[1]
<1>1. /\ L \in Seq(Places) /\ Len(L) \in Nat /\ R \in Seq(Places) /\ Len(R) \in Nat
      /\ loaded'[0] = L /\ loaded'[1] = Append(R, Cursor)
  BY HistoryType DEF OInv, Starts, Histories
<1>2. /\ Len(loaded'[1]) = Len(R) + 1 /\ loaded'[1][Len(R) + 1] = Cursor
      /\ \A j \in 1..Len(R) : loaded'[1][j] = R[j]
  BY <1>1, StartsHere
<1>3. /\ \A x \in Places : Picked(x) <=> Chosen(x)
      /\ Len(R) <= Len(L)
      /\ \A j \in 1..Len(R) : R[j] = L[j]
      /\ \A j \in 1..Len(L) : j <= Len(R) <=> Before(L[j], Cursor)
  BY StartsHere DEF OInv, Rereading
<1>4. PICK k \in 1..Len(L) : L[k] = Cursor
  BY <1>3, StartsHere DEF Picked
<1>5. \A x \in Places : ~Before(x, x)
  BY DEF Before, Places
<1>6. ~(k <= Len(R))
  BY <1>3, <1>4, <1>5, StartsHere
<1>7. k = Len(R) + 1
  <2> SUFFICES ASSUME k # Len(R) + 1 PROVE FALSE
    OBVIOUS
  <2>1. Len(R) + 1 < k /\ Len(R) + 1 \in 1..Len(L)
    BY <1>1, <1>4, <1>6
  <2>2. Before(L[Len(R) + 1], L[k])
    BY <2>1, <1>4 DEF OInv, InOrder
  <2>3. Len(R) + 1 <= Len(R)
    BY <1>3, <1>4, <2>1, <2>2
  <2> QED BY <1>1, <2>3
<1>8. \A x : (Chosen(x) <=> Chosen(x)') /\ (Picked(x) <=> Picked(x)')
  BY <1>1 DEF Starts, Chosen, Picked, KindAt, ModsAt, LibNum, Libs
<1>9. InOrder'
  BY <1>1 DEF OInv, InOrder
<1>10. \A j \in 1..Len(L) : j <= Len(R) + 1 <=> Before(L[j], Cursor')
  <2> SUFFICES ASSUME NEW j \in 1..Len(L)
               PROVE  j <= Len(R) + 1 <=> Before(L[j], Cursor')
    OBVIOUS
  <2>1. Before(L[j], Cursor') <=> Before(L[j], Cursor) \/ L[j] = Cursor
    BY <1>1, HistoryType, StartsHere DEF OInv
  <2>2. L[j] = Cursor => j = k
    <3> SUFFICES ASSUME L[j] = Cursor, j # k PROVE FALSE
      OBVIOUS
    <3>1. Before(L[j], L[k]) \/ Before(L[k], L[j])
      BY <1>1, <1>4 DEF OInv, InOrder
    <3> QED BY <1>4, <1>5, <3>1, StartsHere
  <2> QED BY <1>1, <1>3, <1>4, <1>7, <2>1, <2>2
<1>11. Rereading'
  <2>1. \A j \in 1..(Len(R) + 1) : loaded'[1][j] = L[j]
    <3> SUFFICES ASSUME NEW j \in 1..(Len(R) + 1) PROVE loaded'[1][j] = L[j]
      OBVIOUS
    <3>1. CASE j = k
      BY <1>2, <1>4, <1>7, <3>1
    <3>2. CASE j # k
      <4>1. j \in 1..Len(R)
        BY <1>1, <1>7, <3>2
      <4> QED BY <1>2, <1>3, <4>1
    <3> QED BY <3>1, <3>2
  <2>2. Len(R) + 1 <= Len(L)
    BY <1>1, <1>4, <1>7
  <2> QED BY <1>1, <1>2, <1>3, <1>8, <1>10, <2>1, <2>2 DEF Rereading
<1> QED BY <1>9, <1>11, StartsHere DEF OInv, BitsBehind, PickedBehind, Starts

-----------------------------------------------------------------------------
LEMMA OpenFileOrder ==
  ASSUME TypeOK, Positions, OInv, OpenFile
  PROVE  OInv'
<1> USE DEF histVars
<1>1. /\ fileIdx \in Nat /\ libFileIdx \in Nat /\ pass \in {0, 1}
      /\ pc = "open" /\ fileIdx < Len(job.files) /\ libTable \subseteq Nat \X Nat
      /\ Cursor = <<fileIdx, 0>> /\ CurFile = job.files[fileIdx + 1]
  BY DEF OpenFile, TypeOK, Cursor, CurFile
<1>2. CASE CurFile.kind = "missing" /\ Fatal
  BY <1>2, StaysPutInv DEF Fatal, StaysPut, posHist, Lost, histVars
<1>3. CASE /\ CurFile.kind = "lib" /\ pc' = "scan" /\ modIdx' = 0
           /\ libTable' = IF pass = 0 THEN {b \in libTable : b[1] # libFileIdx} ELSE libTable
           /\ UNCHANGED <<job, pass, fileIdx, libFileIdx, loaded>>
  <2>1. pass = 0 => \A b \in libTable : b[1] < libFileIdx
    BY <1>1 DEF OInv, BitsBehind, Lost
  <2>2. libTable' = libTable
    <3>1. pass = 0 => \A b \in libTable : b[1] # libFileIdx
      <4> SUFFICES ASSUME pass = 0, NEW b \in libTable PROVE b[1] # libFileIdx
        OBVIOUS
      <4>1. b[1] < libFileIdx /\ b[1] \in Nat
        BY <1>1, <2>1
      <4> QED BY <1>1, <4>1
    <3> QED BY <1>3, <3>1
  <2>3. Cursor' = Cursor /\ CurFile' = CurFile
    BY <1>1, <1>3 DEF Cursor, CurFile
  <2>4. LibCount' /\ Whereabouts'
    BY <1>3, <2>3 DEF OInv, LibCount, LibNum, Libs, Whereabouts, Layout
  <2>5. BitsBehind'
    BY <1>3, <2>1, <2>2 DEF BitsBehind
  <2> QED BY <1>1, <1>3, <2>2, <2>3, <2>4, <2>5, PassesOver DEF Lost
<1>4. CASE /\ CurFile.kind = "obj" /\ modIdx' = 0 /\ StartModule
           /\ UNCHANGED <<job, pass, fileIdx, libFileIdx, libTable>>
  <2>1. Starts
    BY <1>1, <1>4 DEF Starts, StartModule, Enter
  <2>2. Chosen(Cursor)
    <3>1. Len(CurFile.mods) = 1
      BY <1>1, <1>4, CurFileType
    <3> QED BY <1>1, <1>4, <3>1 DEF Chosen, KindAt, ModsAt
  <2>3. CASE pass = 1
    BY <1>4, <2>1, <2>2, <2>3, StartsInPass1
  <2>4. CASE pass = 0
    <3>1. BitsBehind'
      BY <1>1, <1>4, <2>4 DEF OInv, BitsBehind, Lost
    <3>2. \A x : Chosen(x)' <=> Chosen(x)
      BY <1>4 DEF Chosen, KindAt, ModsAt, LibNum, Libs
    <3>3. PICK c \in Places : c = Cursor
      BY <2>1, StartsHere
    <3> QED BY <2>1, <2>2, <2>4, <3>1, <3>2, <3>3, StartsInPass0
  <2> QED BY <1>1, <2>3, <2>4
<1> QED BY <1>2, <1>3, <1>4 DEF OpenFile

LEMMA ScanModuleOrder ==
  ASSUME TypeOK, Positions, OInv, ScanModule
  PROVE  OInv'
<1> USE DEF histVars
<1>1. /\ fileIdx \in Nat /\ modIdx \in Nat /\ libFileIdx \in Nat
      /\ fileIdx < Len(job.files) /\ job.files[fileIdx + 1] = CurFile
      /\ Cursor = <<fileIdx, modIdx>> /\ CurFile.kind = "lib"
      /\ modIdx < Len(CurFile.mods) /\ pc = "scan" /\ pass = 0
      /\ libFileIdx = LibNum(fileIdx)
  BY AtCursor DEF ScanModule, Cursor, OInv, Whereabouts, LibCount
<1>2. \A b \in libTable : /\ b \in Nat \X Nat
                          /\ b[1] < libFileIdx \/ (b[1] = libFileIdx /\ b[2] < modIdx)
  BY <1>1 DEF OInv, BitsBehind, Lost, TypeOK
<1>3. CASE ModuleNeeded(CurMod.dir)
  <2>1. /\ libTable' = libTable \cup {<<libFileIdx, modIdx>>} /\ modIdx' = modIdx
        /\ StartModule /\ UNCHANGED <<job, pass, fileIdx, libFileIdx>>
    BY <1>3 DEF ScanModule
  <2>2. Starts
    BY <1>1, <2>1 DEF Starts, StartModule, Enter
  <2>3. Cursor' = <<fileIdx, modIdx + 1>> /\ CurFile' = CurFile
    BY <2>1, <2>2, StartsHere
  <2>4. BitsBehind'
    <3> SUFFICES ASSUME NEW b \in libTable'
                 PROVE  b[1] < libFileIdx \/ (b[1] = libFileIdx /\ b[2] < modIdx + 1)
      BY <1>1, <2>1, <2>2, <2>3 DEF BitsBehind, InLib, Starts
    <3>1. CASE b \in libTable
      BY <1>1, <1>2, <3>1
    <3>2. CASE b = <<libFileIdx, modIdx>>
      BY <1>1, <3>2
    <3> QED BY <2>1, <3>1, <3>2
  <2>5. \A x \in Places : Before(x, Cursor) => (Chosen(x)' <=> Chosen(x))
    <3> SUFFICES ASSUME NEW x \in Places, Before(x, Cursor), KindAt(x) = "lib",
                        x[1] < Len(job.files)
                 PROVE  <<LibNum(x[1]), x[2]>> \in libTable'
                          <=> <<LibNum(x[1]), x[2]>> \in libTable
      BY <2>1 DEF Chosen, KindAt, ModsAt, LibNum, Libs
    <3>1. x[1] \in Nat /\ x[2] \in Nat
      BY DEF Places
    <3>2. <<LibNum(x[1]), x[2]>> # <<libFileIdx, modIdx>>
      <4>1. CASE x[1] < fileIdx
        <5>1. LibNum(x[1]) < libFileIdx
          BY <1>1, <3>1, <4>1, LibNumApart DEF KindAt
        <5> QED BY <1>1, <5>1, <3>1, LibNumType
      <4>2. CASE x[1] = fileIdx /\ x[2] < modIdx
        BY <1>1, <3>1, <4>2
      <4> QED BY <1>1, <4>1, <4>2 DEF Before
    <3> QED BY <2>1, <3>2
  <2>6. PICK c \in Places : c = Cursor
    BY <2>2, StartsHere
  <2>7. Chosen(c)'
    <3>1. c[1] = fileIdx /\ c[2] = modIdx
      BY <1>1, <2>6
    <3>2. <<LibNum(fileIdx), modIdx>> \in libTable'
      BY <1>1, <2>1
    <3> QED BY <1>1, <2>1, <3>1, <3>2 DEF Chosen, KindAt, ModsAt, LibNum, Libs
  <2> QED BY <1>1, <2>2, <2>4, <2>5, <2>6, <2>7, StartsInPass0
<1>4. CASE ~ModuleNeeded(CurMod.dir)
  <2>1. <<libFileIdx, modIdx>> \notin libTable
    <3> SUFFICES ASSUME <<libFileIdx, modIdx>> \in libTable PROVE FALSE
      OBVIOUS
    <3>1. libFileIdx < libFileIdx \/ modIdx < modIdx
      BY <1>2
    <3> QED BY <1>1, <3>1
  <2>2. LeavesOut
    BY <1>4, <2>1 DEF ScanModule, LeavesOut
  <2> QED BY <2>2, LeavesOutOrder
<1> QED BY <1>3, <1>4

LEMMA DoModuleOrder ==
  ASSUME TypeOK, Positions, OInv, DoModule
  PROVE  OInv'
<1> USE DEF histVars
<1>1. /\ fileIdx \in Nat /\ modIdx \in Nat
      /\ fileIdx < Len(job.files) /\ job.files[fileIdx + 1] = CurFile
      /\ Cursor = <<fileIdx, modIdx>> /\ CurFile.kind = "lib"
      /\ modIdx < Len(CurFile.mods) /\ pc = "scan" /\ pass = 1
      /\ libFileIdx = LibNum(fileIdx)
  BY AtCursor DEF DoModule, Cursor, OInv, Whereabouts, LibCount
<1>2. CASE <<libFileIdx, modIdx>> \in libTable
  <2>1. /\ libTable' = libTable /\ modIdx' = modIdx
        /\ StartModule /\ UNCHANGED <<job, pass, fileIdx, libFileIdx>>
    BY <1>2 DEF DoModule
  <2>2. Starts
    BY <1>1, <2>1 DEF Starts, StartModule, Enter
  <2>3. Chosen(Cursor)
    BY <1>1, <1>2 DEF Chosen, KindAt, ModsAt
  <2> QED BY <1>1, <2>1, <2>2, <2>3, StartsInPass1
<1>3. CASE <<libFileIdx, modIdx>> \notin libTable
  BY <1>3, LeavesOutOrder DEF DoModule, LeavesOut
<1> QED BY <1>2, <1>3

\* From finPass1 to pass 1, which starts at the first file again
LEMMA StartPass2Order ==
  ASSUME TypeOK, Positions, OInv, pc = "place", idx > nextPsect, StartPass2
  PROVE  OInv'
<1> USE DEF StartPass2, histVars
<1>1. /\ pass = 0 /\ fileIdx = Len(job.files) /\ Cursor = <<Len(job.files), 0>>
      /\ pc \notin Lost /\ Len(job.files) \in Nat
  BY DEF OInv, Whereabouts, Layout, Cursor, Lost, TypeOK, Job
<1>2. \A x : (Chosen(x) <=> Chosen(x)') /\ (Picked(x) <=> Picked(x)')
  BY DEF Chosen, Picked, KindAt, ModsAt, LibNum, Libs
<1>3. \A x \in Places : Chosen(x) => Before(x, Cursor)
  BY <1>1 DEF Chosen, Before
<1>4. pc' \in {"failed", "open"} /\ pass' = 1 /\ fileIdx' = 0 /\ libFileIdx' = 0
  OBVIOUS
<1>5. Histories' /\ InOrder' /\ EnteredLast' /\ BitsBehind' /\ PickedBehind'
  BY <1>4 DEF OInv, Histories, InOrder, EnteredLast, BitsBehind, PickedBehind
<1>6. LibCount' /\ Whereabouts'
  BY <1>4, LibNumZero DEF LibCount, LibNum, Libs, Whereabouts, Layout
<1>7. Rereading'
  <2> SUFFICES ASSUME pc' = "open" PROVE Rereading'
    BY <1>4 DEF Rereading, Lost
  <2>1. Cursor' = <<0, 0>>
    BY <1>4 DEF Cursor
  <2>2. loaded[1] = <<>> /\ Len(loaded[1]) = 0
    BY <1>1 DEF OInv, PickedBehind
  <2>3. \A x \in Places : Picked(x) <=> Chosen(x)
    BY <1>1, <1>3 DEF OInv, PickedBehind
  <2>4. \A x \in Places : ~Before(x, <<0, 0>>)
    BY DEF Places, Before
  <2>5. Len(loaded[0]) \in Nat /\ \A j \in 1..Len(loaded[0]) : loaded[0][j] \in Places
    BY HistoryType DEF OInv
  <2> QED BY <1>2, <2>1, <2>2, <2>3, <2>4, <2>5 DEF Rereading
<1> QED BY <1>5, <1>6, <1>7 DEF OInv

-----------------------------------------------------------------------------
(* All other steps stay put *)

Moves == \/ OpenFile \/ ScanModule \/ DoModule \/ CloseLibrary \/ EndRec
         \/ RelocateSymbols \/ KeepRelocatable

LEMMA HandlersStay ==
  ASSUME \/ Pass1Rec \/ Pass2Rec \/ NoEndRecord \/ SkipRec
  PROVE  StaysPut
<1> USE DEF StaysPut, posHist, histVars, posVars, NextRec, Fatal, Lost
<1>1. CASE IdentRec \/ PsectRec \/ TextRecPass1
  BY <1>1 DEF IdentRec, PsectRec, TextRecPass1
<1>2. CASE XpsectRec
  BY <1>2 DEF XpsectRec
<1>3. CASE RelocRecPass1 \/ SymExternPass1
  BY <1>3 DEF RelocRecPass1, SymExternPass1, Mention
<1>4. CASE SymCommPass1 \/ SymNullPass1
  BY <1>4 DEF SymCommPass1, SymNullPass1
<1>5. CASE TextRecPass2 \/ RelocRecPass2
  BY <1>5 DEF TextRecPass2, RelocRecPass2
<1>6. CASE SymRecPass2 \/ StartRecPass2
  BY <1>6 DEF SymRecPass2, StartRecPass2
<1>7. CASE NoEndRecord \/ SkipRec
  BY <1>7 DEF NoEndRecord, SkipRec
<1> QED BY <1>1, <1>2, <1>3, <1>4, <1>5, <1>6, <1>7 DEF Pass1Rec, Pass2Rec

LEMMA LayoutStays ==
  ASSUME OInv, LayoutStep, ~RelocateSymbols, ~KeepRelocatable
  PROVE  StaysPut
<1> USE DEF StaysPut, posHist, histVars, posVars, Fatal, Lost, Layout
<1>1. CASE FinPass1
  BY <1>1 DEF FinPass1
<1>2. CASE PlaceSpecPsect \/ PlaceSpecClass
  BY <1>2 DEF PlaceSpecPsect, PlaceSpecClass
<1>3. CASE PlaceClassMember \/ SkipClassMember
  BY <1>3 DEF PlaceClassMember, SkipClassMember
<1>4. CASE SpecUnknown \/ SpecDone \/ CommonCrash
  BY <1>4 DEF SpecUnknown, SpecDone, CommonCrash
<1>5. CASE PlaceReloc \/ PlaceClass \/ PlaceStray
  BY <1>5 DEF PlaceReloc, PlaceClass, PlaceStray
<1>6. CASE PlacePsect
  BY <1>6 DEF PlacePsect, FinishPsect
<1>7. CASE PlaceClassDone
  BY <1>7 DEF PlaceClassDone, FinishPsect
<1> QED BY <1>1, <1>2, <1>3, <1>4, <1>5, <1>6, <1>7 DEF LayoutStep

LEMMA NextOrder ==
  ASSUME IInv, OInv, [Next]_vars
  PROVE  OInv'
<1> USE DEF IInv
<1>1. CASE Moves
  BY <1>1, OpenFileOrder, ScanModuleOrder, DoModuleOrder, CloseLibraryOrder, EndRecOrder,
     StartPass2Order DEF Moves, RelocateSymbols, KeepRelocatable
<1>2. CASE Pass1Rec \/ Pass2Rec \/ NoEndRecord \/ SkipRec
  BY <1>2, HandlersStay, StaysPutInv
<1>3. CASE LayoutStep /\ ~RelocateSymbols /\ ~KeepRelocatable
  BY <1>3, LayoutStays, StaysPutInv
<1>4. CASE FinPass2 \/ UNCHANGED vars
  <2>1. StaysPut
    BY <1>4 DEF FinPass2, StaysPut, posHist, histVars, posVars, vars, Lost
  <2> QED BY <2>1, StaysPutInv
<1> QED BY <1>1, <1>2, <1>3, <1>4 DEF Next, Step, Exited, ReadStep, Moves

LEMMA InitOrder == Init => OInv
<1> SUFFICES ASSUME Init PROVE OInv
  OBVIOUS
<1>1. /\ pc = "open" /\ pass = 0 /\ fileIdx = 0 /\ libFileIdx = 0 /\ libTable = {}
      /\ loaded = [p \in {0, 1} |-> <<>>]
  BY DEF Init
<1>2. Cursor = <<0, 0>>
  BY <1>1 DEF Cursor
<1>3. Histories /\ InOrder /\ EnteredLast
  BY <1>1 DEF Histories, InOrder, EnteredLast
<1>4. LibCount /\ Whereabouts /\ BitsBehind
  BY <1>1, LibNumZero DEF LibCount, Whereabouts, BitsBehind, Layout
<1>5. \A x \in Places : ~Before(x, <<0, 0>>)
  BY DEF Places, Before
<1>6. PickedBehind /\ Rereading
  BY <1>1, <1>2, <1>5 DEF PickedBehind, Rereading, Picked
<1> QED BY <1>3, <1>4, <1>6 DEF OInv

\* The module that pass 1 reads is the one that pass 0 read at that point, and a
\* link that ends has read them all: the first part of PassesAgree.
SameModules ==
  /\ pass = 1 /\ pc = "rec" =>
       Current <= Len(loaded[0]) /\ loaded[1][Current] = loaded[0][Current]
  /\ pc = "done" => loaded[1] = loaded[0]

LEMMA RereadAll ==
  ASSUME TypeOK, OInv, pass = 1, pc \notin Lost, Cursor = <<Len(job.files), 0>>
  PROVE  loaded[1] = loaded[0]
<1>1. /\ loaded[0] \in Seq(Places) /\ Len(loaded[0]) \in Nat /\ Len(loaded[1]) \in Nat
      /\ loaded[1] \in Seq(Places)
      /\ \A j \in 1..Len(loaded[0]) : loaded[0][j] \in Places
  BY HistoryType DEF OInv
<1>2. /\ \A x \in Places : Picked(x) <=> Chosen(x)
      /\ Len(loaded[1]) <= Len(loaded[0])
      /\ \A j \in 1..Len(loaded[1]) : loaded[1][j] = loaded[0][j]
      /\ \A j \in 1..Len(loaded[0]) : j <= Len(loaded[1]) <=> Before(loaded[0][j], Cursor)
  BY DEF OInv, Rereading
<1>3. \A x \in Places : Chosen(x) => Before(x, Cursor)
  BY DEF Chosen, Before
<1>4. \A j \in 1..Len(loaded[0]) : j <= Len(loaded[1])
  BY <1>1, <1>2, <1>3 DEF Picked
<1>5. Len(loaded[1]) = Len(loaded[0])
  BY <1>1, <1>2, <1>4
<1> QED BY <1>1, <1>2, <1>5

LEMMA OrderImplies == TypeOK /\ OInv => SameModules
<1> SUFFICES ASSUME TypeOK, OInv PROVE SameModules
  OBVIOUS
<1>1. CASE pass = 1 /\ pc = "rec"
  <2>1. loaded[1] # <<>> /\ loaded[1] \in Seq(Places) /\ Len(loaded[1]) \in Nat
    BY <1>1, HistoryType DEF OInv, EnteredLast
  <2>2. Len(loaded[1]) # 0
    BY <2>1
  <2> QED BY <1>1, <2>1, <2>2 DEF OInv, Rereading, Lost, SameModules, Current
<1>2. CASE pc = "done"
  <2>1. Cursor = <<Len(job.files), 0>> /\ pass = 1
    BY <1>2 DEF OInv, Whereabouts, Cursor, Layout
  <2> QED BY <1>2, <2>1, RereadAll DEF SameModules, Lost
<1> QED BY <1>1, <1>2 DEF SameModules

\* Both passes read the same modules in the same order, whatever the libraries
\* hold and however often one is named (link/lib.c libTable, visitModules).
THEOREM ModulesReread == Spec => []SameModules
<1>1. Init => IInv /\ OInv
  BY InitInv, InitOrder
<1>2. IInv /\ OInv /\ [Next]_vars => (IInv /\ OInv)'
  BY NextInv, NextOrder
<1>3. IInv /\ OInv => SameModules
  BY OrderImplies DEF IInv
<1> QED BY <1>1, <1>2, <1>3, PTL DEF Spec
=============================================================================
