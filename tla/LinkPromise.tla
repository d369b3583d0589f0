---------------------------- MODULE LinkPromise ----------------------------
(***************************************************************************)
(* Proof that the linker of module Link keeps the promise of LinkAbs: each *)
(* of its steps is one of the abstract link, or changes nothing there.     *)
(*                                                                         *)
(* Three inductive invariants carry it: IInv (types and positions), CInv   *)
(* (the count of unresolved symbols that finPass1 tests is the number of   *)
(* symbols still open) and OInv (pass 1 rereads what pass 0 picked).       *)
(***************************************************************************)
EXTENDS LinkProofs

\* LinkAbs's status, and the symbols with a definition
Status == CASE pc = "done" -> "ok"
            [] pc \in {"failed", "crash"} -> "failed"
            [] pc \notin ExitPoints /\ pass = 0 -> "picking"
            [] pc \notin ExitPoints /\ pass = 1 -> "writing"
DefinedSyms == KnownSyms \ Externs

Running == pc \notin ExitPoints

LEMMA StatusOf ==
  ASSUME TypeOK
  PROVE  /\ Running => Status = IF pass = 0 THEN "picking" ELSE "writing"
         /\ pc = "done" => Status = "ok"
         /\ pc \in Lost => Status = "failed"
BY DEF TypeOK, Running, Status, ExitPoints, Lost

LEMMA StatusNext ==
  ASSUME TypeOK'
  PROVE  /\ Running' => Status' = IF pass' = 0 THEN "picking" ELSE "writing"
         /\ pc' = "done" => Status' = "ok"
         /\ pc' \in Lost => Status' = "failed"
BY DEF TypeOK, Running, Status, ExitPoints, Lost

\* LinkAbs's steps, in the terms of Link
AbsSame ==
  /\ job' = job /\ Externs' = Externs /\ DefinedSyms' = DefinedSyms
  /\ loaded'[0] = loaded[0] /\ loaded'[1] = loaded[1]

LEMMA Stutters ==
  ASSUME AbsSame, (errCnt' # 0) = (errCnt # 0), Status' = Status
  PROVE  UNCHANGED Abstract!vars
BY DEF AbsSame, Abstract!vars, Status, DefinedSyms

AbsNext == [Abstract!Next]_Abstract!vars

\* exit(1), or a crash
LEMMA Fails ==
  ASSUME TypeOK, TypeOK', Running, pc' \in Lost, AbsSame, errCnt' = errCnt
  PROVE  AbsNext
<1>1. Status \in {"picking", "writing"} /\ Status' = "failed"
  BY StatusOf, StatusNext
<1> QED BY <1>1 DEF AbsNext, Abstract!Next, Abstract!Fail, AbsSame, Status, DefinedSyms

\* no error is counted, and no symbol or module touched
LEMMA Quiet ==
  ASSUME TypeOK, TypeOK', Running, Running', pass' = pass, AbsSame, errCnt' = errCnt
  PROVE  AbsNext
<1>1. Status' = Status
  BY StatusOf, StatusNext
<1> QED BY <1>1, Stutters DEF AbsNext

\* errors may be counted, and in pass 0 symbols defined
LEMMA Defines ==
  ASSUME TypeOK, TypeOK', Running, Running', pass = 0, pass' = 0, job' = job,
         loaded' = loaded, errCnt <= errCnt', DefinedSyms \subseteq DefinedSyms',
         Externs' = Externs \ DefinedSyms'
  PROVE  AbsNext
<1>1. Status = "picking" /\ Status' = Status
  BY StatusOf, StatusNext
<1>2. errCnt # 0 => errCnt' # 0
  BY DEF TypeOK
<1>3. DefinedSyms' \subseteq Syms
  BY DEF DefinedSyms, KnownSyms
<1> QED BY <1>1, <1>2, <1>3 DEF AbsNext, Abstract!Next, Abstract!Define, Status, DefinedSyms

LEMMA Reports ==
  ASSUME TypeOK, TypeOK', Running, Running', pass' = pass, AbsSame, loaded' = loaded,
         errCnt <= errCnt'
  PROVE  AbsNext
<1>1. CASE pass = 0
  <2>1. Externs \cap DefinedSyms = {}
    BY DEF DefinedSyms
  <2> QED BY <1>1, <2>1, Defines DEF AbsSame
<1>2. CASE pass = 1
  <2>1. Status = "writing" /\ Status' = Status
    BY <1>2, StatusOf, StatusNext
  <2>2. CASE errCnt' = 0
    <3>1. errCnt = 0
      BY <2>2 DEF TypeOK
    <3> QED BY <2>1, <2>2, <3>1, Stutters DEF AbsNext
  <2>3. CASE errCnt' # 0
    BY <2>1, <2>3 DEF AbsNext, Abstract!Next, Abstract!Report, AbsSame, Status, DefinedSyms
  <2> QED BY <2>2, <2>3
<1> QED BY <1>1, <1>2 DEF TypeOK

\* a symbol becomes known without a definition
LEMMA Opens ==
  ASSUME TypeOK, TypeOK', Running, Running', pass = 0, pass' = 0, job' = job,
         loaded' = loaded, errCnt' = errCnt, NEW s \in Syms, ~Known(s),
         sym' = [sym EXCEPT ![s] = Unresolved]
  PROVE  AbsNext
<1>1. Status = "picking" /\ Status' = Status
  BY StatusOf, StatusNext
<1>2. sym \in [Syms -> SymEntry]
  BY DEF TypeOK
<1>3. \A r \in Syms : sym'[r].low = IF r = s THEN "EXTERN" ELSE sym[r].low
  BY <1>2 DEF Unresolved
<1>4. Externs' = Externs \cup {s} /\ KnownSyms' = KnownSyms \cup {s}
  BY <1>3 DEF Externs, Extern, KnownSyms, Known
<1>5. s \notin Externs \cup DefinedSyms
  BY DEF Externs, Extern, KnownSyms, Known, DefinedSyms
<1>6. DefinedSyms' = DefinedSyms
  BY <1>4, <1>5 DEF DefinedSyms, KnownSyms
<1>7. Abstract!Open(s)
  BY <1>1, <1>4, <1>5, <1>6 DEF Abstract!Open, Status, DefinedSyms
<1> QED BY <1>7 DEF AbsNext, Abstract!Next

\* the module at the cursor is started: picked in pass 0, written in pass 1
LEMMA StartsPicks ==
  ASSUME IInv, IInv', OInv, Starts, pass = 0, UNCHANGED <<sym, errCnt>>,
         modIdx' < Len(CurFile.mods),
         CurFile.kind = "lib" => CurFile.mods[modIdx' + 1].dir \cap Externs # {}
  PROVE  AbsNext
<1> USE DEF IInv
<1> DEFINE L == loaded[0]
<1>1. Running /\ Running' /\ pass' = 0
  BY DEF Starts, Running, ExitPoints
<1>2. Status = "picking" /\ Status' = Status
  BY <1>1, StatusOf, StatusNext
<1>3. /\ fileIdx \in Nat /\ modIdx' \in Nat /\ fileIdx < Len(job.files)
      /\ CurFile = job.files[fileIdx + 1] /\ Len(job.files) \in Nat /\ Len(CurFile.mods) \in Nat
      /\ Cursor = <<fileIdx, modIdx'>>
  <2>1. modIdx' \in Nat /\ fileIdx < Len(job.files) /\ Cursor = <<fileIdx, modIdx'>>
    BY DEF Starts
  <2>2. fileIdx \in Nat /\ Len(job.files) \in Nat
    BY DEF TypeOK, Job
  <2>3. Len(CurFile.mods) \in Nat
    BY <2>1, CurFileType
  <2> QED BY <2>1, <2>2, <2>3 DEF CurFile
<1>4. /\ loaded'[0] = Append(L, <<fileIdx, modIdx'>>) /\ loaded'[1] = loaded[1]
      /\ L \in Seq(Places) /\ Len(L) \in Nat
  BY HistoryType DEF OInv, Histories, Starts
<1>5. L # <<>> => Abstract!Follows(<<fileIdx, modIdx'>>, Abstract!LastOf(L))
  <2> SUFFICES ASSUME L # <<>> PROVE Abstract!Follows(<<fileIdx, modIdx'>>, L[Len(L)])
    BY DEF Abstract!LastOf
  <2>1. Len(L) \in 1..Len(L) /\ L[Len(L)] \in Places
    BY <1>4
  <2>2. Before(L[Len(L)], Cursor)
    BY <2>1, StartsHere DEF OInv, PickedBehind, Picked
  <2> QED BY <1>3, <2>1, <2>2 DEF Abstract!Follows, Before, Places
<1>6. Externs' = Externs /\ DefinedSyms' = DefinedSyms /\ job' = job
  BY DEF Externs, Extern, KnownSyms, Known, DefinedSyms, Starts
<1>7. fileIdx \in 0..(Len(job.files) - 1) /\ modIdx' \in 0..(Len(CurFile.mods) - 1)
  BY <1>3
<1>8. Abstract!Pick
  BY <1>2, <1>3, <1>4, <1>5, <1>6, <1>7 DEF Abstract!Pick, Status, DefinedSyms
<1> QED BY <1>8 DEF AbsNext, Abstract!Next

LEMMA StartsWrites ==
  ASSUME IInv, IInv', OInv, OInv', Starts, pass = 1, UNCHANGED <<sym, errCnt>>
  PROVE  AbsNext
<1> USE DEF IInv
<1>1. Running /\ Running' /\ pass' = 1
  BY DEF Starts, Running, ExitPoints
<1>2. Status = "writing" /\ Status' = Status
  BY <1>1, StatusOf, StatusNext
<1>3. /\ loaded'[0] = loaded[0] /\ loaded'[1] = Append(loaded[1], Cursor)
      /\ Len(loaded[0]) \in Nat /\ Len(loaded[1]) \in Nat /\ loaded[1] \in Seq(Places)
  BY HistoryType DEF OInv, Histories, Starts
<1>4. /\ Len(loaded'[1]) = Len(loaded[1]) + 1 /\ loaded'[1][Len(loaded[1]) + 1] = Cursor
  BY <1>3, StartsHere
<1>5. Len(loaded'[1]) <= Len(loaded'[0]) /\ \A j \in 1..Len(loaded'[1]) : loaded'[1][j] = loaded'[0][j]
  BY <1>1, StartsHere DEF OInv, Rereading
<1>6. Len(loaded[1]) < Len(loaded[0]) /\ Cursor = loaded[0][Len(loaded[1]) + 1]
  BY <1>3, <1>4, <1>5
<1>7. Externs' = Externs /\ DefinedSyms' = DefinedSyms /\ job' = job
  BY DEF Externs, Extern, KnownSyms, Known, DefinedSyms, Starts
<1>8. Abstract!Write
  BY <1>2, <1>3, <1>6, <1>7 DEF Abstract!Write, Status, DefinedSyms
<1> QED BY <1>8 DEF AbsNext, Abstract!Next

-----------------------------------------------------------------------------
(* The steps of reading *)

LEMMA SameTables ==
  ASSUME \A s \in Syms : sym'[s].low = sym[s].low
  PROVE  Externs' = Externs /\ DefinedSyms' = DefinedSyms
BY DEF Externs, Extern, KnownSyms, Known, DefinedSyms

LEMMA FatalFails ==
  ASSUME IInv, IInv', Fatal, Running
  PROVE  AbsNext
<1>1. AbsSame /\ errCnt' = errCnt /\ pc' \in Lost
  BY SameTables DEF AbsSame, Fatal, tabVars, histVars, Lost
<1> QED BY <1>1, Fails DEF IInv

LEMMA OpenFilePromise ==
  ASSUME IInv, IInv', OInv, OInv', OpenFile
  PROVE  AbsNext
<1>1. Running /\ pass \in {0, 1} /\ pc = "open" /\ fileIdx \in Nat /\ fileIdx < Len(job.files)
  BY DEF OpenFile, Running, ExitPoints, IInv, TypeOK
<1>2. CASE CurFile.kind = "missing" /\ Fatal
  BY <1>1, <1>2, FatalFails
<1>3. CASE /\ CurFile.kind = "lib" /\ pc' = "scan" /\ UNCHANGED <<job, pass, tabVars, errCnt, histVars>>
  <2>1. AbsSame /\ errCnt' = errCnt /\ pass' = pass /\ Running'
    BY <1>3, SameTables DEF AbsSame, tabVars, histVars, Running, ExitPoints
  <2> QED BY <1>1, <2>1, Quiet DEF IInv
<1>4. CASE /\ CurFile.kind = "obj" /\ modIdx' = 0 /\ StartModule
           /\ UNCHANGED <<job, pass, fileIdx, libFileIdx, tabVars, errCnt>>
  <2>1. Starts
    <3>1. Cursor = <<fileIdx, 0>>
      BY <1>1 DEF Cursor
    <3> QED BY <1>1, <1>4, <3>1 DEF Starts, StartModule, Enter
  <2>2. UNCHANGED <<sym, errCnt>>
    BY <1>4 DEF tabVars
  <2>3. modIdx' < Len(CurFile.mods) /\ CurFile.kind # "lib"
    <3>1. Len(CurFile.mods) = 1
      BY <1>1, <1>4, CurFileType DEF IInv
    <3> QED BY <1>4, <3>1
  <2> QED BY <1>1, <2>1, <2>2, <2>3, StartsPicks, StartsWrites
<1> QED BY <1>2, <1>3, <1>4 DEF OpenFile

LEMMA ScanModulePromise ==
  ASSUME IInv, IInv', OInv, ScanModule
  PROVE  AbsNext
<1>1. /\ Running /\ Running' /\ pass = 0 /\ pass' = pass /\ UNCHANGED <<sym, errCnt>>
      /\ Cursor = <<fileIdx, modIdx>> /\ CurFile.kind = "lib" /\ modIdx < Len(CurFile.mods)
      /\ modIdx \in Nat /\ fileIdx < Len(job.files)
  BY DEF ScanModule, Running, ExitPoints, StartModule, tabVars, Cursor, OInv, Whereabouts, IInv,
     Positions, TypeOK
<1>2. CASE ModuleNeeded(CurMod.dir)
  <2>1. Starts /\ modIdx' = modIdx
    BY <1>1, <1>2 DEF ScanModule, Starts, StartModule, Enter
  <2>2. CurFile.mods[modIdx' + 1].dir \cap Externs # {}
    <3>1. CurFile.mods \in Seq(Module)
      BY <1>1, CurFileType DEF IInv
    <3>2. CurMod \in Module
      BY <1>1, <3>1 DEF CurMod
    <3>3. CurMod.dir \subseteq Syms
      BY <3>2 DEF Module
    <3> QED BY <1>2, <2>1, <3>3 DEF ModuleNeeded, CurMod, Externs
  <2> QED BY <1>1, <2>1, <2>2, StartsPicks
<1>3. CASE ~ModuleNeeded(CurMod.dir)
  <2>1. AbsSame
    BY <1>1, <1>3, SameTables DEF AbsSame, ScanModule, histVars
  <2> QED BY <1>1, <2>1, Quiet DEF IInv
<1> QED BY <1>2, <1>3

LEMMA DoModulePromise ==
  ASSUME IInv, IInv', OInv, OInv', DoModule
  PROVE  AbsNext
<1>1. /\ Running /\ Running' /\ pass = 1 /\ pass' = pass /\ UNCHANGED <<sym, errCnt>>
      /\ Cursor = <<fileIdx, modIdx>> /\ CurFile.kind = "lib"
      /\ modIdx \in Nat /\ fileIdx < Len(job.files)
  BY DEF DoModule, Running, ExitPoints, StartModule, tabVars, Cursor, OInv, Whereabouts, IInv,
     Positions, TypeOK
<1>2. CASE <<libFileIdx, modIdx>> \in libTable
  <2>1. Starts
    BY <1>1, <1>2 DEF DoModule, Starts, StartModule, Enter
  <2> QED BY <1>1, <2>1, StartsWrites
<1>3. CASE <<libFileIdx, modIdx>> \notin libTable
  <2>1. AbsSame
    BY <1>1, <1>3, SameTables DEF AbsSame, DoModule, histVars
  <2> QED BY <1>1, <2>1, Quiet DEF IInv
<1> QED BY <1>2, <1>3

\* a record handler that goes on, and does not touch the symbols
LEMMA HandlerReports ==
  ASSUME IInv, IInv', pc = "rec", pc' = "rec", pass' = pass, job' = job, loaded' = loaded,
         sym' = sym, errCnt <= errCnt'
  PROVE  AbsNext
<1>1. Running /\ Running' /\ AbsSame
  BY SameTables DEF Running, ExitPoints, AbsSame
<1> QED BY <1>1, Reports DEF IInv

LEMMA MentionPromise ==
  ASSUME IInv, IInv', pc = "rec", pass = 0, NEW s \in Syms, Mention(s)
  PROVE  AbsNext
<1>1. Running
  BY DEF Running, ExitPoints
<1>2. CASE Fatal
  BY <1>1, <1>2, FatalFails
<1>3. CASE ~Fatal
  <2>1. /\ pc' = "rec" /\ UNCHANGED <<job, pass, errCnt, loaded>>
        /\ sym' = IF Known(s) THEN sym ELSE [sym EXCEPT ![s] = Unresolved]
    BY <1>3 DEF Mention, NextRec, histVars
  <2>2. CASE Known(s)
    <3>1. errCnt <= errCnt'
      BY <2>1 DEF IInv, TypeOK
    <3> QED BY <2>1, <2>2, <3>1, HandlerReports
  <2>3. CASE ~Known(s)
    BY <1>1, <2>1, <2>3, Opens DEF Running, ExitPoints, IInv
  <2> QED BY <2>2, <2>3
<1> QED BY <1>2, <1>3

LEMMA DefinePromise ==
  ASSUME IInv, IInv', pc = "rec", pass = 0, pc' = "rec", UNCHANGED <<job, pass, loaded>>,
         NEW s \in Syms, NEW low \in {"NULL", "COMM"}, NEW val, NEW psect, NEW off,
         DefineSym(s, low, val, psect, off)
  PROVE  AbsNext
<1>1. Running /\ Running' /\ errCnt <= errCnt'
  BY DEF Running, ExitPoints, DefineSym, IInv, TypeOK
<1>2. sym \in [Syms -> SymEntry]
  BY DEF IInv, TypeOK
<1>3. /\ \A r \in Syms : r # s => sym'[r].low = sym[r].low
      /\ sym'[s].low \notin {"none", "EXTERN"}
  BY <1>2 DEF DefineSym, Defined, SymEntry
<1>4. Externs' = Externs \ {s} /\ DefinedSyms' = DefinedSyms \cup {s}
  BY <1>3 DEF Externs, Extern, KnownSyms, Known, DefinedSyms
<1>5. Externs' = Externs \ DefinedSyms'
  BY <1>4 DEF DefinedSyms
<1> QED BY <1>1, <1>4, <1>5, Defines DEF IInv

\* Each handler, when it is not stopped by a full table or a bad record
LEMMA Pass1RecPromise ==
  ASSUME IInv, IInv', Pass1Rec
  PROVE  AbsNext
<1> USE DEF NextRec, histVars, tabVars
<1>1. pc = "rec" /\ pass = 0 /\ Running /\ Rec \in Record /\ errCnt \in Nat
  <2>1. pc = "rec" /\ pass = 0 /\ recIdx <= Len(CurMod.recs)
    BY DEF Pass1Rec, IdentRec, PsectRec, XpsectRec, TextRecPass1, RelocRecPass1, SymExternPass1,
           SymCommPass1, SymNullPass1, Reading
  <2> QED BY <2>1, ReadingRec DEF Running, ExitPoints, IInv, TypeOK
<1>2. CASE Fatal
  BY <1>1, <1>2, FatalFails
<1>3. CASE IdentRec /\ ~Fatal
  <2>1. pc' = "rec" /\ UNCHANGED <<job, pass, loaded, sym, errCnt>>
    BY <1>1, <1>3 DEF IdentRec
  <2> QED BY <1>1, <2>1, HandlerReports
<1>4. CASE PsectRec /\ ~Fatal
  <2>1. pc' = "rec" /\ UNCHANGED <<job, pass, loaded, sym>> /\ errCnt <= errCnt'
    BY <1>1, <1>4 DEF PsectRec
  <2> QED BY <1>1, <2>1, HandlerReports
<1>5. CASE XpsectRec /\ ~Fatal
  <2>1. pc' = "rec" /\ UNCHANGED <<job, pass, loaded, sym>>
    BY <1>1, <1>5 DEF XpsectRec
  <2>2. errCnt' = errCnt + 1 \/ errCnt' = errCnt
    BY <1>5, Zenon DEF XpsectRec
  <2>3. errCnt <= errCnt'
    BY <1>1, <2>2
  <2> QED BY <1>1, <2>1, <2>3, HandlerReports
<1>6. CASE TextRecPass1 /\ ~Fatal
  <2>1. pc' = "rec" /\ UNCHANGED <<job, pass, loaded, sym, errCnt>>
    BY <1>1, <1>6 DEF TextRecPass1
  <2> QED BY <1>1, <2>1, HandlerReports
<1>7. CASE RelocRecPass1 /\ ~Fatal
  <2>1. CASE Rec.kind \in {"RNAME", "RRNAME"}
    <3>1. Rec.name \in Syms /\ Mention(Rec.name)
      BY <1>1, <1>7, <2>1, RecordFields DEF RelocRecPass1, Reading
    <3> QED BY <1>1, <3>1, MentionPromise
  <2>2. CASE Rec.kind \notin {"RNAME", "RRNAME"}
    <3>1. pc' = "rec" /\ UNCHANGED <<job, pass, loaded, sym, errCnt>>
      BY <1>1, <1>7, <2>2 DEF RelocRecPass1
    <3> QED BY <1>1, <3>1, HandlerReports
  <2> QED BY <2>1, <2>2
<1>8. CASE SymExternPass1 /\ ~Fatal
  <2>1. Rec.name \in Syms /\ Mention(Rec.name)
    BY <1>1, <1>8, RecordFields DEF SymExternPass1, Reading
  <2> QED BY <1>1, <2>1, MentionPromise
<1>9. CASE SymCommPass1 /\ ~Fatal
  <2>1. /\ Rec.name \in Syms /\ pc' = "rec" /\ UNCHANGED <<job, pass, loaded>>
        /\ DefineSym(Rec.name, "COMM", Rec.val, 0, 0)
    BY <1>1, <1>9, RecordFields DEF SymCommPass1, Reading
  <2> QED BY <1>1, <2>1, DefinePromise
<1>10. CASE SymNullPass1 /\ ~Fatal
  <2> DEFINE i == SlotAfter(Rec.psect, "PSECT")
             new == Mentioned(Rec.psect)
             off == IF new[i].ovr THEN 0 ELSE new[i].blk
  <2>1. /\ Rec.name \in Syms /\ pc' = "rec" /\ UNCHANGED <<job, pass, loaded>>
        /\ IF Rec.glob THEN DefineSym(Rec.name, "NULL", Rec.val, i, off)
           ELSE UNCHANGED <<sym, cntUnresolved, errCnt>>
    BY <1>1, <1>10, RecordFields DEF SymNullPass1, Reading
  <2> HIDE DEF off, i
  <2>2. CASE Rec.glob
    BY <1>1, <2>1, <2>2, DefinePromise
  <2>3. CASE ~Rec.glob
    BY <1>1, <2>1, <2>3, HandlerReports
  <2> QED BY <2>2, <2>3
<1> QED BY <1>2, <1>3, <1>4, <1>5, <1>6, <1>7, <1>8, <1>9, <1>10 DEF Pass1Rec

LEMMA Pass2RecPromise ==
  ASSUME IInv, IInv', Pass2Rec
  PROVE  AbsNext
<1> USE DEF NextRec, histVars, tabVars
<1>1. pc = "rec" /\ pass = 1 /\ Running /\ errCnt \in Nat
  BY DEF Pass2Rec, TextRecPass2, RelocRecPass2, SymRecPass2, StartRecPass2, Reading, Running,
         ExitPoints, IInv, TypeOK
<1>2. CASE TextRecPass2
  <2>1. pc' = "rec" /\ UNCHANGED <<job, pass, loaded, sym, errCnt>>
    BY <1>1, <1>2 DEF TextRecPass2
  <2> QED BY <1>1, <2>1, HandlerReports
<1>3. CASE RelocRecPass2
  <2>1. CASE Fatal
    BY <1>1, <2>1, FatalFails
  <2>2. CASE pc' = "crash" /\ UNCHANGED <<job, pass, sym, errCnt, loaded>>
    BY <1>1, <2>2, Fails, SameTables DEF AbsSame, Lost, IInv
  <2>3. CASE /\ errCnt' = errCnt + FixupErrors(Rec.add, Deltas) /\ NextRec
             /\ UNCHANGED <<job, sym, loaded>>
    <3>1. errCnt <= errCnt'
      BY <1>1, <2>3, FixupErrorsType
    <3> QED BY <1>1, <2>3, <3>1, HandlerReports
  <2> QED BY <1>3, <2>1, <2>2, <2>3 DEF RelocRecPass2
<1>4. CASE SymRecPass2
  <2>1. pc' = "rec" /\ UNCHANGED <<job, pass, loaded, sym, errCnt>>
    BY <1>1, <1>4 DEF SymRecPass2
  <2> QED BY <1>1, <2>1, HandlerReports
<1>5. CASE StartRecPass2
  <2>1. pc' = "rec" /\ UNCHANGED <<job, pass, loaded, sym>> /\ errCnt <= errCnt'
    BY <1>1, <1>5 DEF StartRecPass2
  <2> QED BY <1>1, <2>1, HandlerReports
<1> QED BY <1>2, <1>3, <1>4, <1>5 DEF Pass2Rec

-----------------------------------------------------------------------------
(* The steps of finPass1, and the end *)

LEMMA LayoutReports ==
  ASSUME IInv, IInv', OInv, pc \in Layout, pc' \in Layout, UNCHANGED <<job, pass, loaded>>,
         \A s \in Syms : sym'[s].low = sym[s].low, errCnt <= errCnt'
  PROVE  AbsNext
<1>1. Running /\ Running' /\ AbsSame
  BY SameTables DEF Running, ExitPoints, Layout, AbsSame
<1> QED BY <1>1, Reports DEF IInv

LEMMA FinishPsectPromise ==
  ASSUME IInv, IInv', OInv, pc \in Layout, NEW i, NEW p, FinishPsect(i, p)
  PROVE  AbsNext
<1>1. /\ Running /\ Running' /\ pass = 0 /\ pass' = 0 /\ job' = job /\ loaded' = loaded
      /\ errCnt' = errCnt + TooBig(p) /\ errCnt \in Nat
  BY DEF FinishPsect, Running, ExitPoints, Layout, OInv, Whereabouts, histVars, IInv, TypeOK
<1>2. errCnt <= errCnt'
  BY <1>1, TooBigType
<1>3. /\ \A s \in Syms : s \notin Needed(i, p) => sym'[s].low = sym[s].low
      /\ \A s \in Syms : s \in Needed(i, p) =>
           sym'[s].low = "NULL" /\ sym[s].low \in {"none", "EXTERN"}
  BY DEF FinishPsect, Needed
<1>4. DefinedSyms \subseteq DefinedSyms' /\ Externs' = Externs \ DefinedSyms'
  BY <1>3 DEF Externs, Extern, KnownSyms, Known, DefinedSyms
<1> QED BY <1>1, <1>2, <1>4, Defines DEF IInv

\* From pass 0 to pass 1: the abstract link starts writing, or has failed
LEMMA StartPass2Promise ==
  ASSUME IInv, IInv', OInv, pc = "place", StartPass2,
         \A s \in Syms : sym'[s].low = sym[s].low,
         errCnt' # 0 <=> errCnt # 0 \/ (Externs # {} /\ ~(job.I \/ job.R))
  PROVE  AbsNext
<1>1. pass = 0 /\ Running /\ pass' = 1 /\ AbsSame
  BY SameTables DEF OInv, Whereabouts, Layout, Running, ExitPoints, StartPass2, AbsSame, histVars
<1>2. Status = "picking"
  BY <1>1, StatusOf DEF IInv
<1>3. Status' = IF errCnt' # 0 THEN "failed" ELSE "writing"
  <2>1. CASE errCnt' # 0
    <3>1. pc' \in Lost
      BY <2>1 DEF StartPass2, Lost
    <3> QED BY <2>1, <3>1, StatusNext DEF IInv
  <2>2. CASE errCnt' = 0
    <3>1. Running'
      BY <2>2 DEF StartPass2, Running, ExitPoints
    <3> QED BY <1>1, <2>2, <3>1, StatusNext DEF IInv
  <2> QED BY <2>1, <2>2
<1>4. (errCnt' # 0) = (errCnt # 0 \/ (Externs # {} /\ ~(job.I \/ job.R)))
  OBVIOUS
<1>5. Abstract!StartWriting
  BY <1>1, <1>2, <1>3, <1>4 DEF Abstract!StartWriting, AbsSame, Status, DefinedSyms
<1> QED BY <1>5 DEF AbsNext, Abstract!Next

LEMMA RelocateSymbolsPromise ==
  ASSUME IInv, IInv', CInv, OInv, RelocateSymbols
  PROVE  AbsNext
<1>1. /\ pc = "place" /\ ~job.R /\ StartPass2
      /\ errCnt' = errCnt + UndefinedErrors /\ errCnt \in Nat
  BY DEF RelocateSymbols, IInv, TypeOK
<1>2. \A s \in Syms : sym'[s].low = sym[s].low
  <2>1. sym \in [Syms -> SymEntry]
    BY DEF IInv, TypeOK
  <2> QED BY <2>1 DEF RelocateSymbols, SymEntry
<1>3. /\ IsFiniteSet(Externs) /\ Cardinality(Externs) \in Nat
      /\ Cardinality(Externs) = 0 <=> Externs = {}
  BY ExternsFinite, FS_EmptySet
<1>4. UndefinedErrors \in Nat /\ (UndefinedErrors # 0 <=> ~job.I /\ Externs # {})
  BY <1>3 DEF UndefinedErrors, CInv, TableCounts
<1>5. errCnt' # 0 <=> errCnt # 0 \/ (Externs # {} /\ ~(job.I \/ job.R))
  BY <1>1, <1>4
<1> QED BY <1>1, <1>2, <1>5, StartPass2Promise

LEMMA LayoutPromise ==
  ASSUME IInv, IInv', CInv, OInv, LayoutStep
  PROVE  AbsNext
<1> USE DEF histVars, tabVars, Layout
<1>1. Running /\ errCnt \in Nat
  BY DEF LayoutStep, FinPass1, PlaceSpecPsect, PlaceSpecClass, PlaceClassMember, SkipClassMember,
         SpecUnknown, SpecDone, PlaceReloc, PlacePsect, PlaceClass, PlaceStray, PlaceClassDone,
         RelocateSymbols, CommonCrash, KeepRelocatable, Running, ExitPoints, IInv, TypeOK
<1>2. CASE Fatal
  BY <1>1, <1>2, FatalFails
<1>3. CASE FinPass1
  <2>1. AbsSame /\ Running' /\ pass' = pass /\ errCnt' = errCnt
    BY <1>3, SameTables DEF FinPass1, AbsSame, Running, ExitPoints
  <2> QED BY <1>1, <2>1, Quiet DEF IInv
<1>4. CASE PlaceSpecPsect /\ ~Fatal
  <2>1. /\ pc \in Layout /\ pc' \in Layout /\ UNCHANGED <<job, pass, loaded, sym>>
        /\ errCnt' = errCnt + AbsError(ItemSlot)
    BY <1>4 DEF PlaceSpecPsect, posVars
  <2>2. errCnt <= errCnt'
    BY <1>1, <2>1, AbsErrorType
  <2> QED BY <2>1, <2>2, LayoutReports
<1>5. CASE PlaceSpecClass
  <2>1. /\ pc \in Layout /\ pc' \in Layout /\ UNCHANGED <<job, pass, loaded, sym>>
        /\ errCnt' = errCnt + AbsError(ItemSlot)
    BY <1>5 DEF PlaceSpecClass
  <2>2. errCnt <= errCnt'
    BY <1>1, <2>1, AbsErrorType
  <2> QED BY <2>1, <2>2, LayoutReports
<1>6. CASE (PlaceClassMember /\ ~Fatal) \/ SkipClassMember \/ SpecDone \/ PlaceClass \/ PlaceStray
  <2>1. pc \in Layout /\ pc' \in Layout /\ UNCHANGED <<job, pass, loaded, sym, errCnt>>
    BY <1>6 DEF PlaceClassMember, SkipClassMember, SpecDone, PlaceClass, PlaceStray, posVars
  <2> QED BY <1>1, <2>1, LayoutReports
<1>7. CASE SpecUnknown
  BY <1>2, <1>7 DEF SpecUnknown
<1>8. CASE PlaceReloc
  <2>1. /\ pc \in Layout /\ pc' \in Layout /\ UNCHANGED <<job, pass, loaded, sym>>
        /\ errCnt' = errCnt + TooBig(psectInfo[idx])
    BY <1>8 DEF PlaceReloc, posVars
  <2>2. errCnt <= errCnt'
    BY <1>1, <2>1, TooBigType
  <2> QED BY <2>1, <2>2, LayoutReports
<1>9. CASE PlacePsect /\ ~Fatal
  BY <1>9, FinishPsectPromise DEF PlacePsect
<1>10. CASE PlaceClassDone
  BY <1>10, FinishPsectPromise DEF PlaceClassDone
<1>11. CASE RelocateSymbols
  BY <1>11, RelocateSymbolsPromise
<1>12. CASE CommonCrash
  <2>1. AbsSame /\ pc' \in Lost /\ errCnt' = errCnt
    BY <1>12, SameTables DEF CommonCrash, AbsSame, Lost
  <2> QED BY <1>1, <2>1, Fails DEF IInv
<1>13. CASE KeepRelocatable
  BY <1>13, StartPass2Promise DEF KeepRelocatable
<1> QED BY <1>2, <1>3, <1>4, <1>5, <1>6, <1>7, <1>8, <1>9, <1>10, <1>11, <1>12, <1>13
        DEF LayoutStep

LEMMA FinPass2Promise ==
  ASSUME IInv, IInv', OInv, FinPass2
  PROVE  AbsNext
<1>1. Running /\ pass = 1 /\ fileIdx = Len(job.files) /\ pc = "open" /\ AbsSame /\ errCnt' = errCnt
  BY SameTables DEF FinPass2, Running, ExitPoints, AbsSame, tabVars, histVars
<1>2. CASE errCnt # 0
  <2>1. pc' \in Lost
    BY <1>2 DEF FinPass2, Lost
  <2> QED BY <1>1, <2>1, Fails DEF IInv
<1>3. CASE errCnt = 0
  <2>1. Status = "writing" /\ Status' = "ok"
    BY <1>1, <1>3, StatusOf, StatusNext DEF FinPass2, IInv
  <2>2. Cursor = <<Len(job.files), 0>>
    BY <1>1 DEF Cursor
  <2>3. loaded[1] = loaded[0]
    BY <1>1, <2>2, RereadAll DEF Lost, IInv
  <2>4. Abstract!Succeed
    BY <1>1, <1>3, <2>1, <2>3 DEF Abstract!Succeed, AbsSame, Status, DefinedSyms
  <2> QED BY <2>4 DEF AbsNext, Abstract!Next
<1> QED BY <1>2, <1>3

-----------------------------------------------------------------------------
(* The theorem *)

LEMMA NextPromise ==
  ASSUME IInv, IInv', CInv, OInv, OInv', [Next]_vars
  PROVE  AbsNext
<1>1. CASE ReadStep
  <2>1. CASE CloseLibrary
    <3>1. Running /\ Running' /\ pass' = pass /\ AbsSame /\ errCnt' = errCnt
      BY <2>1, SameTables DEF CloseLibrary, Running, ExitPoints, AbsSame, tabVars, histVars
    <3> QED BY <3>1, Quiet DEF IInv
  <2>2. CASE NoEndRecord
    BY <2>2, FatalFails DEF NoEndRecord, Running, ExitPoints
  <2>3. CASE EndRec
    <3>1. Running /\ Running' /\ pass' = pass /\ AbsSame /\ errCnt' = errCnt
      BY <2>3, SameTables DEF EndRec, Running, ExitPoints, AbsSame, histVars
    <3> QED BY <3>1, Quiet DEF IInv
  <2>4. CASE SkipRec
    <3>1. Running /\ Running' /\ pass' = pass /\ AbsSame /\ errCnt' = errCnt
      BY <2>4, SameTables DEF SkipRec, Reading, NextRec, Running, ExitPoints, AbsSame, tabVars,
                              histVars
    <3> QED BY <3>1, Quiet DEF IInv
  <2> QED BY <1>1, <2>1, <2>2, <2>3, <2>4, OpenFilePromise, ScanModulePromise, DoModulePromise,
             Pass1RecPromise, Pass2RecPromise DEF ReadStep
<1>2. CASE LayoutStep
  BY <1>2, LayoutPromise
<1>3. CASE FinPass2
  BY <1>3, FinPass2Promise
<1>4. CASE UNCHANGED vars
  <2>1. AbsSame /\ Status' = Status /\ errCnt' = errCnt
    BY <1>4, SameTables DEF vars, posVars, tabVars, histVars, AbsSame, Status
  <2> QED BY <2>1, Stutters DEF AbsNext
<1> QED BY <1>1, <1>2, <1>3, <1>4 DEF Next, Step, Exited

LEMMA InitPromise == Init => Abstract!Init
<1> SUFFICES ASSUME Init PROVE Abstract!Init
  OBVIOUS
<1>1. /\ pc = "open" /\ pass = 0 /\ errCnt = 0 /\ loaded[0] = <<>> /\ loaded[1] = <<>>
      /\ \A s \in Syms : sym[s].low \in {"none", "EXTERN"}
  BY DEF Init, Unresolved, NoSym
<1>2. DefinedSyms = {} /\ Externs \subseteq Syms
  BY <1>1 DEF DefinedSyms, KnownSyms, Known, Externs, Extern
<1>3. Status = "picking"
  BY <1>1 DEF Status, ExitPoints
<1> QED BY <1>1, <1>2, <1>3 DEF Abstract!Init, Status, DefinedSyms

\* The linker implements LinkAbs, for all command lines and tables of any size: it
\* reads a library module only for a symbol open at that moment, never loses a
\* definition, rereads in pass 1 what it read in pass 0, and exits with status 0
\* only when no error was counted and no symbol left open (link/main.c, lib.c
\* chkModuleNeeded, sym.c defineSym and finPass1).
THEOREM PromiseKept == Spec => KeepsPromise
<1>1. Init => IInv /\ CInv /\ OInv /\ Abstract!Init
  BY InitInv, InitCounts, InitOrder, InitPromise
<1>2. IInv /\ CInv /\ OInv /\ [Next]_vars => (IInv /\ CInv /\ OInv)'
  BY NextInv, NextCounts, NextOrder
<1>3. IInv /\ IInv' /\ CInv /\ OInv /\ OInv' /\ [Next]_vars => [Abstract!Next]_(Abstract!vars)
  BY NextPromise DEF AbsNext
<1> QED BY <1>1, <1>2, <1>3, PTL DEF Spec, KeepsPromise, Abstract!Spec
=============================================================================
