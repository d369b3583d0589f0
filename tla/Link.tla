-------------------------------- MODULE Link --------------------------------
(***************************************************************************)
(* The two pass linker (link/main.c, lib.c, sym.c, text.c, reloc.c).       *)
(*                                                                         *)
(* Pass 0 reads every object file and searches every library once, in      *)
(* command line order, building the symbol table and adding up the size of *)
(* every psect; finPass1 then gives each psect its link and load address.  *)
(* Pass 1 reads the same modules again, relocates their text and writes    *)
(* the output.  The code numbers the passes 0 and 1 (main.c: pass) and     *)
(* names their handlers ...Pass1 and ...Pass2; both are kept here.         *)
(*                                                                         *)
(* One action is one record handler, one library directory entry, or one   *)
(* iteration of a loop of finPass1.  A record with several entries is a    *)
(* sequence of records with one entry each.  Symbols proper are global     *)
(* (local ones are never entered in the table), so a name stands for its   *)
(* table slot; psects and classes keep the code's psectInfo array, where a *)
(* local psect is visible in its own file only.                            *)
(***************************************************************************)
EXTENDS Integers, FiniteSets, Sequences

CONSTANTS
  UserSyms,     \* names of the global symbols of the modules
  PsectNames,   \* names of psects, Abs excepted
  ClassNames,   \* names of psect classes (XPSECT records)
  Abs,          \* the empty name: the absolute psect (absSym)
  NoName,       \* "no class" in an XPSECT record
  Orders,       \* byte orders of IDENT records
  NoOrder,      \* no IDENT record seen yet
  Jobs,         \* the command lines, with the contents of their files
  MaxSymbols,   \* slots of symTab (MAX_SYMBOLS)
  MaxPsects,    \* entries of psectInfo (MAX_PSECTS)
  MaxFiles,     \* files told apart by the 8 bits of sym_t's fileId (256)
  FieldMax      \* the largest value a relocated field holds (2 bytes: 65535)

NoAddr == -1    \* no address in a -p item
NoNum  == -2    \* "/" with no number after it in a -p item

\* __Lname, __Hname and __Bname, which the linker defines itself
LabelSyms == {"L", "H", "B"} \X PsectNames
Syms      == UserSyms \cup LabelSyms
AllNames  == PsectNames \cup ClassNames \cup {Abs}

Record ==
  [t : {"IDENT"}, order : Orders]
    \cup [t : {"PSECT"}, psect : PsectNames, glob : BOOLEAN, ovr : BOOLEAN,
          abs : BOOLEAN]
    \cup [t : {"XPSECT"}, psect : PsectNames, cls : ClassNames \cup {NoName},
          max : Nat, align : {0, 1, 2, 4, 8, 16}]
    \cup [t : {"TEXT"}, psect : PsectNames \cup {Abs}, off : Nat, len : Nat]
    \cup [t : {"RELOC"}, kind : {"RPSECT", "RRPSECT", "RSPSECT"},
          name : PsectNames \cup {Abs}, off : Nat, add : Int]
    \cup [t : {"RELOC"}, kind : {"RNAME", "RRNAME", "RSNAME"},
          name : Syms, off : Nat, add : Int]
    \cup [t : {"SYM"}, low : {"NULL"}, glob : BOOLEAN, name : Syms,
          psect : PsectNames \cup {Abs}, val : Nat]
    \cup [t : {"SYM"}, low : {"COMM"}, name : Syms, val : Nat]
    \cup [t : {"SYM"}, low : {"EXTERN"}, name : Syms]
    \cup [t : {"START"}, psect : PsectNames \cup {Abs}, off : Nat]
    \cup [t : {"END"}]

\* dir: the names a library directory gives for the module with type 0
Module   == [recs : Seq(Record), dir : SUBSET Syms]
File     == [kind : {"obj", "lib", "missing"}, mods : Seq(Module)]
SpecItem == [name : AllNames, link : Nat \cup {NoAddr},
             load : Nat \cup {NoAddr, NoNum}]
\* R, I: options -r and -i; loc: -p; force: -u
Job      == [files : Seq(File), R : BOOLEAN, I : BOOLEAN,
             loc : Seq(SpecItem), force : SUBSET UserSyms]

ASSUME LinkAssumption ==
  /\ Jobs \subseteq Job
  /\ MaxSymbols \in Nat /\ MaxPsects \in Nat \ {0} /\ MaxFiles \in Nat
  /\ FieldMax \in Nat
  /\ Abs \notin PsectNames \cup ClassNames
  /\ NoOrder \notin Orders
  /\ UserSyms \cap LabelSyms = {}
  /\ IsFiniteSet(UserSyms) /\ IsFiniteSet(PsectNames)
  /\ \A j \in Jobs : Cardinality(j.force) < MaxSymbols /\ Len(j.files) <= MaxFiles
  /\ \A j \in Jobs : \A f \in DOMAIN j.files :
       j.files[f].kind = "obj" => Len(j.files[f].mods) = 1

VARIABLES
  job,            \* the command line being linked
  pc,             \* where main is
  pass,           \* main.c pass
  fileIdx,        \* main.c fileIdx
  libFileIdx,     \* main.c libFileIdx
  modIdx,         \* visitModules' modIdx (0 in an object file)
  recIdx,         \* the record doObjFile reads next, from 1
  libTable,       \* the set bits of lib.c libTable: <<libFileIdx, modIdx>>
  ident,          \* order16/order32 of the first IDENT record
  sym,            \* the symbol entries of symTab
  psectInfo,      \* sym.c psectInfo with the flags of its psectSym
  nextPsect,      \* entries of psectInfo in use
  newSymCnt,      \* entries of symTab in use
  cntUnresolved,  \* main.c cntUnresolved
  errCnt,         \* main.c errCnt
  linkPt, loadPt, \* finPass1's running addresses
  specIdx,        \* the -p item finPass1 reads
  idx, member,    \* the loops of finPass1 over psectInfo
  text,           \* pass 1: the current text record
  entry,          \* addresses of the START records written
  out,            \* pass 1: text placed in the output
  fixes,          \* pass 1: values the relocations resolved to
  loaded,         \* history: modules read in each pass, in order
  bases           \* history: psect sizes before each module of pass 0, and after all

posVars  == <<pc, pass, fileIdx, libFileIdx, modIdx, recIdx>>
tabVars  == <<sym, psectInfo, nextPsect, newSymCnt, cntUnresolved>>
layVars  == <<linkPt, loadPt, specIdx, idx, member>>
outVars  == <<text, entry, out, fixes>>
histVars == <<loaded, bases>>
vars == <<job, posVars, libTable, ident, tabVars, errCnt, layVars, outVars,
          histVars>>

-----------------------------------------------------------------------------
(* The symbol table *)

SymEntry   == [low : {"none", "EXTERN", "NULL", "COMM"}, value : Int, psect : Nat]
PsectEntry == [name : AllNames, kind : {"PSECT", "CLASS"}, fileId : Nat, glob : BOOLEAN,
               ovr : BOOLEAN, abs : BOOLEAN, blk : Nat, end : Nat, link : Nat,
               load : Nat, max : Nat, align : Nat, cls : Nat, set : BOOLEAN]

NoSym      == [low |-> "none", value |-> 0, psect |-> 0]
Unresolved == [low |-> "EXTERN", value |-> 0, psect |-> 0]

NewPsect(name, kind, glob, ovr, abs) ==
  [name |-> name, kind |-> kind, fileId |-> fileIdx,
   glob |-> glob, ovr |-> ovr, abs |-> abs, blk |-> 0, end |-> 0,
   link |-> 0, load |-> 0, max |-> 0, align |-> 0, cls |-> 0, set |-> FALSE]

AbsEntry == NewPsect(Abs, "PSECT", TRUE, TRUE, TRUE)

\* Entries of one name are met in the order they were added: linear probing
\* from one hash slot, and nothing is ever removed.
Slots(name, kind) ==
  {i \in 1..nextPsect : /\ psectInfo[i].name = name
                        /\ psectInfo[i].kind = kind
                        /\ \/ psectInfo[i].glob
                           \/ psectInfo[i].fileId = fileIdx
                           \/ job.R}
FirstOf(S) == LET firsts == {i \in S : \A j \in S : i <= j}
              IN IF firsts = {} THEN 0 ELSE CHOOSE i \in firsts : TRUE
Slot(name, kind) == FirstOf(Slots(name, kind))

Merge(p, glob, ovr, abs) ==
  [p EXCEPT !.glob = @ \/ glob, !.ovr = @ \/ ovr, !.abs = @ \/ abs]

\* addSym for a psect or class: the slot, and the array afterwards
Missing(name, kind) == IF Slot(name, kind) = 0 THEN 1 ELSE 0
SlotAfter(name, kind) ==
  IF Slot(name, kind) = 0 THEN nextPsect + 1 ELSE Slot(name, kind)
Entered(name, kind, glob, ovr, abs) ==
  IF Slot(name, kind) = 0
  THEN [psectInfo EXCEPT ![nextPsect + 1] = NewPsect(name, kind, glob, ovr, abs)]
  ELSE [psectInfo EXCEPT ![Slot(name, kind)] = Merge(@, glob, ovr, abs)]
Mentioned(name) == Entered(name, "PSECT", FALSE, FALSE, FALSE)

RoomOffByOne(n, m) == /\ n > 0 => nextPsect + n <= MaxPsects
                      /\ n + m > 0 => newSymCnt + n + m <= MaxSymbols + 1
\* room for n more psects or classes and m more symbols
Room(n, m) == /\ n > 0 => nextPsect + n <= MaxPsects
              /\ n + m > 0 => newSymCnt + n + m <= MaxSymbols

Known(s)  == sym[s].low # "none"
Extern(s) == sym[s].low = "EXTERN"
Externs   == {s \in Syms : Extern(s)}
KnownSyms == {s \in Syms : Known(s)}
NewSym(s) == IF Known(s) THEN 0 ELSE 1

-----------------------------------------------------------------------------
CurFile == job.files[fileIdx + 1]
CurMod  == CurFile.mods[modIdx + 1]
Rec     == CurMod.recs[recIdx]
InLib   == CurFile.kind = "lib"

Reading(p, t) == /\ pc = "rec" /\ pass = p
                 /\ recIdx <= Len(CurMod.recs)
                 /\ Rec.t = t

NextRecStuck == UNCHANGED posVars
NextRec == /\ recIdx' = recIdx + 1
           /\ UNCHANGED <<pc, pass, fileIdx, libFileIdx, modIdx>>

\* fatalErr, badFormat: exit(1) at once
Fatal == /\ pc' = "failed"
         /\ UNCHANGED <<job, pass, fileIdx, libFileIdx, modIdx, recIdx, libTable,
                        ident, tabVars, errCnt, layVars, outVars, histVars>>

Init ==
  /\ job \in Jobs
  /\ pc = "open" /\ pass = 0 /\ fileIdx = 0 /\ libFileIdx = 0
  /\ modIdx = 0 /\ recIdx = 1
  /\ libTable = {} /\ ident = NoOrder
  /\ sym = [s \in Syms |-> IF s \in job.force THEN Unresolved ELSE NoSym]
  /\ psectInfo = [i \in 1..MaxPsects |-> AbsEntry]
  /\ nextPsect = 1
  /\ newSymCnt = Cardinality(job.force) + 1
  /\ cntUnresolved = Cardinality(job.force)
  /\ errCnt = 0
  /\ linkPt = 0 /\ loadPt = 0 /\ specIdx = 1 /\ idx = 1 /\ member = 1
  /\ text = [psect |-> 0, base |-> 0, len |-> 0]
  /\ entry = <<>> /\ out = {} /\ fixes = {}
  /\ loaded = [p \in {0, 1} |-> <<>>] /\ bases = <<>>

-----------------------------------------------------------------------------
(* Files, libraries and modules *)

Enter(m) == loaded' = [loaded EXCEPT ![pass] = Append(@, <<fileIdx, m>>)]

\* psect sizes before the module that pass 0 is about to read, and at its end
Sizes == [i \in 1..nextPsect |-> psectInfo[i].blk]
Bases == bases' = IF pass = 0 THEN Append(bases, Sizes) ELSE bases

StartModule == /\ pc' = "rec" /\ recIdx' = 1
               /\ Enter(modIdx')
               /\ Bases

\* main's loop over the files: freopen, isLibrary, openLibrary or doObjFile
OpenFile ==
  /\ pc = "open" /\ fileIdx < Len(job.files)
  /\ \/ /\ CurFile.kind = "missing"
        /\ Fatal
     \/ /\ CurFile.kind = "lib"
        /\ pc' = "scan" /\ modIdx' = 0
        /\ libTable' = IF pass = 0
                       THEN {b \in libTable : b[1] # libFileIdx}
                       ELSE libTable
        /\ UNCHANGED <<job, pass, fileIdx, libFileIdx, recIdx, ident, tabVars,
                       errCnt, layVars, outVars, histVars>>
     \/ /\ CurFile.kind = "obj"
        /\ modIdx' = 0
        /\ StartModule
        /\ UNCHANGED <<job, pass, fileIdx, libFileIdx, libTable, ident, tabVars,
                       errCnt, layVars, outVars>>

ModuleNeededUnknown(dir) == \E s \in dir : ~Known(s) \/ Extern(s)
\* chkModuleNeeded over the symbols of a directory entry
ModuleNeeded(dir) == \E s \in dir : Extern(s)

\* pass 0: visitModules(scanModule); openLibrary has just allocated the bits, so
\* none is set yet for a module still to be scanned
ScanModule ==
  /\ pc = "scan" /\ pass = 0 /\ modIdx < Len(CurFile.mods)
  /\ IF ModuleNeeded(CurMod.dir)
     THEN /\ libTable' = libTable \cup {<<libFileIdx, modIdx>>}
          /\ modIdx' = modIdx
          /\ StartModule
     ELSE /\ modIdx' = modIdx + 1
          /\ UNCHANGED <<pc, recIdx, libTable, histVars>>
  /\ UNCHANGED <<job, pass, fileIdx, libFileIdx, ident, tabVars, errCnt, layVars,
                 outVars>>

\* pass 1: visitModules(doModule)
DoModule ==
  /\ pc = "scan" /\ pass = 1 /\ modIdx < Len(CurFile.mods)
  /\ \/ /\ <<libFileIdx, modIdx>> \in libTable
        /\ modIdx' = modIdx
        /\ StartModule
     \/ /\ <<libFileIdx, modIdx>> \notin libTable
        /\ modIdx' = modIdx + 1
        /\ UNCHANGED <<pc, recIdx, histVars>>
  /\ UNCHANGED <<job, pass, fileIdx, libFileIdx, libTable, ident, tabVars, errCnt,
                 layVars, outVars>>

CloseLibrary ==
  /\ pc = "scan" /\ modIdx = Len(CurFile.mods)
  /\ pc' = "open" /\ fileIdx' = fileIdx + 1 /\ libFileIdx' = libFileIdx + 1
  /\ UNCHANGED <<job, pass, modIdx, recIdx, libTable, ident, tabVars, errCnt,
                 layVars, outVars, histVars>>

\* readRecHdr at the end of a module with no END record
NoEndRecord == /\ pc = "rec" /\ recIdx > Len(CurMod.recs)
               /\ Fatal

-----------------------------------------------------------------------------
(* Record handlers *)

\* identRecPass1
IdentRec ==
  /\ Reading(0, "IDENT")
  /\ IF ident \notin {NoOrder, Rec.order}
     THEN Fatal
     ELSE /\ ident' = Rec.order
          /\ NextRec
          /\ UNCHANGED <<job, libTable, tabVars, errCnt, layVars, outVars, histVars>>

\* psectRecPass1
PsectRec ==
  /\ Reading(0, "PSECT")
  /\ IF ~Room(Missing(Rec.psect, "PSECT"), 0)
     THEN Fatal
     ELSE LET new == Entered(Rec.psect, "PSECT", Rec.glob, Rec.ovr, Rec.abs)
              i   == SlotAfter(Rec.psect, "PSECT")
          IN /\ psectInfo' = new
             /\ nextPsect' = nextPsect + Missing(Rec.psect, "PSECT")
             /\ newSymCnt' = newSymCnt + Missing(Rec.psect, "PSECT")
             /\ errCnt' = IF new[i].glob /\ ~Rec.glob THEN errCnt + 1 ELSE errCnt
             /\ NextRec
             /\ UNCHANGED <<job, libTable, ident, sym, cntUnresolved, layVars,
                            outVars, histVars>>

\* xpsectRecPass1: the psect, then its class, then the limits
XpsectRec ==
  LET n == Missing(Rec.psect, "PSECT")
      i == SlotAfter(Rec.psect, "PSECT")
      c == IF Slot(Rec.cls, "CLASS") = 0 THEN nextPsect + n + 1 ELSE Slot(Rec.cls, "CLASS")
      k == IF Rec.cls = NoName THEN 0 ELSE Missing(Rec.cls, "CLASS")
      withPsect == Mentioned(Rec.psect)
      withClass == IF k = 1
                   THEN [withPsect EXCEPT ![c] = NewPsect(Rec.cls, "CLASS", TRUE, FALSE, FALSE)]
                   ELSE withPsect
      old == withClass[i]
  IN /\ Reading(0, "XPSECT")
     /\ IF ~Room(n + k, 0)
        THEN Fatal
        ELSE /\ psectInfo' = [withClass EXCEPT
                  ![i].cls = IF Rec.cls # NoName /\ @ = 0 THEN c ELSE @,
                  ![i].max = IF Rec.max # 0 /\ (@ = 0 \/ Rec.max < @) THEN Rec.max ELSE @,
                  ![i].align = IF Rec.align # 0 /\ (@ = 0 \/ Rec.align < @)
                               THEN Rec.align ELSE @]
             /\ nextPsect' = nextPsect + n + k
             /\ newSymCnt' = newSymCnt + n + k
             /\ errCnt' = IF Rec.cls # NoName /\ old.cls \notin {0, c}
                          THEN errCnt + 1 ELSE errCnt
             /\ NextRec
             /\ UNCHANGED <<job, libTable, ident, sym, cntUnresolved, layVars,
                            outVars, histVars>>

\* textRecPass1: the psect ends where its longest text in this module ends
Grown(table, i, end) == [table EXCEPT ![i].end = IF @ < end THEN end ELSE @]

TextRecPass1 ==
  /\ Reading(0, "TEXT")
  /\ IF ~Room(Missing(Rec.psect, "PSECT"), 0)
     THEN Fatal
     ELSE /\ psectInfo' = Grown(Mentioned(Rec.psect),
                                SlotAfter(Rec.psect, "PSECT"), Rec.off + Rec.len)
          /\ nextPsect' = nextPsect + Missing(Rec.psect, "PSECT")
          /\ newSymCnt' = newSymCnt + Missing(Rec.psect, "PSECT")
          /\ NextRec
          /\ UNCHANGED <<job, libTable, ident, sym, cntUnresolved, errCnt, layVars,
                         outVars, histVars>>

\* addSym(name, SF_GLOBAL) of a symbol that a reference names
Mention(s) ==
  IF ~Room(0, NewSym(s))
  THEN Fatal
  ELSE /\ sym' = IF Known(s) THEN sym ELSE [sym EXCEPT ![s] = Unresolved]
       /\ newSymCnt' = newSymCnt + NewSym(s)
       /\ cntUnresolved' = cntUnresolved + NewSym(s)
       /\ NextRec
       /\ UNCHANGED <<job, libTable, ident, psectInfo, nextPsect, errCnt, layVars,
                      outVars, histVars>>

\* relocRecPass1: segment relocations and psect names add nothing
RelocRecPass1 ==
  /\ Reading(0, "RELOC")
  /\ IF Rec.kind \in {"RNAME", "RRNAME"}
     THEN Mention(Rec.name)
     ELSE /\ NextRec
          /\ UNCHANGED <<job, libTable, ident, tabVars, errCnt, layVars, outVars,
                         histVars>>

SymExternPass1 == /\ Reading(0, "SYM") /\ Rec.low = "EXTERN"
                  /\ Mention(Rec.name)

DefinedUnbased(s, low, val, psect, off) ==
  IF sym[s].low \in {"none", "EXTERN"} THEN [low |-> low, value |-> val, psect |-> psect]
  ELSE sym[s]
\* defineSym: the entry of s afterwards, and whether it is an error
Defined(s, low, val, psect, off) ==
  CASE sym[s].low \in {"none", "EXTERN"} ->
         [low |-> low, value |-> val + off, psect |-> psect]
    [] sym[s].low = "COMM" /\ low = "COMM" /\ sym[s].value < val ->
         [sym[s] EXCEPT !.value = val]
    [] OTHER -> sym[s]
RedefinedCommon(s, low) == sym[s].low = "NULL"
Redefined(s, low) == \/ sym[s].low = "NULL"
                     \/ sym[s].low = "COMM" /\ low # "COMM"

DefineSym(s, low, val, psect, off) ==
  /\ sym' = [sym EXCEPT ![s] = Defined(s, low, val, psect, off)]
  /\ cntUnresolved' = IF Extern(s) THEN cntUnresolved - 1 ELSE cntUnresolved
  /\ errCnt' = IF Redefined(s, low) THEN errCnt + 1 ELSE errCnt

SymCommPass1 ==
  /\ Reading(0, "SYM") /\ Rec.low = "COMM"
  /\ IF ~Room(0, NewSym(Rec.name))
     THEN Fatal
     ELSE /\ DefineSym(Rec.name, "COMM", Rec.val, 0, 0)
          /\ newSymCnt' = newSymCnt + NewSym(Rec.name)
          /\ NextRec
          /\ UNCHANGED <<job, libTable, ident, psectInfo, nextPsect, layVars,
                         outVars, histVars>>

\* an address: its psect is entered, and the symbol too when it is global
SymNullPass1 ==
  LET n == Missing(Rec.psect, "PSECT")
      i == SlotAfter(Rec.psect, "PSECT")
      new == Mentioned(Rec.psect)
      m == IF Rec.glob THEN NewSym(Rec.name) ELSE 0
  IN /\ Reading(0, "SYM") /\ Rec.low = "NULL"
     /\ IF ~Room(n, m)
        THEN Fatal
        ELSE /\ psectInfo' = new
             /\ nextPsect' = nextPsect + n
             /\ newSymCnt' = newSymCnt + n + m
             /\ IF Rec.glob
                THEN DefineSym(Rec.name, "NULL", Rec.val, i,
                               IF new[i].ovr THEN 0 ELSE new[i].blk)
                ELSE UNCHANGED <<sym, cntUnresolved, errCnt>>
             /\ NextRec
             /\ UNCHANGED <<job, libTable, ident, layVars, outVars, histVars>>

EndOfModuleKeepsEnd(p) ==
  [p EXCEPT !.blk = IF p.ovr THEN IF p.blk < p.end THEN p.end ELSE p.blk ELSE p.blk + p.end]
\* endRecPass1 (endRecPass2 calls it): the module's psect sizes are added up,
\* an overlaid psect is as long as its longest part
EndOfModule(p) ==
  [p EXCEPT !.blk = IF p.ovr THEN IF p.blk < p.end THEN p.end ELSE p.blk
                    ELSE p.blk + p.end,
            !.end = 0]

EndRec ==
  /\ pc = "rec" /\ recIdx <= Len(CurMod.recs) /\ Rec.t = "END"
  /\ psectInfo' = [i \in 1..MaxPsects |->
                     IF i <= nextPsect THEN EndOfModule(psectInfo[i]) ELSE psectInfo[i]]
  /\ IF InLib
     THEN pc' = "scan" /\ modIdx' = modIdx + 1 /\ fileIdx' = fileIdx
     ELSE pc' = "open" /\ modIdx' = modIdx /\ fileIdx' = fileIdx + 1
  /\ UNCHANGED <<job, pass, libFileIdx, recIdx, libTable, ident, sym, nextPsect,
                 newSymCnt, cntUnresolved, errCnt, layVars, outVars, histVars>>

\* skipRecData
SkipRec ==
  /\ \/ Reading(0, "START")
     \/ \E t \in {"IDENT", "PSECT", "XPSECT"} : Reading(1, t)
     \/ Reading(1, "SYM") /\ ~(Rec.low = "NULL" /\ ~Rec.glob)
  /\ NextRec
  /\ UNCHANGED <<job, libTable, ident, tabVars, errCnt, layVars, outVars, histVars>>

-----------------------------------------------------------------------------
(* finPass1: the addresses of the psects *)

AlignDown(x, a) == IF a = 0 THEN x ELSE x - (x % a)
AlignUp(x, a) == IF a = 0 \/ x % a = 0 THEN x ELSE x + (a - (x % a))
Misaligned(x, a) == a # 0 /\ x % a # 0

\* The end of pass 0's loop over the files
FinPass1 ==
  /\ pc = "open" /\ pass = 0 /\ fileIdx = Len(job.files)
  /\ pc' = IF ~job.R /\ job.loc # <<>> THEN "spec" ELSE "place"
  /\ linkPt' = 0 /\ loadPt' = 0 /\ specIdx' = 1 /\ idx' = 1
  /\ Bases
  /\ UNCHANGED <<job, pass, fileIdx, libFileIdx, modIdx, recIdx, libTable, ident,
                 tabVars, errCnt, member, outVars, loaded>>

Item == job.loc[specIdx]
LinkMode == IF Item.link # NoAddr THEN "EXPLICIT" ELSE "CALCULATE"
LoadMode == IF \/ Item.load = NoAddr /\ Item.link # NoAddr
               \/ Item.load \in Nat
            THEN "EXPLICIT" ELSE "CALCULATE"

ItemSlot == IF Slot(Item.name, "PSECT") # 0 THEN Slot(Item.name, "PSECT")
            ELSE Slot(Item.name, "CLASS")
ItemLink == IF Item.link # NoAddr THEN Item.link
            ELSE AlignUp(linkPt, psectInfo[ItemSlot].align)
ItemLoadRaw == IF Item.load # NoAddr THEN Item.load
               ELSE IF Item.link # NoAddr THEN Item.link
               ELSE AlignUp(loadPt, psectInfo[ItemSlot].align)
ItemLoad == IF Item.load \in Nat THEN Item.load
            ELSE IF Item.load = NoAddr /\ Item.link # NoAddr THEN Item.link
            ELSE AlignUp(loadPt, psectInfo[ItemSlot].align)

AbsError(i) == IF psectInfo[i].abs THEN 1 ELSE 0

\* one item of -p that names a psect
PlaceSpecPsect ==
  LET i == ItemSlot
      p == psectInfo[i]
  IN /\ pc = "spec" /\ specIdx <= Len(job.loc)
     /\ i # 0 /\ p.kind = "PSECT"
     /\ IF p.set \/ Misaligned(ItemLink, p.align) \/ Misaligned(ItemLoad, p.align)
        THEN Fatal
        ELSE /\ psectInfo' = [psectInfo EXCEPT ![i].link = ItemLink,
                                               ![i].load = ItemLoad,
                                               ![i].set = TRUE]
             /\ linkPt' = ItemLink + p.blk
             /\ loadPt' = ItemLoad + p.blk
             /\ errCnt' = errCnt + AbsError(i)
             /\ specIdx' = specIdx + 1
             /\ UNCHANGED <<job, posVars, libTable, ident, sym, nextPsect, newSymCnt,
                            cntUnresolved, idx, member, outVars, histVars>>

\* one item of -p that names a class, and its loop over psectInfo
PlaceSpecClass ==
  LET i == ItemSlot
  IN /\ pc = "spec" /\ specIdx <= Len(job.loc)
     /\ i # 0 /\ psectInfo[i].kind = "CLASS"
     /\ pc' = "class"
     /\ linkPt' = ItemLink /\ loadPt' = ItemLoad
     /\ errCnt' = errCnt + AbsError(i)
     /\ member' = 1
     /\ UNCHANGED <<job, pass, fileIdx, libFileIdx, modIdx, recIdx, libTable, ident,
                    tabVars, specIdx, idx, outVars, histVars>>

PlaceClassMember ==
  LET p    == psectInfo[member]
      link == IF LinkMode = "CALCULATE" THEN AlignUp(linkPt, p.align) ELSE linkPt
      load == IF LoadMode = "CALCULATE" THEN AlignUp(loadPt, p.align) ELSE loadPt
  IN /\ pc = "class" /\ member <= nextPsect
     /\ p.cls = ItemSlot /\ ~p.set
     /\ IF Misaligned(link, p.align) \/ Misaligned(load, p.align)
        THEN Fatal
        ELSE /\ psectInfo' = [psectInfo EXCEPT ![member].link = link,
                                               ![member].load = load,
                                               ![member].set = TRUE]
             /\ linkPt' = IF LinkMode = "CALCULATE" THEN link + p.blk ELSE link
             /\ loadPt' = IF LoadMode = "CALCULATE" THEN load + p.blk ELSE load
             /\ member' = member + 1
             /\ UNCHANGED <<job, posVars, libTable, ident, sym, nextPsect, newSymCnt,
                            cntUnresolved, errCnt, specIdx, idx, outVars, histVars>>

SkipClassMember ==
  /\ pc = "class"
  /\ \/ /\ member <= nextPsect
        /\ psectInfo[member].cls # ItemSlot \/ psectInfo[member].set
        /\ member' = member + 1
        /\ UNCHANGED <<pc, specIdx>>
     \/ /\ member > nextPsect
        /\ pc' = "spec" /\ specIdx' = specIdx + 1 /\ member' = member
  /\ UNCHANGED <<job, pass, fileIdx, libFileIdx, modIdx, recIdx, libTable, ident,
                 tabVars, errCnt, linkPt, loadPt, idx, outVars, histVars>>

SpecUnknown == /\ pc = "spec" /\ specIdx <= Len(job.loc)
               /\ ItemSlot = 0
               /\ Fatal

SpecDone ==
  /\ pc = "spec" /\ specIdx > Len(job.loc)
  /\ pc' = "place"
  /\ UNCHANGED <<job, pass, fileIdx, libFileIdx, modIdx, recIdx, libTable, ident,
                 tabVars, errCnt, layVars, outVars, histVars>>

\* setPsectOrigin: only a local psect moves; a global one not named in -p stays
\* at the 0 it was created with
OriginLink(p) == IF p.glob THEN p.link ELSE AlignUp(linkPt, p.align)
OriginLoad(p) == IF p.glob THEN p.load ELSE AlignUp(loadPt, p.align)
SetOrigin(p)  == [p EXCEPT !.link = OriginLink(p), !.load = OriginLoad(p), !.set = TRUE]
Advance(p) ==
  /\ linkPt' = IF p.glob THEN linkPt ELSE OriginLink(p) + p.blk
  /\ loadPt' = IF p.glob THEN loadPt ELSE OriginLoad(p) + p.blk

TooBig(p) == IF p.max # 0 /\ p.max < p.blk THEN 1 ELSE 0

\* The symbols __L, __H and __B of psect p (entry i), those that nobody defined
LabelsOf(i, p) ==
  IF i = 1 \/ p.kind = "CLASS" \/ ~p.glob THEN {}
  ELSE {<<"L", p.name>>, <<"H", p.name>>}
       \cup (IF p.load # p.link THEN {<<"B", p.name>>} ELSE {})
LabelValue(s, p) == CASE s[1] = "L" -> 0
                      [] s[1] = "H" -> p.blk
                      [] OTHER      -> p.load - p.link

Needed(i, p) == {s \in LabelsOf(i, p) : sym[s].low \in {"none", "EXTERN"}}
Fresh(i, p)  == {s \in Needed(i, p) : ~Known(s)}

\* p is entry i with its final addresses: its labels are defined, and its size
\* goes back to 0 for the next pass
FinishPsect(i, p) ==
  /\ sym' = [s \in Syms |->
               IF s \in Needed(i, p)
               THEN [low |-> "NULL", value |-> LabelValue(s, p), psect |-> i]
               ELSE sym[s]]
  /\ newSymCnt' = newSymCnt + Cardinality(Fresh(i, p))
  /\ cntUnresolved' = cntUnresolved - Cardinality(Needed(i, p) \ Fresh(i, p))
  /\ psectInfo' = [psectInfo EXCEPT ![i] = [p EXCEPT !.blk = 0]]
  /\ errCnt' = errCnt + TooBig(p)
  /\ pc' = "place" /\ idx' = idx + 1 /\ member' = member
  /\ UNCHANGED <<job, pass, fileIdx, libFileIdx, modIdx, recIdx, libTable,
                 ident, nextPsect, specIdx, outVars, histVars>>

LabelRoom(i, p) == newSymCnt + Cardinality(Fresh(i, p)) <= MaxSymbols

\* the loop of finPass1 over psectInfo, with -r: sizes only
PlaceReloc ==
  /\ pc = "place" /\ job.R /\ idx <= nextPsect
  /\ psectInfo' = [psectInfo EXCEPT ![idx].blk = 0]
  /\ errCnt' = errCnt + TooBig(psectInfo[idx])
  /\ idx' = idx + 1
  /\ UNCHANGED <<job, posVars, libTable, ident, sym, nextPsect, newSymCnt,
                 cntUnresolved, linkPt, loadPt, specIdx, member, outVars, histVars>>

\* without -r: a psect that -p left out and that is in no class gets an origin
NeedsOrigin(p) == ~p.set /\ p.cls = 0

Final(p) == IF NeedsOrigin(p) THEN SetOrigin(p) ELSE p

PlacePsect ==
  LET p == psectInfo[idx]
  IN /\ pc = "place" /\ ~job.R /\ idx <= nextPsect
     /\ ~(NeedsOrigin(p) /\ p.kind = "CLASS")
     /\ IF ~LabelRoom(idx, Final(p))
        THEN Fatal
        ELSE /\ FinishPsect(idx, Final(p))
             /\ IF NeedsOrigin(p) THEN Advance(p) ELSE UNCHANGED <<linkPt, loadPt>>

\* a class: the code gives an origin to the psects of the class ps points to,
\* the psectSym of the entry before this one
PlaceClass ==
  /\ pc = "place" /\ ~job.R /\ idx <= nextPsect
  /\ NeedsOrigin(psectInfo[idx]) /\ psectInfo[idx].kind = "CLASS"
  /\ pc' = "stray" /\ member' = 1
  /\ UNCHANGED <<job, pass, fileIdx, libFileIdx, modIdx, recIdx, libTable, ident,
                 tabVars, errCnt, linkPt, loadPt, specIdx, idx, outVars, histVars>>

PlaceStray ==
  LET p == psectInfo[member]
  IN /\ pc = "stray" /\ member <= nextPsect
     /\ IF ~p.set /\ p.cls = idx - 1
        THEN /\ psectInfo' = [psectInfo EXCEPT ![member] = SetOrigin(p)]
             /\ Advance(p)
        ELSE UNCHANGED <<psectInfo, linkPt, loadPt>>
     /\ member' = member + 1
     /\ UNCHANGED <<job, posVars, libTable, ident, sym, nextPsect, newSymCnt,
                    cntUnresolved, errCnt, specIdx, idx, outVars, histVars>>

PlaceClassDone == /\ pc = "stray" /\ member > nextPsect
                  /\ FinishPsect(idx, psectInfo[idx])
                  /\ UNCHANGED <<linkPt, loadPt>>

\* the rest of finPass1: what is still undefined is an error, the values of the
\* others become addresses; main then starts pass 1 or gives up
StartPass2 == /\ pc' = IF errCnt' # 0 THEN "failed" ELSE "open"
              /\ pass' = 1 /\ fileIdx' = 0 /\ libFileIdx' = 0
              /\ UNCHANGED <<job, modIdx, recIdx, libTable, ident, psectInfo, nextPsect,
                             newSymCnt, cntUnresolved, layVars, outVars, histVars>>

UndefinedErrorsNone == 0
UndefinedErrors ==
  IF job.I THEN 0
  ELSE Cardinality(Externs) + (IF cntUnresolved # 0 THEN 1 ELSE 0)

\* a common symbol has no psect: reading its flags is a null dereference
Commons == {s \in Syms : sym[s].low = "COMM"}

RelocateSymbols ==
  /\ pc = "place" /\ ~job.R /\ idx > nextPsect /\ Commons = {}
  /\ errCnt' = errCnt + UndefinedErrors
  /\ sym' = [s \in Syms |->
               IF sym[s].low = "NULL" /\ ~psectInfo[sym[s].psect].abs
               THEN [sym[s] EXCEPT !.value = @ + psectInfo[sym[s].psect].link]
               ELSE sym[s]]
  /\ StartPass2

CommonCrash ==
  /\ pc = "place" /\ ~job.R /\ idx > nextPsect /\ Commons # {}
  /\ pc' = "crash"
  /\ UNCHANGED <<job, pass, fileIdx, libFileIdx, modIdx, recIdx, libTable, ident,
                 tabVars, errCnt, layVars, outVars, histVars>>

KeepRelocatable ==
  /\ pc = "place" /\ job.R /\ idx > nextPsect
  /\ UNCHANGED <<errCnt, sym>>
  /\ StartPass2

-----------------------------------------------------------------------------
(* Pass 1: text is placed and relocated *)

PsectBaseUnbased(i) == IF job.R THEN 0 ELSE psectInfo[i].link
PsectBase(i) == psectInfo[i].blk + (IF job.R THEN 0 ELSE psectInfo[i].link)
TextBlockOverlaid(i) == psectInfo[i].blk
TextBlockInverted(i) == IF psectInfo[i].ovr THEN psectInfo[i].blk ELSE 0
TextBlock(i) == IF psectInfo[i].ovr THEN 0 ELSE psectInfo[i].blk

\* textRecPass2
TextRecPass2 ==
  LET i == Slot(Rec.psect, "PSECT")
      p == psectInfo[i]
      linkAt == Rec.off + TextBlock(i) + (IF job.R THEN 0 ELSE p.link)
      loadAt == Rec.off + TextBlock(i) + (IF job.R THEN 0 ELSE p.load)
  IN /\ Reading(1, "TEXT") /\ i # 0
     /\ psectInfo' = Grown(psectInfo, i, Rec.off + Rec.len)
     /\ text' = [psect |-> i, base |-> linkAt, len |-> Rec.len]
     /\ out' = out \cup {[mod |-> <<fileIdx, modIdx>>, psect |-> i, base |-> linkAt - Rec.off,
                          link |-> linkAt, load |-> loadAt, len |-> Rec.len]}
     /\ NextRec
     /\ UNCHANGED <<job, libTable, ident, sym, nextPsect, newSymCnt, cntUnresolved,
                    errCnt, layVars, entry, fixes, histVars>>

Segment(i) ==
  (psectInfo[i].load - psectInfo[i].link)
    \div (IF psectInfo[i].align = 0 THEN 1 ELSE psectInfo[i].align)

NamesSymbol == Rec.kind \in {"RNAME", "RRNAME", "RSNAME"}

\* -r: a reference to a symbol that pass 0 defined becomes one to its psect
ToPsect == job.R /\ NamesSymbol /\ ~Extern(Rec.name)

\* what relocRecPass2 adds to the field, one call of fixup after the other
Deltas ==
  LET i  == Slot(Rec.name, "PSECT")
      s  == sym[Rec.name]
      at == text.base + Rec.off
  IN CASE job.R /\ NamesSymbol ->
            IF Extern(Rec.name) THEN <<0>>
            ELSE <<s.value - psectInfo[s.psect].blk,
                   IF Rec.kind = "RSNAME" THEN 0 ELSE PsectBase(s.psect)>>
       [] job.R /\ ~NamesSymbol ->
            IF Rec.kind = "RSPSECT" THEN <<0>> ELSE <<PsectBase(i)>>
       [] ~job.R /\ Rec.kind = "RPSECT"  -> <<PsectBase(i)>>
       [] ~job.R /\ Rec.kind = "RRPSECT" -> <<PsectBase(i) - at>>
       [] ~job.R /\ Rec.kind = "RSPSECT" -> <<Segment(i)>>
       [] ~job.R /\ Rec.kind = "RNAME"   -> <<s.value>>
       [] ~job.R /\ Rec.kind = "RRNAME"  -> <<s.value - at>>
       [] ~job.R /\ Rec.kind = "RSNAME"  -> <<Segment(s.psect)>>

\* fixup: the field is read with its sign; a sum that does not fit is an error
\* (the test for a negative sum compares 32 bits with a 64 bit -1 and never holds)
Field       == FieldMax + 1
Signed(v)   == ((v + Field \div 2) % Field) - Field \div 2
Overflow(v) == v \notin 0..FieldMax
OverflowErr(v) == IF Overflow(v) THEN 1 ELSE 0
FixupErrors(add, deltas) ==
  LET first == Signed(add) + deltas[1]
  IN OverflowErr(first)
     + (IF Len(deltas) = 1 THEN 0 ELSE OverflowErr(Signed(first) + deltas[2]))
Resolved(add, deltas) ==
  (add + deltas[1] + (IF Len(deltas) = 1 THEN 0 ELSE deltas[2])) % Field

\* ps->psectSym of a symbol without a psect is followed all the same
NullPsect == /\ NamesSymbol /\ sym[Rec.name].psect = 0
             /\ (Rec.kind = "RSNAME" /\ ~job.R) \/ ToPsect

\* relocRecPass2
RelocRecPass2 ==
  /\ Reading(1, "RELOC")
  /\ NamesSymbol \/ Slot(Rec.name, "PSECT") # 0
  /\ \/ /\ Rec.off >= text.len
        /\ Fatal
     \/ /\ Rec.off < text.len /\ NullPsect
        /\ pc' = "crash"
        /\ UNCHANGED <<job, pass, fileIdx, libFileIdx, modIdx, recIdx, libTable, ident,
                       tabVars, errCnt, layVars, outVars, histVars>>
     \/ /\ Rec.off < text.len /\ ~NullPsect
        /\ fixes' = fixes \cup {[mod |-> <<fileIdx, modIdx>>, kind |-> Rec.kind,
                                 name |-> Rec.name, at |-> text.base + Rec.off,
                                 add |-> Rec.add, field |-> Resolved(Rec.add, Deltas)]}
        /\ errCnt' = errCnt + FixupErrors(Rec.add, Deltas)
        /\ NextRec
        /\ UNCHANGED <<job, libTable, ident, tabVars, layVars, text, entry, out,
                       histVars>>

LocalBase(i) == TextBlock(i) + (IF job.R THEN 0 ELSE psectInfo[i].link)

\* symRecPass2: a local address is written with its final value
SymRecPass2 ==
  LET i == Slot(Rec.psect, "PSECT")
  IN /\ Reading(1, "SYM") /\ Rec.low = "NULL" /\ ~Rec.glob
     /\ i # 0
     /\ fixes' = fixes \cup
          {[mod |-> <<fileIdx, modIdx>>, kind |-> "LOCAL", name |-> Rec.psect, at |-> 0,
            add |-> Rec.val,
            field |-> Rec.val + LocalBase(i)]}
     /\ NextRec
     /\ UNCHANGED <<job, libTable, ident, tabVars, errCnt, layVars, text, entry, out,
                    histVars>>

\* startRecPass2
StartRecPass2 ==
  LET i == Slot(Rec.psect, "PSECT")
  IN /\ Reading(1, "START") /\ i # 0
     /\ errCnt' = IF entry # <<>> THEN errCnt + 1 ELSE errCnt
     /\ entry' = Append(entry, Rec.off + PsectBase(i))
     /\ NextRec
     /\ UNCHANGED <<job, libTable, ident, tabVars, layVars, text, out, fixes, histVars>>

\* finPass2 and the end of main
FinPass2 ==
  /\ pc = "open" /\ pass = 1 /\ fileIdx = Len(job.files)
  /\ pc' = IF errCnt # 0 THEN "failed" ELSE "done"
  /\ UNCHANGED <<job, pass, fileIdx, libFileIdx, modIdx, recIdx, libTable, ident,
                 tabVars, errCnt, layVars, outVars, histVars>>

ExitPoints == {"done", "failed", "crash"}

\* the process has exited
Exited == pc \in ExitPoints /\ UNCHANGED vars

Pass1Rec == \/ IdentRec \/ PsectRec \/ XpsectRec \/ TextRecPass1
            \/ RelocRecPass1 \/ SymExternPass1 \/ SymCommPass1 \/ SymNullPass1
Pass2Rec == \/ TextRecPass2 \/ RelocRecPass2 \/ SymRecPass2 \/ StartRecPass2
ReadStep == \/ OpenFile \/ ScanModule \/ DoModule \/ CloseLibrary \/ NoEndRecord
            \/ Pass1Rec \/ Pass2Rec \/ EndRec \/ SkipRec
LayoutStep == \/ FinPass1 \/ PlaceSpecPsect \/ PlaceSpecClass \/ PlaceClassMember
              \/ SkipClassMember \/ SpecUnknown \/ SpecDone
              \/ PlaceReloc \/ PlacePsect \/ PlaceClass \/ PlaceStray \/ PlaceClassDone
              \/ RelocateSymbols \/ CommonCrash \/ KeepRelocatable

Step == ReadStep \/ LayoutStep \/ FinPass2
Next == Step \/ Exited

Spec == Init /\ [][Next]_vars /\ WF_vars(Step)

-----------------------------------------------------------------------------
(* Properties *)

\* Where the loops of main, visitModules and finPass1 are.
Positions ==
  /\ job \in Jobs
  /\ fileIdx <= Len(job.files)
  /\ pc \in {"scan", "rec"} => fileIdx < Len(job.files)
  /\ pc = "scan" => modIdx <= Len(CurFile.mods)
  /\ pc = "rec" => modIdx < Len(CurFile.mods)
  /\ pc = "class" => specIdx <= Len(job.loc) /\ ItemSlot # 0
  /\ pc = "stray" => idx <= nextPsect

\* An address is relative to a psect in use.
SymPsects == \A s \in Syms : sym[s].low = "NULL" => sym[s].psect \in 1..nextPsect

\* Everything the linker keeps has its type, and indices stay inside the arrays.
TypeOK ==
  /\ job \in Job
  /\ pc \in {"open", "scan", "rec", "spec", "class", "place", "stray"} \cup ExitPoints
  /\ pass \in {0, 1} /\ fileIdx \in Nat /\ libFileIdx \in Nat /\ modIdx \in Nat
  /\ recIdx \in Nat \ {0}
  /\ libTable \subseteq Nat \X Nat
  /\ ident \in Orders \cup {NoOrder}
  /\ sym \in [Syms -> SymEntry]
  /\ psectInfo \in [1..MaxPsects -> PsectEntry]
  /\ nextPsect \in 1..MaxPsects
  /\ newSymCnt \in Nat /\ cntUnresolved \in Int /\ errCnt \in Nat
  /\ linkPt \in Nat /\ loadPt \in Nat
  /\ specIdx \in Nat \ {0} /\ idx \in Nat \ {0} /\ member \in Nat \ {0}
  /\ text \in [psect : Nat, base : Nat, len : Nat]
  /\ entry \in Seq(Nat)

\* addSym and defineSym keep count: newSymCnt is the number of slots of symTab in
\* use and never more than there are, and cntUnresolved, which decides whether
\* the link fails, is the number of symbols that are still external.
TableCounts ==
  /\ newSymCnt = nextPsect + Cardinality(KnownSyms)
  /\ newSymCnt <= MaxSymbols
  /\ cntUnresolved = Cardinality(Externs)

Current == Len(loaded[pass])

\* Pass 1 meets the modules of pass 0 in the same order, and each finds every
\* psect at the size it had before it in pass 0: the addresses that pass 0 gave
\* to the module's symbols are those at which pass 1 puts its text.
PassesAgree ==
  pass = 1 /\ pc = "rec" =>
    /\ Current <= Len(loaded[0])
    /\ loaded[1][Current] = loaded[0][Current]
    /\ \A i \in 1..nextPsect :
         psectInfo[i].blk = IF i \in DOMAIN bases[Current] THEN bases[Current][i] ELSE 0

\* the records of a module, up to END: doObjFile reads no further
ModOf(x) == job.files[x[1] + 1].mods[x[2] + 1]
BodyOf(x) == LET recs == ModOf(x).recs
             IN {n \in 1..Len(recs) : \A m \in 1..n : recs[m].t # "END"}

\* a global symbol of the module that pass 1 reads has the address of the text it labels
SymbolAtText ==
  pass = 1 /\ pc = "rec" =>
    \A r \in BodyOf(<<fileIdx, modIdx>>) :
      LET x == CurMod.recs[r]
          i == Slot(x.psect, "PSECT")
      IN x.t = "SYM" /\ x.low = "NULL" /\ x.glob =>
           sym[x.name].value = x.val + TextBlock(i) + (IF job.R THEN 0 ELSE psectInfo[i].link)

Total(i) == bases[Len(bases)][i]

\* text goes inside its psect as finPass1 laid it out, at the same distance from the
\* psect's link and load addresses
TextInPsect ==
  \A o \in out :
    LET p == psectInfo[o.psect]
        at == IF job.R THEN 0 ELSE p.link
    IN /\ at <= o.link /\ o.link + o.len <= at + Total(o.psect)
       /\ job.R \/ o.load - p.load = o.link - p.link

\* the text of two modules shares no address of a psect, unless the psect is overlaid
NoTextClash ==
  \A o, q \in out :
    o.mod # q.mod /\ o.psect = q.psect /\ ~psectInfo[o.psect].ovr =>
      o.link + o.len <= q.link \/ q.link + q.len <= o.link

\* psects laid out one after the other do not share addresses: with -p giving an
\* address to its first item only, the global ones it names and the local ones
OneRun == \A k \in 2..Len(job.loc) : job.loc[k].link = NoAddr
Placed(i) ==
  /\ i # 1 /\ ~psectInfo[i].kind = "CLASS"
  /\ \/ ~psectInfo[i].glob /\ psectInfo[i].cls = 0
     \/ psectInfo[i].glob /\ \E k \in 1..Len(job.loc) : job.loc[k].name = psectInfo[i].name
PsectsDisjoint ==
  pass = 1 /\ pc # "failed" /\ ~job.R /\ OneRun =>
    \A i, j \in 1..nextPsect :
      i # j /\ Placed(i) /\ Placed(j) =>
        \/ psectInfo[i].link + Total(i) <= psectInfo[j].link
        \/ psectInfo[j].link + Total(j) <= psectInfo[i].link

\* All text goes where finPass1 laid its psect out, each module's at a place of its own,
\* and psects laid out one after the other take up no address twice, whatever -p, the
\* classes, the alignment and the overlaid psects asked for (textRecPass2, finPass1).
TextPlaced == TextInPsect /\ NoTextClash /\ PsectsDisjoint

\* every reference was resolved, to the final address of a symbol
DoneMeansResolved ==
  pc = "done" /\ ~job.I /\ ~job.R =>
    /\ Externs = {}
    /\ \A x \in fixes : x.kind = "RNAME" =>
         sym[x.name].low = "NULL" /\ x.field = sym[x.name].value + Signed(x.add)
    /\ Len(entry) <= 1

\* a field relocated by a psect, or by a psect less its own address, points as far into
\* the text of its module in that psect as the assembler said
RelocFollowsText ==
  \A x \in fixes, o \in out :
    x.mod = o.mod /\ x.name = psectInfo[o.psect].name /\ ~psectInfo[o.psect].ovr =>
      /\ x.kind = "RPSECT" => x.field = (o.base + x.add) % Field
      /\ x.kind = "RRPSECT" /\ ~job.R => x.field = (o.base + x.add - x.at) % Field
      /\ x.kind = "LOCAL" => x.field = o.base + x.add

\* Three handlers decide where a module's part of a psect is, and agree: defineSym's symbols
\* and the base that relocRecPass2 adds are those of the place that textRecPass2 gives the
\* text, also after finPass1 has moved the psects.
AddressesFollowText == SymbolAtText /\ RelocFollowsText

\* the modules linked agree: no symbol is defined by two of them, only one gives an
\* entry point, and all have one byte order
DoneMeansConsistent ==
  pc = "done" =>
    \A j, k \in 1..Len(loaded[0]) : j # k =>
      \A q \in BodyOf(loaded[0][j]), r \in BodyOf(loaded[0][k]) :
        LET x == ModOf(loaded[0][j]).recs[q]
            y == ModOf(loaded[0][k]).recs[r]
        IN x.t = y.t =>
             /\ x.t = "SYM" /\ x.low = "NULL" /\ y.low # "EXTERN" =>
                  ~x.glob \/ x.name # y.name \/ (y.low = "NULL" /\ ~y.glob)
             /\ x.t # "START"
             /\ x.t = "IDENT" => x.order = y.order

\* Exit status 0 means that nothing was missing and nothing was defined twice: the errors
\* of finPass1 and of pass 1, which are counted and passed over, reach the exit status.
DoneMeansGood == DoneMeansResolved /\ DoneMeansConsistent

\* The linker always comes to an end.
Terminates == <>(pc \in ExitPoints)

-----------------------------------------------------------------------------
(* The linker keeps the promise of module LinkAbs. *)

Abstract == INSTANCE LinkAbs WITH
  files   <- job.files,
  mayLack <- job.I \/ job.R,
  open    <- Externs,
  defined <- KnownSyms \ Externs,
  picked  <- loaded[0],
  written <- loaded[1],
  flawed  <- errCnt # 0,
  status  <- CASE pc = "done" -> "ok"
               [] pc \in {"failed", "crash"} -> "failed"
               [] pc \notin ExitPoints /\ pass = 0 -> "picking"
               [] pc \notin ExitPoints /\ pass = 1 -> "writing"

\* Every run of the linker is a run of the abstract link: library modules are read
\* only for symbols open at that moment, a definition is never lost, pass 1 writes
\* exactly the modules of pass 0 in their order, and exit status 0 follows only
\* when no error was counted and nothing stayed undefined.
KeepsPromise == Abstract!Spec
=============================================================================
