-------------------------------- MODULE Libr --------------------------------
(***************************************************************************)
(* The librarian (libr/libr.c): one run after another of                   *)
(* "libr key file.lib modules" over the same directory.                    *)
(*                                                                         *)
(* A library file is a header with the size of the symbol directory and    *)
(* the number of modules, then the directory (an entry and its symbols for *)
(* each module), then the modules.  The model keeps it flat, as a sequence *)
(* of cells read at a file position, because a wrong size makes the code   *)
(* read at the wrong place.  An entry, a symbol and a unit of module text  *)
(* each weigh one cell where the code counts their bytes.                  *)
(*                                                                         *)
(* Replace and delete write the new directory, then the new modules, to    *)
(* libtmp.$$$ in two passes over the old library, and then copy the        *)
(* temporary file over the library.  A run may be interrupted, fail to     *)
(* write, or be killed between any two steps; while it runs somebody may   *)
(* rewrite an object file.                                                 *)
(***************************************************************************)
EXTENDS Integers, FiniteSets, Sequences, SequencesExt

CONSTANTS
  Names,       \* file names of modules
  Fold,        \* the name without regard to case (cmpNames)
  Objects,     \* contents of sound object files
  NoFile,      \* there is no such file
  Directories, \* what the object files of the directory may hold at first
  Versions,    \* what somebody may write to an object file meanwhile
  Commands,    \* the command lines
  Word,        \* first number too large for 16 bits (65536)
  MaxSyms,     \* slots of symbols[] (500)
  MaxEdits,    \* bound on such rewrites
  MaxRuns      \* bound on the runs of libr

Byte(o, i)  == [k |-> "byte", obj |-> o, at |-> i]
Contents(o) == [i \in 1..o.size |-> Byte(o, i)]

\* ident: the byte order of the IDENT record
Object  == [id : STRING, syms : Seq(STRING \X {"local", "public", "common", "extern"}),
            size : Nat \ {0}, ident : {"none", "le", "be"}]
Command == [key : {"r", "d", "x", "m", "s"}, args : Seq(Names)]

ASSUME LibrAssumption ==
  /\ Objects \subseteq Object
  /\ Commands \subseteq Command
  /\ Word \in Nat \ {0} /\ MaxSyms \in Nat /\ MaxEdits \in Nat /\ MaxRuns \in Nat
  /\ Fold \in [Names -> Names]

VARIABLES
  lib, temp,   \* the library, libtmp.$$$
  obj,         \* the object files
  pc,          \* where main is; "idle" between runs
  cmd,         \* the command line
  flags,       \* the arguments with a set moduleFlags
  sizes,       \* moduleSizes
  symSize,     \* size_symbols, read from the header
  left,        \* cntModulesLeft
  dir,         \* position of libraryFp
  content,     \* position of libContentFp
  item,        \* processUnmatched's l1, from 1
  newSymSize, newModuleCnt,
  errNum,      \* err_num
  order,       \* order16, order32; "none" while haveIdent is 0
  tempOpen,    \* tempFp is not 0
  status,      \* exit status of the last run; -1 for one that was killed
  ruined,      \* history: some run ended while it was rewriting the library
  shrunk,      \* history: somebody made an object file shorter
  edits, runs  \* history: rewrites of object files, runs

disk    == <<lib, temp, obj>>
scan    == <<dir, content, left>>
tally   == <<newSymSize, newModuleCnt>>
command == <<cmd, symSize>>
marks   == <<flags, sizes, item, errNum, order>>
history == <<shrunk, edits, runs>>
vars == <<disk, pc, command, scan, tally, marks, tempOpen, status, ruined, history>>

-----------------------------------------------------------------------------
(* Names, cells and object files *)

Args == cmd.args

\* the last argument with this name, 0 if there is none; without arguments every
\* module is meant (lookupName)
Lookup(n) ==
  LET same == {i \in DOMAIN Args : Fold[Args[i]] = Fold[n]} IN
  IF Args = <<>> THEN 1 ELSE IF same = {} THEN 0 ELSE Max(same)

Flagged(n) == flags \cup ({Lookup(n)} \cap DOMAIN Args)

Unmatched == DOMAIN Args \ flags

\* scanModule reads records up to END: what follows is not part of the module
Complete(f) == f # <<>> /\ f[1].k = "byte" /\ IsPrefix(Contents(f[1].obj), f)

Exported(o) == SelectSeq(o.syms, LAMBDA s : s[2] \in {"public", "common", "extern"})

IdentClash(o) == o.ident # "none" /\ order \notin {"none", o.ident}

Scannable(f) ==
  /\ Complete(f)
  /\ ~IdentClash(f[1].obj)
  /\ Len(Exported(f[1].obj)) <= MaxSyms
  /\ f[1].obj.size < Word

Header(s, n) == [k |-> "header", syms |-> s % Word, mods |-> n % Word]

EntryOf(name, o) ==
  [k |-> "entry", name |-> name, syms |-> Len(Exported(o)) % Word, size |-> o.size]

Cell ==
  [k : {"header"}, syms : Nat, mods : Nat]
    \cup [k : {"entry"}, name : Names, syms : Nat, size : Nat]
    \cup [k : {"symbol"}, name : STRING]
    \cup [k : {"byte"}, obj : Objects, at : Nat \ {0}]

SymCells(o) == [i \in DOMAIN Exported(o) |-> [k |-> "symbol", name |-> Exported(o)[i][1]]]

DirCells(name, o) == <<EntryOf(name, o)>> \o SymCells(o)

\* n cells of f from position p, as many as there are
Cells(f, p, n) == SubSeq(f, p, Min({p + n - 1, Len(f)}))

-----------------------------------------------------------------------------
Init ==
  /\ lib = NoFile /\ temp = NoFile /\ obj \in Directories
  /\ pc = "idle" /\ cmd \in {[key |-> "m", args |-> <<>>]}
  /\ symSize = 0 /\ dir = 1 /\ content = 1 /\ left = 0
  /\ newSymSize = 0 /\ newModuleCnt = 0
  /\ flags = {} /\ sizes = <<>> /\ item = 1 /\ errNum = 0 /\ order = "none"
  /\ tempOpen = FALSE /\ status = 0 /\ ruined = FALSE
  /\ shrunk = FALSE /\ edits = 0 /\ runs = 0

\* exit through finish(), which closes and removes the temporary file (closeTemp)
Finish(st) ==
  /\ pc' = "idle" /\ status' = st
  /\ temp' = IF tempOpen THEN NoFile ELSE temp
  /\ tempOpen' = FALSE

Fail(st) == Finish(st) /\ UNCHANGED <<lib, obj, command, scan, tally, marks, ruined, history>>

\* main: the static variables of a new process
Start(c) ==
  /\ pc = "idle" /\ runs < MaxRuns
  /\ pc' = "open" /\ cmd' = c /\ runs' = runs + 1
  /\ flags' = {} /\ sizes' = [i \in DOMAIN c.args |-> 0]
  /\ symSize' = 0 /\ newSymSize' = 0 /\ newModuleCnt' = 0
  /\ item' = 1 /\ errNum' = 0 /\ order' = "none"
  /\ UNCHANGED <<disk, scan, tempOpen, status, ruined, shrunk, edits>>

Rewrites == cmd.key \in {"r", "d"}

\* openLibrary, allocModuleArrays, openContent and openTemp
OpenLibrary ==
  /\ pc = "open"
  /\ IF lib = NoFile /\ cmd.key # "r" THEN Fail(2)
     ELSE IF lib = <<>> \/ (Rewrites /\ Args = <<>>) THEN Fail(6)
     ELSE /\ pc' = "symbols"
          /\ symSize' = IF lib = NoFile THEN 0 ELSE lib[1].syms
          /\ left' = IF lib = NoFile THEN 0 ELSE lib[1].mods
          /\ dir' = 2 /\ content' = 2 + symSize'
          /\ temp' = IF Rewrites THEN <<>> ELSE temp
          /\ tempOpen' = Rewrites
          /\ UNCHANGED <<lib, obj, cmd, tally, marks, status, ruined, history>>

-----------------------------------------------------------------------------
(* visitModules, first pass: one action is one module of the library *)

Entry == lib[dir]

\* the position of libraryFp is in the library, and on an entry
Visiting(p) == pc = p /\ left > 0 /\ dir \in DOMAIN lib /\ Entry.k = "entry"

\* the library is shorter than its header or its sizes say (unexp_eof), or what is
\* read as an entry is something else and the run goes anywhere
OffTheEnd ==
  /\ pc \in {"symbols", "modules"} /\ left > 0
  /\ \/ dir \notin DOMAIN lib /\ Fail(6)
     \/ /\ dir \in DOMAIN lib /\ Entry.k # "entry"
        /\ pc' = "stray"
        /\ UNCHANGED <<disk, command, scan, tally, marks, tempOpen, status, ruined, history>>

\* to the next module, past its symbols and its text
Advance ==
  /\ left' = left - 1
  /\ dir' = dir + 1 + Entry.syms
  /\ content' = content + Entry.size

CopyNewSymbolsUncounted(name, id) ==
  LET f == obj[name]
      o == f[1].obj
  IN /\ f # NoFile /\ Scannable(f)
     /\ sizes' = [sizes EXCEPT ![id] = o.size]
     /\ order' = IF order = "none" THEN o.ident ELSE order
     /\ temp' = temp \o DirCells(name, o)
     /\ newSymSize' = newSymSize + Len(Exported(o))
     /\ newModuleCnt' = newModuleCnt + 1
     /\ UNCHANGED <<lib, obj, command, errNum, tempOpen, status, ruined, history>>

\* copyNewSymbols with scanModule
CopyNewSymbols(name, id) ==
  LET f == obj[name]
      o == f[1].obj
  IN /\ f # NoFile /\ Scannable(f)
     /\ sizes' = [sizes EXCEPT ![id] = o.size]
     /\ order' = IF order = "none" THEN o.ident ELSE order
     /\ temp' = temp \o DirCells(name, o)
     /\ newSymSize' = newSymSize + 1 + Len(Exported(o))
     /\ newModuleCnt' = newModuleCnt + 1
     /\ UNCHANGED <<lib, obj, command, errNum, tempOpen, status, ruined, history>>

CannotScan(name) ==
  \/ obj[name] = NoFile /\ Fail(2)
  \/ obj[name] # NoFile /\ ~Scannable(obj[name]) /\ Fail(6)

\* copySymbolsToTemp
CopySymbols ==
  /\ Visiting("symbols") /\ Rewrites /\ Lookup(Entry.name) = 0
  /\ IF dir + Entry.syms > Len(lib) THEN Fail(6)
     ELSE /\ temp' = temp \o SubSeq(lib, dir, dir + Entry.syms)
          /\ newSymSize' = newSymSize + 1 + Entry.syms
          /\ newModuleCnt' = newModuleCnt + 1
          /\ Advance
          /\ UNCHANGED <<lib, obj, pc, command, marks, tempOpen, status, ruined, history>>

\* copyMatchedSymbols: the file read is the one the library names
ReplaceSymbols ==
  /\ Visiting("symbols") /\ cmd.key = "r" /\ Lookup(Entry.name) # 0
  /\ \/ /\ CopyNewSymbols(Entry.name, Lookup(Entry.name))
        /\ flags' = Flagged(Entry.name)
        /\ Advance
        /\ UNCHANGED <<pc, item>>
     \/ CannotScan(Entry.name)

\* copyUnchangedSymbols of a module to delete; listOneModule, printObjAndSymbols and
\* extractNamedModule of a module not asked for
PassModule ==
  /\ Visiting("symbols")
  /\ CASE cmd.key = "d" -> Lookup(Entry.name) # 0
       [] cmd.key = "r" -> FALSE
       [] OTHER         -> cmd.key = "m" \/ Lookup(Entry.name) = 0
  /\ flags' = Flagged(Entry.name)
  /\ Advance
  /\ UNCHANGED <<disk, pc, command, tally, sizes, item, errNum, order, tempOpen,
                 status, ruined, history>>

\* printObjAndSymbols reads the symbols of the module
ListSymbols ==
  /\ Visiting("symbols") /\ cmd.key = "s" /\ Lookup(Entry.name) # 0
  /\ IF dir + Entry.syms > Len(lib) THEN Fail(6)
     ELSE /\ flags' = Flagged(Entry.name)
          /\ Advance
          /\ UNCHANGED <<disk, pc, command, tally, sizes, item, errNum, order, tempOpen,
                         status, ruined, history>>

\* extractOneModule; when the text ends early, or cannot be written, the file keeps
\* what was copied
Extract ==
  LET text == Cells(lib, content, Entry.size) IN
  /\ Visiting("symbols") /\ cmd.key = "x" /\ Lookup(Entry.name) # 0
  /\ \/ /\ Len(text) = Entry.size
        /\ obj' = [obj EXCEPT ![Entry.name] = text]
        /\ flags' = Flagged(Entry.name)
        /\ Advance
        /\ UNCHANGED <<lib, temp, pc, command, tally, sizes, item, errNum, order, tempOpen,
                       status, ruined, history>>
     \/ \E n \in 0..(Entry.size - 1) :
          /\ obj' = [obj EXCEPT ![Entry.name] = Cells(text, 1, n)]
          /\ Finish(6)
          /\ UNCHANGED <<lib, command, scan, tally, marks, ruined, history>>

\* the end of the first pass, and noModule for every argument not met; -m does not ask
EndSymbols ==
  /\ pc = "symbols" /\ left = 0
  /\ errNum' = IF cmd.key \in {"d", "x", "s"} THEN Cardinality(Unmatched) ELSE errNum
  /\ IF Rewrites
     THEN /\ pc' = (IF cmd.key = "r" THEN "newSymbols" ELSE "rewind")
          /\ UNCHANGED <<temp, tempOpen, status>>
     ELSE Finish(IF errNum' # 0 THEN 1 ELSE 0)
  /\ UNCHANGED <<lib, obj, command, scan, tally, flags, sizes, item, order, ruined, history>>

\* an iteration of processUnmatched's loop
NextItem == item' = item + 1 /\ UNCHANGED flags

\* replaceModule: processUnmatched(copyNewSymbols), the arguments the library lacks
NewSymbols ==
  /\ pc = "newSymbols" /\ item \in Unmatched
  /\ \/ /\ CopyNewSymbols(Args[item], item)
        /\ NextItem
        /\ UNCHANGED <<pc, scan>>
     \/ CannotScan(Args[item])

RewindAnyway ==
  /\ pc = "rewind"
  /\ pc' = "modules"
  /\ left' = IF lib = NoFile THEN 0 ELSE lib[1].mods
  /\ dir' = 2 /\ content' = 2 + symSize
  /\ UNCHANGED <<disk, command, tally, marks, tempOpen, status, ruined, history>>

\* rewindLibrary
Rewind ==
  /\ pc = "rewind"
  /\ IF errNum # 0 THEN Fail(5)
     ELSE /\ pc' = "modules"
          /\ left' = IF lib = NoFile THEN 0 ELSE lib[1].mods
          /\ dir' = 2 /\ content' = 2 + symSize
          /\ UNCHANGED <<disk, command, tally, marks, tempOpen, status, ruined, history>>

-----------------------------------------------------------------------------
(* The second pass *)

Written == UNCHANGED <<lib, obj, command, tally, sizes, errNum, order, tempOpen, status,
                       ruined, history>>

CopyNewModuleWhole(name, id) ==
  /\ obj[name] # NoFile
  /\ temp' = temp \o obj[name]
  /\ Written

\* copyNewModule: at most as many bytes as were scanned, and fewer without complaint
CopyNewModule(name, id) ==
  /\ obj[name] # NoFile
  /\ temp' = temp \o Cells(obj[name], 1, sizes[id])
  /\ Written

CannotRead(name) == obj[name] = NoFile /\ Fail(2)

\* copyModuleToTemp
CopyModule ==
  /\ Visiting("modules") /\ Lookup(Entry.name) = 0
  /\ IF content + Entry.size - 1 > Len(lib) THEN Fail(6)
     ELSE /\ temp' = temp \o Cells(lib, content, Entry.size)
          /\ Advance
          /\ Written /\ UNCHANGED <<pc, flags, item>>

\* copyMatchedModules
ReplaceModule ==
  /\ Visiting("modules") /\ cmd.key = "r" /\ Lookup(Entry.name) # 0
  /\ \/ /\ CopyNewModule(Entry.name, Lookup(Entry.name))
        /\ flags' = Flagged(Entry.name)
        /\ Advance
        /\ UNCHANGED <<pc, item>>
     \/ CannotRead(Entry.name)

\* copyUnchangedModules of a module to delete
DropModule ==
  /\ Visiting("modules") /\ cmd.key = "d" /\ Lookup(Entry.name) # 0
  /\ flags' = Flagged(Entry.name)
  /\ Advance
  /\ Written /\ UNCHANGED <<pc, temp, item>>

EndModules ==
  /\ pc = "modules" /\ left = 0
  /\ pc' = IF cmd.key = "r" THEN "newModules" ELSE "commit"
  /\ item' = 1
  /\ Written /\ UNCHANGED <<temp, scan, flags>>

\* replaceModule: processUnmatched(copyNewModule)
NewModules ==
  /\ pc = "newModules" /\ item \in Unmatched
  /\ \/ /\ CopyNewModule(Args[item], item)
        /\ NextItem
        /\ UNCHANGED <<pc, scan>>
     \/ CannotRead(Args[item])

SkipItemStays ==
  /\ pc \in {"newSymbols", "newModules"} /\ item \notin Unmatched
  /\ item > Len(Args)
  /\ pc' = IF pc = "newSymbols" THEN "rewind" ELSE "commit"
  /\ Written /\ UNCHANGED <<temp, scan, flags, item>>

SkipItemTooFar ==
  /\ pc \in {"newSymbols", "newModules"} /\ item \notin Unmatched
  /\ IF item <= Len(Args) + 1 THEN NextItem /\ UNCHANGED pc
     ELSE /\ pc' = (IF pc = "newSymbols" THEN "rewind" ELSE "commit")
          /\ UNCHANGED <<flags, item>>
  /\ Written /\ UNCHANGED <<temp, scan>>

\* an argument with its flag set, and the end of processUnmatched
SkipItem ==
  /\ pc \in {"newSymbols", "newModules"} /\ item \notin Unmatched
  /\ IF item <= Len(Args) THEN NextItem /\ UNCHANGED pc
     ELSE /\ pc' = (IF pc = "newSymbols" THEN "rewind" ELSE "commit")
          /\ UNCHANGED <<flags, item>>
  /\ Written /\ UNCHANGED <<temp, scan>>

-----------------------------------------------------------------------------
(* commitNewLibrary *)

NewLibrary == <<Header(newSymSize, newModuleCnt)>> \o temp

\* opening the library for output truncates it
Truncate ==
  /\ pc = "commit"
  /\ pc' = "copy" /\ lib' = <<>>
  /\ UNCHANGED <<temp, obj, command, scan, tally, marks, tempOpen, status, ruined, history>>

CopyBack ==
  /\ pc = "copy" /\ lib # NewLibrary
  /\ lib' = Append(lib, NewLibrary[Len(lib) + 1])
  /\ UNCHANGED <<temp, obj, pc, command, scan, tally, marks, tempOpen, status, ruined, history>>

\* fclose(libraryFp) writes the last buffer; whether it could is not looked at
CloseLibrary ==
  /\ pc = "copy" /\ lib = NewLibrary
  /\ \/ UNCHANGED <<lib, ruined>>
     \/ lib' = Front(lib) /\ ruined' = TRUE
  /\ Finish(0)
  /\ UNCHANGED <<obj, command, scan, tally, marks, history>>

-----------------------------------------------------------------------------
(* The environment *)

\* SIGINT (sigintHandler: 4), or a write, seek or open that fails (6)
Abort(st) ==
  /\ pc # "idle"
  /\ Finish(st)
  /\ ruined' = (ruined \/ pc = "copy")
  /\ UNCHANGED <<lib, obj, command, scan, tally, marks, history>>

\* the process is killed: nothing is closed or removed
Kill ==
  /\ pc # "idle"
  /\ pc' = "idle" /\ status' = -1 /\ tempOpen' = FALSE
  /\ ruined' = (ruined \/ pc = "copy")
  /\ UNCHANGED <<disk, command, scan, tally, marks, history>>

Shorter(f, g) == f # NoFile /\ g # NoFile /\ Len(f) < Len(g)

\* somebody rewrites an object file
Edit(n) ==
  /\ edits < MaxEdits
  /\ edits' = edits + 1
  /\ \E f \in Versions :
       /\ obj' = [obj EXCEPT ![n] = f]
       /\ shrunk' = (shrunk \/ Shorter(f, obj[n]))
  /\ UNCHANGED <<lib, temp, pc, command, scan, tally, marks, tempOpen, status, ruined, runs>>

\* the end of the sequence of runs, or of what the model says of a run
Rest ==
  /\ (pc = "idle" /\ runs = MaxRuns) \/ pc = "stray"
  /\ UNCHANGED vars

Step ==
  \/ OpenLibrary \/ OffTheEnd
  \/ CopySymbols \/ ReplaceSymbols \/ PassModule \/ ListSymbols \/ Extract \/ EndSymbols
  \/ NewSymbols \/ SkipItem \/ Rewind
  \/ CopyModule \/ ReplaceModule \/ DropModule \/ EndModules \/ NewModules
  \/ Truncate \/ CopyBack \/ CloseLibrary

Next ==
  \/ \E c \in Commands : Start(c)
  \/ Step
  \/ \E st \in {4, 6} : Abort(st)
  \/ Kill
  \/ \E n \in Names : Edit(n)
  \/ Rest

\* one sequential process
Spec == Init /\ [][Next]_vars /\ WF_vars(Step)

-----------------------------------------------------------------------------
(* What a library holds *)

\* positions of the entry and of the text of each module
EntryPos(l) ==
  LET pos[i \in 1..l[1].mods] == IF i = 1 THEN 2 ELSE pos[i - 1] + 1 + l[pos[i - 1]].syms
  IN pos

TextPos(l) ==
  LET pos[i \in 1..l[1].mods] ==
        IF i = 1 THEN 2 + l[1].syms ELSE pos[i - 1] + l[EntryPos(l)[i - 1]].size
  IN pos

\* the modules as the linker and the next run of libr find them
Held(l) ==
  IF l = NoFile THEN <<>>
  ELSE [i \in 1..l[1].mods |->
         LET e == EntryPos(l)[i] IN
         [name |-> l[e].name,
          syms |-> SubSeq(l, e + 1, e + l[e].syms),
          text |-> SubSeq(l, TextPos(l)[i], TextPos(l)[i] + l[e].size - 1)]]

TypeOK ==
  /\ DOMAIN obj = Names
  /\ \A f \in {lib, temp} \cup {obj[n] : n \in Names} : f # NoFile => f \in Seq(Cell)
  /\ pc \in {"idle", "open", "symbols", "newSymbols", "rewind", "modules", "newModules",
              "commit", "copy", "stray"}
  /\ cmd \in Command /\ flags \subseteq DOMAIN Args /\ DOMAIN sizes = DOMAIN Args
  /\ \A i \in DOMAIN sizes : sizes[i] \in 0..(Word - 1)
  /\ {symSize, left, newSymSize, newModuleCnt, errNum, edits, runs} \subseteq Nat
  /\ {dir, content} \subseteq Nat \ {0} /\ item \in 1..(Len(Args) + 1)
  /\ order \in {"none", "le", "be"} /\ {tempOpen, ruined, shrunk} \subseteq BOOLEAN
  /\ status \in {-1, 0, 1, 2, 4, 5, 6}

Intact == pc # "copy" /\ ~ruined /\ lib # NoFile

\* Between runs the header and the entries of the library tell exactly where every
\* module is: a module's text is the whole text of one object file, the text of the
\* last module ends where the file ends.  Holds also when object files are rewritten
\* between the two passes, as long as they do not get shorter than they were.
Aligned ==
  Intact /\ ~shrunk =>
    LET h == Held(lib) IN
    /\ lib[1].syms = Len(SelectSeq(lib, LAMBDA c : c.k \in {"entry", "symbol"}))
    /\ \A i \in DOMAIN h :
         /\ \A j \in DOMAIN h[i].text : h[i].text[j].k = "byte" /\ h[i].text[j].at = j
         /\ \A j \in DOMAIN h[i].syms : h[i].syms[j].k = "symbol"
    /\ IF h = <<>> THEN Len(lib) = 1
       ELSE Len(lib) = TextPos(lib)[Len(h)] + Len(Last(h).text) - 1

\* Every run of libr ends, also one over a library with modules shorter than the
\* directory says.
Terminates == []<>(pc \in {"idle", "stray"})

-----------------------------------------------------------------------------
(* The librarian keeps the promise of module LibrAbs. *)

MadeFrom(n, f) ==
  [name |-> n, syms |-> SymCells(f[1].obj), text |-> Contents(f[1].obj)]

Abstract == INSTANCE LibrAbs WITH
  ModuleOf <- MadeFrom,
  mods     <- IF Intact THEN Held(lib) ELSE <<>>,
  next     <- IF pc = "copy" /\ ~ruined THEN Held(NewLibrary) ELSE <<>>,
  files    <- obj,
  job      <- cmd,
  phase    <- CASE ruined -> "lost"
                [] pc = "copy" -> "rewriting"
                [] pc = "idle" -> "idle"
                [] OTHER -> "working",
  ok       <- status = 0

\* Every sequence of runs of the librarian is one of the abstract library: until the new
\* directory and all modules are in the temporary file the library on disk is the old
\* one, whatever fails; what is then installed is the old library with exactly the
\* modules of the command line replaced, added or deleted; a run that deletes, extracts
\* or lists symbols and succeeds found every module it was asked for.
KeepsPromise == Abstract!Spec
=============================================================================
