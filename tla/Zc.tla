--------------------------------- MODULE Zc ---------------------------------
(***************************************************************************)
(* The compiler driver (zc/zc.c): main reads the options, setTarget picks  *)
(* start-up file, libraries and flags, and doit runs cpp, p1, cgen, optim  *)
(* and zas over each source through three temporary files, then link,      *)
(* objtohex and cref.                                                      *)
(*                                                                         *)
(* A file's content says what it is and which source it was made from, so  *)
(* that a stale, missing or mixed up file can be told from the right one.  *)
(* The programs that zc runs are external: each writes its output and      *)
(* exits with 0 only when its input is of the kind it reads, and may fail  *)
(* at any time, leaving its output alone or spoilt.  Options that only     *)
(* pass through to a program (-I, -D, -U, -F, -M, -X, -V) are left out.    *)
(***************************************************************************)
EXTENDS Integers, Sequences, SequencesExt, FiniteSetsExt

CONSTANTS
  Commands,   \* the command lines: sequences of Arg
  Disks       \* what the files may hold when zc starts

\* names of files; ext is the part that newStr replaces, "" for none
Name == [dir : STRING, base : STRING, ext : STRING]
File(dir, base, ext) == [dir |-> dir, base |-> base, ext |-> ext]
\* newStr(NULL, fname(s), ext): in the current directory
Here(s, ext)  == File("", s.base, ext)
WithExt(s, ext) == [s EXCEPT !.ext = ext]

\* the temporary files, _pid_.ct1 and so on
Tmp(ext)  == File("tmp", "_pid_", ext)
tmpf1     == Tmp("ct1")
tmpf2     == Tmp("ct2")
tmpf3     == Tmp("ct3")
l_dot_obj == Tmp("obj")
crtmp     == Tmp("xin")

Lib(n) == File("lib80", n, "lib")   \* its prefix is left out
Crt(n) == File("lib80", n, "obj")

\* the cpus of -Z; the targets in their order, without those for getargs first
Target(name, cpu, crt, clib, ext, hex) ==
  [name |-> name, cpu |-> cpu, crt |-> Crt(crt), clib |-> clib, ext |-> ext, hex |-> hex]
targets ==
  << Target("CPM",  "z280", "c280cpm",  "280c",  "com", FALSE),
     Target("CPM",  "z80",  "crtcpm",   "c",     "com", FALSE),
     Target("CPM2", "z80",  "zcrtcpm",  "corig", "com", FALSE),
     Target("CPM",  "z280", "n280cpm",  "280c",  "com", FALSE),
     Target("CPM",  "z80",  "nrtcpm",   "c",     "com", FALSE),
     Target("CPM2", "z80",  "zcrtcpm",  "corig", "com", FALSE),
     Target("UZI",  "z80",  "crtuzi",   "cuzi",  "",    FALSE),
     Target("TOP",  "z280", "r280cpm",  "280c",  "com", TRUE),
     Target("TOP",  "z80",  "rrtcpm",   "c",     "com", TRUE) >>
NWILD == 3

\* the options that only set a flag
Flags == {"S", "C", "1", "E", "EM", "R", "K", "O", "ASMLIST"}
Arg == [o : {"file", "Oname"}, val : Name] \cup [o : {"flag"}, val : Flags]
         \cup [o : {"A", "Z", "L", "CR"}, val : STRING] \cup [o : {"H"}]

\* less than the 60 entries of each of its lists, so that also link's 120 are enough
ASSUME ZcAssumption ==
  /\ \A c \in Commands : c \in Seq(Arg) /\ Len(c) < 40
  /\ \A d \in Disks : DOMAIN d \subseteq Name

\* what names are made of here are strings (the provers have to be told)
ASSUME Literals ==
  {"", "tmp", "_pid_", "lib80", ".deps", "ct1", "ct2", "ct3", "xin", "i", "p1", "as", "obj", "d",
   "com", "lib", "none", "z80", "TOP", "c", "corig", "cuzi", "280c", "c280cpm", "crtcpm",
   "zcrtcpm", "n280cpm", "nrtcpm", "crtuzi", "r280cpm", "rrtcpm"} \subseteq STRING

VARIABLES
  argv, argi,   \* the command line and the argument main looks at
  pc,           \* where main or doit is
  flags,        \* the flags that are set
  target, processor, \* -A and -Z; "" and "z80" when not given
  objs, libs, c_as, nfiles, single, outfile, xrname,
  build,        \* the entry of targets that setTarget picked, 0 before
  src,          \* doit's i, from 1
  nerrs,
  fs,           \* the files: what each name holds
  start         \* history: the files when zc started

list == <<objs, libs, c_as, nfiles, single>>
opts == <<argv, flags, target, processor, xrname>>
vars == <<opts, argi, pc, list, outfile, build, src, nerrs, fs, start>>

None == File("", "", "")
Set(f) == f \in flags
keepi == Set("E") \/ Set("EM")
genDeps == Set("EM")
keepas == Set("S")
keepp1 == Set("1")
keep == Set("C")
optimize == Set("O")
asmlst == Set("ASMLIST")
dryRun == Set("K")
xref == xrname # "none"

-----------------------------------------------------------------------------
(* Files and the programs *)

Content(kind, of) == [kind |-> kind, of |-> of]
Junk == Content("junk", <<>>)

Exists(f) == f \in DOMAIN fs
Holds(f, kind) == Exists(f) /\ fs[f].kind = kind

Put(files, f, c) == [n \in DOMAIN files \cup {f} |-> IF n = f THEN c ELSE files[n]]
\* rm: unlink, unless this is a dry run
Rm(files, gone) == IF dryRun THEN files ELSE [n \in DOMAIN files \ gone |-> files[n]]

\* What doexec may return and leave behind, for a program that reads what is `good`
\* and then writes made to out.  (fork does not fail.)
Run(good, out, made) ==
  IF dryRun THEN {[ok |-> TRUE, files |-> fs]}
  ELSE (IF good THEN {[ok |-> TRUE, files |-> Put(fs, out, made)]} ELSE {})
       \cup [ok : {FALSE}, files : {fs, Put(fs, out, Junk)}]

\* doexec: r is what it returns; whoever calls it goes on at next
DoexecUncounted(r, next) ==
  /\ nerrs' = nerrs
  /\ pc' = next
  /\ UNCHANGED <<opts, argi, list, outfile, build, start>>
Doexec(r, next) ==
  /\ nerrs' = IF r.ok THEN nerrs ELSE nerrs + 1
  /\ pc' = next
  /\ UNCHANGED <<opts, argi, list, outfile, build, start>>

-----------------------------------------------------------------------------
Init ==
  /\ argv \in Commands /\ argi = 1 /\ pc = "args"
  /\ flags = {} /\ target = "" /\ processor = "z80" /\ xrname = "none"
  /\ objs = <<None>> /\ libs = <<>> /\ c_as = <<>> /\ nfiles = 0 /\ single = None
  /\ outfile = None
  /\ build = 0 /\ src = 1 /\ nerrs = 0
  /\ fs \in Disks /\ start = fs

\* main's loop over argv
NextArgButOne == /\ argi' = argi + 2
                 /\ UNCHANGED <<argv, pc, build, src, nerrs, fs, start>>
NextArg == /\ argi' = argi + 1
           /\ UNCHANGED <<argv, pc, build, src, nerrs, fs, start>>
Arguing(os) == pc = "args" /\ argi <= Len(argv) /\ argv[argi].o \in os
val == argv[argi].val

Option ==
  /\ Arguing({"flag", "Z"})
  /\ flags' = IF argv[argi].o = "flag" THEN flags \cup {val} ELSE flags
  /\ processor' = IF argv[argi].o = "Z" THEN val ELSE processor
  /\ NextArg
  /\ UNCHANGED <<target, xrname, list, outfile>>

\* of these the first one counts; -A alone is -ATOP
FirstOption ==
  /\ Arguing({"A", "CR", "Oname"})
  /\ target' = IF argv[argi].o = "A" /\ target = ""
               THEN IF val = "" THEN "TOP" ELSE val
               ELSE target
  /\ xrname' = IF argv[argi].o = "CR" /\ ~xref THEN val ELSE xrname
  /\ outfile' = IF argv[argi].o = "Oname" /\ outfile = None THEN val ELSE outfile
  /\ NextArg
  /\ UNCHANGED <<flags, processor, list>>

LibOption ==
  /\ Arguing({"L"})
  /\ libs' = Append(libs, Lib(val))
  /\ NextArg
  /\ UNCHANGED <<flags, target, processor, xrname, objs, c_as, nfiles, single, outfile>>

IsSource(f) == f.ext \in {"c", "as"}

FileArg ==
  /\ Arguing({"file"})
  /\ nfiles' = nfiles + 1
  /\ IF IsSource(val)
     THEN /\ c_as' = Append(c_as, val)
          /\ single' = Here(val, "obj")
          /\ objs' = Append(objs, single')
     ELSE objs' = Append(objs, val) /\ UNCHANGED <<c_as, single>>
  /\ NextArg
  /\ UNCHANGED <<flags, target, processor, xrname, libs, outfile>>

\* error() and usage()
Quit == /\ pc' = "exit" /\ nerrs' = 1
        /\ UNCHANGED <<opts, argi, list, outfile, build, src, fs, start>>
Help == Arguing({"H"}) /\ Quit

Matches(i) == /\ targets[i].name = (IF target = "" THEN "CPM" ELSE target)
              /\ targets[i].cpu \in {"z80", processor}
From == IF Set("R") THEN 1 ELSE NWILD + 1
Found == {i \in From..Len(targets) : Matches(i)}

\* setTarget
SetTarget ==
  /\ pc = "args" /\ argi > Len(argv)
  /\ IF Found = {} THEN Quit
     ELSE /\ build' = Min(Found)
          /\ objs' = [objs EXCEPT ![1] = targets[build'].crt]
          /\ libs' = Append(libs, Lib(targets[build'].clib))
          /\ pc' = "source"
          /\ fs' = IF xref THEN Put(fs, crtmp, Content("crf", <<>>)) ELSE fs
          /\ UNCHANGED <<opts, argi, c_as, nfiles, single, outfile, src, nerrs, start>>

-----------------------------------------------------------------------------
(* doit's loop over the sources *)

s == c_as[src]
NextSource == src' = src + 1

DispatchStays ==
  /\ pc = "source" /\ src <= Len(c_as)
  /\ IF s.ext = "c" THEN pc' = "cpp" /\ UNCHANGED src
     ELSE IF keepi \/ keepp1 \/ keepas THEN UNCHANGED <<src, pc>>
     ELSE pc' = "asm" /\ UNCHANGED src
  /\ UNCHANGED <<opts, argi, list, outfile, build, nerrs, fs, start>>

Dispatch ==
  /\ pc = "source" /\ src <= Len(c_as)
  /\ IF s.ext = "c" THEN pc' = "cpp" /\ UNCHANGED src
     ELSE IF keepi \/ keepp1 \/ keepas THEN NextSource /\ UNCHANGED pc
     ELSE pc' = "asm" /\ UNCHANGED src
  /\ UNCHANGED <<opts, argi, list, outfile, build, nerrs, fs, start>>

StageGoesOn(r, last, next) ==
  /\ fs' = r.files
  /\ Doexec(r, IF last THEN "source" ELSE next)
  /\ IF ~last THEN UNCHANGED src ELSE NextSource

\* Each stage of compile: with an error, or when its output is to be kept, the next
\* source follows
Stage(r, last, next) ==
  /\ fs' = r.files
  /\ Doexec(r, IF r.ok /\ ~last THEN next ELSE "source")
  /\ IF r.ok /\ ~last THEN UNCHANGED src ELSE NextSource

\* cpp's arguments that are no options: what it reads, what it writes.  tmpbuf still
\* holds the library that addlib named last.
CppArgs == (IF genDeps THEN <<Last(libs)>> ELSE <<>>)
             \o <<s, IF genDeps THEN File(".deps", s.base, "d")
                     ELSE IF keepi THEN WithExt(s, "i") ELSE tmpf1>>

Cpp ==
  /\ pc = "cpp"
  /\ \E r \in Run(Exists(CppArgs[1]), CppArgs[2],
                  Content(IF genDeps THEN "deps" ELSE "i", CppArgs[1])) :
       Stage(r, keepi, "p1")

\* p1 -C adds the source to the cross reference
Pass1 ==
  LET crossed(files) ==
        IF xref /\ ~dryRun /\ crtmp \in DOMAIN files
        THEN [files EXCEPT ![crtmp].of = Append(@, s)] ELSE files
  IN /\ pc = "p1"
     /\ \E r \in Run(Holds(tmpf1, "i") /\ fs[tmpf1].of.ext = "c",
                     IF keepp1 THEN Here(s, "p1") ELSE tmpf2,
                     Content("p1", fs[tmpf1].of)) :
          Stage([r EXCEPT !.files = crossed(@)], keepp1, "cgen")

CgenOut == IF (asmlst \/ keepas) /\ ~optimize THEN Here(s, "as") ELSE tmpf1
Cgen ==
  /\ pc = "cgen"
  /\ \E r \in Run(Holds(tmpf2, "p1"), CgenOut, Content("as", fs[tmpf2].of)) :
       Stage(r, keepas /\ ~optimize, IF optimize THEN "optim" ELSE "zas")

OptimOutTmp == IF asmlst THEN Here(s, "as") ELSE tmpf2
OptimOut == IF asmlst \/ keepas THEN Here(s, "as") ELSE tmpf2
Optim ==
  /\ pc = "optim"
  /\ \E r \in Run(Holds(tmpf1, "as"), OptimOut, Content("opt", fs[tmpf1].of)) :
       Stage(r, keepas, "zas")

IsAsm(f) == Exists(f) /\ fs[f].kind \in {"as", "opt"}
Assembled(f) == Content(IF fs[f].kind = "opt" THEN "objopt" ELSE "obj", fs[f].of)

\* the last stage; with a listing its input is removed
ZasIn == IF optimize THEN OptimOut ELSE tmpf1
Zas ==
  /\ pc = "zas"
  /\ \E r \in Run(IsAsm(ZasIn), Here(s, "obj"), Assembled(ZasIn)) :
       Stage([r EXCEPT !.files = IF asmlst THEN Rm(@, {ZasIn}) ELSE @], TRUE, "source")

\* assemble
Assemble ==
  /\ pc = "asm"
  /\ \E r \in Run(IsAsm(s), Here(s, "obj"), Assembled(s)) : Stage(r, TRUE, "source")

CleanupStale ==
  /\ pc = "source" /\ src > Len(c_as)
  /\ fs' = Rm(fs, {tmpf1, tmpf2, tmpf3})
  /\ pc' = IF keepi \/ keepas \/ keepp1 THEN "exit"
           ELSE IF keep THEN "xref" ELSE "link"
  /\ UNCHANGED <<opts, argi, list, outfile, build, src, nerrs, start>>

CleanupKeeps ==
  /\ pc = "source" /\ src > Len(c_as)
  /\ fs' = IF keepi \/ keepas \/ keepp1 THEN fs ELSE Rm(fs, {tmpf1, tmpf2, tmpf3})
  /\ pc' = IF keepi \/ keepas \/ keepp1 THEN "exit"
           ELSE IF keep \/ nerrs # 0 THEN "xref" ELSE "link"
  /\ UNCHANGED <<opts, argi, list, outfile, build, src, nerrs, start>>

\* after the loop
Cleanup ==
  /\ pc = "source" /\ src > Len(c_as)
  /\ fs' = Rm(fs, {tmpf1, tmpf2, tmpf3})
  /\ pc' = IF keepi \/ keepas \/ keepp1 THEN "exit"
           ELSE IF keep \/ nerrs # 0 THEN "xref" ELSE "link"
  /\ UNCHANGED <<opts, argi, list, outfile, build, src, nerrs, start>>

-----------------------------------------------------------------------------
(* link, objtohex, cref *)

hex == targets[build].hex
Output == IF outfile # None THEN outfile
          ELSE IF Len(objs) = 1 THEN File("", "", targets[build].ext)
          ELSE WithExt(objs[2], targets[build].ext)

LinkOutput == IF hex THEN l_dot_obj ELSE Output
Linkable == /\ \A i \in DOMAIN objs : Exists(objs[i]) /\ fs[objs[i]].kind \in {"obj", "objopt"}
            /\ \A i \in DOMAIN libs : Holds(libs[i], "lib")
Linked == [kind |-> IF hex THEN "rel" ELSE "com", of |-> [i \in DOMAIN objs |-> fs[objs[i]]],
           libs |-> libs]

Link ==
  /\ pc = "link"
  /\ outfile' = Output
  /\ \E r \in Run(Linkable, LinkOutput, Linked) :
       /\ fs' = r.files
       /\ nerrs' = IF r.ok THEN nerrs ELSE nerrs + 1
       /\ pc' = IF r.ok /\ hex THEN "objtohex" ELSE "single"
  /\ UNCHANGED <<opts, argi, list, build, src, start>>

ObjtoHex ==
  /\ pc = "objtohex"
  /\ \E r \in Run(Holds(l_dot_obj, "rel"), outfile, [fs[l_dot_obj] EXCEPT !.kind = "com"]) :
       /\ fs' = Rm(r.files, {l_dot_obj})
       /\ Doexec(r, "single")
  /\ UNCHANGED src

RemoveSingleAlways ==
  /\ pc = "single"
  /\ fs' = Rm(fs, {IF single # None THEN single ELSE objs[Len(objs)]})
  /\ pc' = "xref"
  /\ UNCHANGED <<opts, argi, list, outfile, build, src, nerrs, start>>

RemoveSingle ==
  /\ pc = "single"
  /\ fs' = IF Len(c_as) = 1 /\ nfiles = 1 THEN Rm(fs, {single}) ELSE fs
  /\ pc' = "xref"
  /\ UNCHANGED <<opts, argi, list, outfile, build, src, nerrs, start>>

\* cref, when -CR has a name; the data is left for later when it has none
Listing == File("", xrname, "")
Cref ==
  /\ pc = "xref"
  /\ IF xref /\ xrname # ""
     THEN \E r \in Run(Holds(crtmp, "crf"), Listing, Content("listing", fs[crtmp].of)) :
            /\ fs' = Rm(r.files, {crtmp})
            /\ Doexec(r, "exit")
     ELSE pc' = "exit" /\ UNCHANGED <<opts, argi, list, outfile, build, nerrs, fs, start>>
  /\ UNCHANGED src

\* exit(nerrs != 0)
Exited == pc = "exit" /\ UNCHANGED vars

Compile == Cpp \/ Pass1 \/ Cgen \/ Optim \/ Zas
Step == \/ Option \/ FirstOption \/ LibOption \/ FileArg \/ Help \/ SetTarget
        \/ Dispatch \/ Compile \/ Assemble \/ Cleanup
        \/ Link \/ ObjtoHex \/ RemoveSingle \/ Cref

Next == Step \/ Exited

\* one process, which waits for each program: they all come to an end
Spec == Init /\ [][Next]_vars /\ WF_vars(Step)

-----------------------------------------------------------------------------
(* Properties *)

Pcs == {"args", "source", "cpp", "p1", "cgen", "optim", "zas", "asm", "link", "objtohex",
        "single", "xref", "exit"}

TypeOK ==
  /\ argv \in Seq(Arg) /\ argi \in 1..(Len(argv) + 1)
  /\ pc \in Pcs /\ flags \subseteq Flags
  /\ target \in STRING /\ processor \in STRING /\ xrname \in STRING
  /\ objs \in Seq(Name) \ {<<>>} /\ libs \in Seq(Name) /\ c_as \in Seq(Name)
  /\ nfiles \in 0..Len(argv) /\ single \in Name /\ outfile \in Name
  /\ build \in 0..Len(targets) /\ src \in 1..(Len(c_as) + 1)
  /\ nerrs \in Nat
  /\ DOMAIN fs \subseteq Name /\ DOMAIN start \subseteq Name

\* a stage is given what the stage before it made of the same source in this run
TakesItsInput ==
  ~dryRun =>
    /\ pc = "p1"    => Exists(tmpf1) /\ fs[tmpf1] = Content("i", s)
    /\ pc = "cgen"  => Exists(tmpf2) /\ fs[tmpf2] = Content("p1", s)
    /\ pc = "optim" => Exists(tmpf1) /\ fs[tmpf1] = Content("as", s)
    /\ pc = "zas"   => Exists(ZasIn) /\ fs[ZasIn] = Content(IF optimize THEN "opt" ELSE "as", s)

\* the elements of a sequence that are in a set, in their order
Those(q, S) ==
  LET upTo[n \in 0..Len(q)] ==
        IF n = 0 THEN <<>>
        ELSE IF q[n] \in S THEN Append(upTo[n - 1], q[n]) ELSE upTo[n - 1]
  IN upTo[Len(q)]

Sources == Those(argv, [o : {"file"}, val : Name])
Made(f) == IF f.ext = "c" THEN Content(IF optimize THEN "objopt" ELSE "obj", f)
           ELSE IF f.ext = "as" THEN Content("obj", f)
           ELSE start[f]
UserLibs == LET ls == Those(argv, [o : {"L"}, val : STRING])
            IN [i \in DOMAIN ls |-> Lib(ls[i].val)]

\* a program that zc leaves is linked from these
LinkedFromSources ==
  \A f \in DOMAIN fs :
    fs[f].kind = "com" /\ (f \in DOMAIN start => fs[f] # start[f]) =>
      /\ fs[f].of = <<Content("obj", targets[build].crt)>>
                      \o [i \in DOMAIN Sources |-> Made(Sources[i].val)]
      /\ fs[f].libs = Append(UserLibs, Lib(targets[build].clib))

\* Although all sources go through the same temporary files, and a stage that failed leaves
\* them as they were, each stage is given what the stage before made of the same source; and
\* a program that zc leaves is linked from the start-up file of the target, then for each
\* file of the command line, in order, the object made from it in this run (and optimized if
\* asked for), with the C library searched after the libraries of the command line: never
\* from an object of an earlier run (compile, Link).
BuiltFromSources == TakesItsInput /\ LinkedFromSources

\* What each source is turned into, by the option that stops first
Kept(f) ==
  IF keepi THEN [name |-> WithExt(f, "i"), kind |-> "i"]
  ELSE IF keepp1 THEN [name |-> Here(f, "p1"), kind |-> "p1"]
  ELSE IF keepas THEN [name |-> Here(f, "as"), kind |-> IF optimize THEN "opt" ELSE "as"]
  ELSE [name |-> Here(f, "obj"), kind |-> IF optimize THEN "objopt" ELSE "obj"]

CSources == Those(c_as, [dir : STRING, base : STRING, ext : {"c"}])

\* Exit status 0 means that everything the options ask for is there: the output of the
\* stage that -E, -1, -S or -C stops at for every C source, else the program; and the
\* cross reference names every C source.
ExitTellsAll ==
  pc = "exit" /\ nerrs = 0 /\ ~dryRun =>
    /\ keepi \/ keepp1 \/ keepas \/ keep =>
         \A i \in DOMAIN CSources :
           LET k == Kept(CSources[i]) IN Exists(k.name) /\ fs[k.name] = Content(k.kind, CSources[i])
    /\ ~(keepi \/ keepp1 \/ keepas \/ keep) => Holds(outfile, "com")
    /\ ~(keepi \/ keepp1 \/ keepas) /\ xref /\ xrname # "" =>
         Exists(Listing) /\ fs[Listing] = Content("listing", CSources)

\* the temporary files are gone; a link that failed leaves its unfinished output, and -CR
\* data stays unless cref has used it
NoTempsLeft ==
  pc = "exit" /\ build # 0 /\ ~dryRun =>
    /\ {tmpf1, tmpf2, tmpf3} \cap DOMAIN fs = {}
    /\ Exists(l_dot_obj) => nerrs # 0
    /\ Exists(crtmp) => xref /\ (xrname = "" \/ keepi \/ keepp1 \/ keepas)

\* sources, libraries and object files given to zc are only read: what changes is what the
\* options ask for
InputsKept ==
  \A f \in DOMAIN start :
    \/ Exists(f) /\ fs[f] = start[f]
    \/ f \in {Here(c_as[i], "obj") : i \in DOMAIN c_as} \cup {outfile}
    \/ f \in {Kept(CSources[i]).name : i \in DOMAIN CSources}
    \/ asmlst /\ f \in {Here(CSources[i], "as") : i \in DOMAIN CSources}
    \/ xref /\ f = Listing

\* Whatever stage ends it, zc cleans up: its temporary files go, those it was given stay
\* (cleanup and Link, which remove by different rules).
CleansUp == NoTempsLeft /\ InputsKept

\* zc always ends, if the programs it runs do.
Terminates == <>(pc = "exit")

=============================================================================
