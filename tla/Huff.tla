-------------------------------- MODULE Huff --------------------------------
(***************************************************************************)
(* The archives of enhuff (enhuff/enhuff.c, encode.c) as dehuff            *)
(* (dehuff/dehuff.c, decode.c) reads them.                                 *)
(*                                                                         *)
(* enhuff reads every file twice, to count its characters and to encode    *)
(* them; somebody may write the files meanwhile.  The archive is bytes:    *)
(* header, letters of the tree and its shape, entries, names, files.  A    *)
(* byte has CharBit bits, so that numbers of characters and of bits stay   *)
(* related as they are.  File names are what they consist of.              *)
(* Left out: debug output, text files of hosts that have such, the name's  *)
(* length, casecmp, the question whether to overwrite an archive.          *)
(***************************************************************************)
EXTENDS Integers, Sequences, SequencesExt, FiniteSets

CONSTANTS
  CharBit,   \* bits of a byte (8)
  MAGIC,     \* the number at the beginning of an archive
  Jobs,      \* the command lines of enhuff, with the files there are
  Members,   \* the members that dehuff is asked for
  Contents   \* what somebody may write meanwhile

ALFSIZ == 2^CharBit
HSIZE  == 10     \* bytes of the header
FSIZE  == 13     \* bytes of a file's entry
Char   == 0..(ALFSIZ - 1)
File   == Seq(Char)
Name   == Seq(Char \ {0})


ASSUME HuffAssumption ==
  /\ CharBit \in Nat \ {0} /\ MAGIC \in 1..(ALFSIZ * ALFSIZ - 1)
  /\ \A j \in Jobs :
       /\ DOMAIN j = {"factor", "files", "disk"} /\ j.factor \in Nat \ {0}
       /\ j.files \in Seq(Name \ {<<>>})
       /\ DOMAIN j.disk \subseteq Name /\ \A n \in DOMAIN j.disk : j.disk[n] \in File
  /\ Contents \subseteq File /\ Members \subseteq SUBSET Name

VARIABLES
  job, disk,         \* enhuff's command line, the files
  pc,                \* where the two programs are
  exit,              \* how enhuff ended
  i,                 \* the argument, file or entry that is next
  freq,              \* clist[].c_freq
  flist,             \* the files that could be opened
  root, n_c, c_bits, \* the tree, the characters of its leaves, their codes
  tape, pos,         \* the archive and enhuff's position in it
  hpos, alfused,     \* hd_hpos, and how many characters there are
  xtractflg, av,     \* dehuff's command line
  tree, nfiles,      \* dehuff's tree and hd_nfiles
  dest, listed,      \* files extracted, entries listed
  first, second,     \* history: the files as they were counted and encoded
  taken,             \* history: entries extracted whole
  touched            \* history: somebody has written a file

encVars  == <<freq, flist, root, n_c, c_bits, hpos, alfused, first, second>>
tapeVars == <<tape, pos>>
argVars  == <<xtractflg, av>>
decVars  == <<argVars, tree, nfiles, dest, listed, taken>>
vars == <<job, disk, pc, exit, i, encVars, tapeVars, decVars, touched>>

-----------------------------------------------------------------------------
(* Bits and bytes *)

Plus(s) == FoldLeft(LAMBDA x, y : x + y, 0, s)
Times(c, s) == Cardinality({k \in DOMAIN s : s[k] = c})

BitOf(bits, k) == IF k \in DOMAIN bits THEN bits[k] ELSE 0
PackStale(bits) == [b \in 1..((Len(bits) + CharBit - 1) \div CharBit) |->
                     Plus([k \in 1..(b * CharBit) |-> 2^(k - 1) * BitOf(bits, k)])]

\* put_bit and align: the bytes that bits fill, the last one with zeros; the first bit
\* is the lowest
Pack(bits) == [b \in 1..((Len(bits) + CharBit - 1) \div CharBit) |->
                 Plus([k \in 1..CharBit |-> 2^(k - 1) * BitOf(bits, (b - 1) * CharBit + k)])]

\* put2, put4, get2 and get4
Put(n, bytes) == [b \in 1..bytes |-> (n \div ALFSIZ^(b - 1)) % ALFSIZ]
Get(at, bytes) == Plus([b \in 1..bytes |-> tape[at + b - 1] * ALFSIZ^(b - 1)])

Size == Cardinality(DOMAIN tape)
\* what is skipped over is zeros
Write(at, bytes) ==
  [a \in 0..((IF at + Len(bytes) > Size THEN at + Len(bytes) ELSE Size) - 1) |->
     IF a - at + 1 \in DOMAIN bytes THEN bytes[a - at + 1]
     ELSE IF a < Size THEN tape[a] ELSE 0]

-----------------------------------------------------------------------------
(* The tree.  A leaf is its number from the left, a node has two trees. *)

IsLeaf(t) == Len(t) = 1

\* where bld divides the characters from first to last
Split(f, from, to) ==
  LET Run(k) == Plus(SubSeq(f, from, k))
      ends == {k \in from..to : k = to \/ Run(k) >= Run(to) \div job.factor}
      k == CHOOSE x \in ends : \A y \in ends : x <= y
  IN IF k = to THEN (from + to) \div 2 ELSE k

RECURSIVE Bld(_, _, _)
Bld(f, from, to) ==
  IF from = to THEN <<from>>
  ELSE LET k == Split(f, from, to) IN <<Bld(f, from, k), Bld(f, k + 1, to)>>

\* the bits of the leaves from left to right: bld_bits
RECURSIVE CodesBelow(_, _)
CodesBelow(t, code) ==
  IF IsLeaf(t) THEN <<code>>
  ELSE CodesBelow(t[1], Append(code, 1)) \o CodesBelow(t[2], Append(code, 0))

\* put_tree: a 1 before what is left of a node and a 0 before what is right
RECURSIVE Walk(_)
Walk(t) == IF IsLeaf(t) THEN <<>> ELSE <<1>> \o Walk(t[1]) \o <<0>> \o Walk(t[2])

\* every order that qsort may give for keys that do not decrease
RECURSIVE Orders(_, _)
Orders(S, key) ==
  IF S = {} THEN {<<>>}
  ELSE UNION {{<<x>> \o o : o \in Orders(S \ {x}, key)} :
                x \in {y \in S : \A z \in S : key[y] <= key[z]}}

-----------------------------------------------------------------------------
(* enhuff *)

Init ==
  /\ job \in Jobs /\ disk = job.disk
  /\ pc = "count" /\ exit = "" /\ i = 1
  /\ freq = [c \in Char |-> 0] /\ flist = <<>>
  /\ root = <<1>> /\ n_c = <<>> /\ c_bits = [c \in Char |-> <<>>]
  /\ tape = <<>> /\ pos = 0 /\ hpos = 0 /\ alfused = 0
  /\ xtractflg = FALSE /\ av = {}
  /\ tree = <<0>> /\ nfiles = 0 /\ dest = <<>> /\ listed = <<>>
  /\ first = <<>> /\ second = <<>> /\ taken = {} /\ touched = FALSE

\* make_tree, for one file; a file that cannot be opened is left out
CountFile ==
  /\ pc = "count" /\ i <= Len(job.files)
  /\ i' = i + 1
  /\ LET name == job.files[i] IN
     IF name \in DOMAIN disk
     THEN /\ flist' = Append(flist, [name |-> name, npos |-> 0, nchrs |-> Len(disk[name]), pos |-> 0])
          /\ freq' = [c \in Char |-> freq[c] + Times(c, disk[name]) + Times(c, name)
                                       + (IF c = 0 THEN 1 ELSE 0)]
          /\ first' = Append(first, disk[name])
     ELSE UNCHANGED <<flist, freq, first>>
  /\ UNCHANGED <<job, disk, pc, exit, root, n_c, c_bits, hpos, alfused, second, tapeVars, decVars,
                 touched>>

Used == {c \in Char : freq[c] # 0}

LeafOrdersAny(t) == Orders(DOMAIN CodesBelow(t, <<>>), [k \in DOMAIN CodesBelow(t, <<>>) |-> 0])

\* the lengths by which the leaves are sorted have the width of a character
LeafOrders(t) ==
  LET codes == CodesBelow(t, <<>>)
  IN Orders(DOMAIN codes, [k \in DOMAIN codes |-> (Len(codes[k]) + 1) % ALFSIZ])

\* the rest of make_tree: the commonest characters get the leaves with the shortest codes.
\* Without any character bld does not end.
BuildTree ==
  /\ pc = "count" /\ i > Len(job.files)
  /\ alfused' = Cardinality(Used)
  /\ i' = 1
  /\ IF Used = {}
     THEN /\ pc' = "open" /\ exit' = "crash"
          /\ UNCHANGED <<root, n_c, c_bits>>
     ELSE /\ pc' = "tree" /\ exit' = exit
          /\ \E cptrs \in Orders(Used, [c \in Used |-> -freq[c]]) :
               LET t == Bld([k \in DOMAIN cptrs |-> freq[cptrs[k]]], 1, Len(cptrs))
                   codes == CodesBelow(t, <<>>)
               IN \E nptrs \in LeafOrders(t) :
                    /\ root' = t
                    /\ n_c' = [leaf \in DOMAIN codes |->
                                 cptrs[CHOOSE k \in DOMAIN nptrs : nptrs[k] = leaf]]
                    /\ c_bits' = [c \in Char |->
                         IF c \in Used
                         THEN codes[CHOOSE leaf \in DOMAIN codes : n_c'[leaf] = c] ELSE <<>>]
  /\ UNCHANGED <<job, disk, freq, flist, hpos, first, second, tapeVars, decVars, touched>>

PutTreeUnsafe ==
  /\ pc = "tree"
  /\ tape' = Write(HSIZE, n_c \o Pack(Walk(root)))
  /\ hpos' = HSIZE + Len(n_c \o Pack(Walk(root)))
  /\ pos' = hpos' + FSIZE * Len(flist)
  /\ pc' = "names"
  /\ UNCHANGED <<job, disk, exit, i, freq, flist, root, n_c, c_bits, alfused, first, second,
                 decVars, touched>>
PutTreeClose ==
  /\ pc = "tree"
  /\ tape' = Write(HSIZE, n_c \o Pack(Walk(root) \o <<0>>))
  /\ hpos' = HSIZE + Len(n_c \o Pack(Walk(root) \o <<0>>))
  /\ pos' = hpos'
  /\ pc' = "names"
  /\ UNCHANGED <<job, disk, exit, i, freq, flist, root, n_c, c_bits, alfused, first, second,
                 decVars, touched>>

\* put_tree, with its last 0, and putnames' seek past the entries
PutTree ==
  /\ pc = "tree"
  /\ tape' = Write(HSIZE, n_c \o Pack(Walk(root) \o <<0>>))
  /\ hpos' = HSIZE + Len(n_c \o Pack(Walk(root) \o <<0>>))
  /\ pos' = hpos' + FSIZE * Len(flist)
  /\ pc' = "names"
  /\ UNCHANGED <<job, disk, exit, i, freq, flist, root, n_c, c_bits, alfused, first, second,
                 decVars, touched>>

\* puthch for each of them; a character that was not counted has no bits
Coded(chars) == Pack(FoldLeft(LAMBDA x, c : x \o c_bits[c], <<>>, chars))

PutName ==
  /\ pc = "names" /\ i <= Len(flist)
  /\ flist' = [flist EXCEPT ![i].npos = pos]
  /\ tape' = Write(pos, Coded(Append(flist[i].name, 0)))
  /\ pos' = pos + Len(Coded(Append(flist[i].name, 0)))
  /\ i' = i + 1
  /\ UNCHANGED <<job, disk, pc, exit, freq, root, n_c, c_bits, hpos, alfused, first, second,
                 decVars, touched>>

NamesDone ==
  /\ pc = "names" /\ i > Len(flist)
  /\ pc' = "files" /\ i' = 1
  /\ UNCHANGED <<job, disk, exit, encVars, tapeVars, decVars, touched>>

PutFileLate ==
  /\ pc = "files" /\ i <= Len(flist)
  /\ LET name == flist[i].name IN
     IF name \notin DOMAIN disk
     THEN pc' = "open" /\ exit' = "failed" /\ UNCHANGED <<i, flist, tapeVars, second>>
     ELSE /\ tape' = Write(pos, Coded(disk[name]))
          /\ pos' = pos + Len(Coded(disk[name]))
          /\ flist' = [flist EXCEPT ![i].pos = pos']
          /\ second' = Append(second, disk[name])
          /\ i' = i + 1 /\ UNCHANGED <<pc, exit>>
  /\ UNCHANGED <<job, disk, freq, root, n_c, c_bits, hpos, alfused, first, decVars, touched>>

\* putfiles, for one file
PutFile ==
  /\ pc = "files" /\ i <= Len(flist)
  /\ LET name == flist[i].name IN
     IF name \notin DOMAIN disk
     THEN pc' = "open" /\ exit' = "failed" /\ UNCHANGED <<i, flist, tapeVars, second>>
     ELSE /\ flist' = [flist EXCEPT ![i].pos = pos]
          /\ tape' = Write(pos, Coded(disk[name]))
          /\ pos' = pos + Len(Coded(disk[name]))
          /\ second' = Append(second, disk[name])
          /\ i' = i + 1 /\ UNCHANGED <<pc, exit>>
  /\ UNCHANGED <<job, disk, freq, root, n_c, c_bits, hpos, alfused, first, decVars, touched>>

Header == Put(MAGIC, 2) \o Put(Len(flist), 2) \o Put(alfused, 2) \o Put(hpos, 4)
Entry(f) == Put(f.npos, 4) \o Put(f.nchrs, 4) \o Put(f.pos, 4) \o <<0>>
Entries == FoldLeft(LAMBDA x, f : x \o Entry(f), <<>>, flist)

\* puthdr and the end of main, which divides by the number of all characters
PutHdr ==
  /\ pc = "files" /\ i > Len(flist)
  /\ tape' = [a \in DOMAIN Write(hpos, Entries) |->
                IF a < HSIZE THEN Header[a + 1] ELSE Write(hpos, Entries)[a]]
  /\ exit' = IF Plus([k \in DOMAIN flist |-> flist[k].nchrs]) = 0 THEN "divided" ELSE "ok"
  /\ pc' = "open"
  /\ UNCHANGED <<job, disk, i, encVars, pos, decVars, touched>>

\* somebody writes or removes a file while enhuff runs
Touch ==
  /\ exit = "" /\ ~touched /\ touched' = TRUE
  /\ \E n \in DOMAIN disk :
       \/ \E c \in Contents \ {disk[n]} : disk' = [disk EXCEPT ![n] = c]
       \/ disk' = [m \in DOMAIN disk \ {n} |-> disk[m]]
  /\ UNCHANGED <<job, pc, exit, i, encVars, tapeVars, decVars>>

-----------------------------------------------------------------------------
(* dehuff *)

Open ==
  /\ pc = "open"
  /\ xtractflg' \in BOOLEAN /\ av' \in Members
  /\ pc' = IF Size < HSIZE \/ Get(0, 2) # MAGIC THEN "end" ELSE "shape"
  /\ UNCHANGED <<job, disk, exit, i, encVars, tapeVars, tree, nfiles, dest, listed, taken,
                 touched>>

\* get_bit, for bit n of those that begin at a byte
AtEnd(at, n) == at + n \div CharBit >= Size
Bit(at, n) == IF AtEnd(at, n) THEN 0 ELSE (tape[at + n \div CharBit] \div 2^(n % CharBit)) % 2

\* get_tree: the tree that begins at bit n, the next bit, the number of leaves before
RECURSIVE GetTree(_, _, _, _)
GetTree(cl, at, n, clidx) ==
  IF Bit(at, n) = 1
  THEN LET l == GetTree(cl, at, n + 1, clidx)
           r == GetTree(cl, at, l.next, l.leaves)
       IN [t |-> <<l.t, r.t>>, next |-> r.next, leaves |-> r.leaves]
  ELSE [t |-> <<cl[clidx + 1]>>, next |-> n + 1, leaves |-> clidx + 1]

BldTree ==
  /\ pc = "shape"
  /\ nfiles' = Get(2, 2)
  /\ LET used == Get(4, 2)
         cl == [k \in 1..ALFSIZ |-> IF k <= used THEN tape[HSIZE + k - 1] ELSE 0]
     IN tree' = GetTree(cl, HSIZE + used, 0, 0).t
  /\ pc' = "entry" /\ i' = 1
  /\ UNCHANGED <<job, disk, exit, encVars, tapeVars, argVars, dest, listed, taken, touched>>

\* gethch from bit n on
EOF == -1
RECURSIVE Down(_, _, _)
Down(node, at, n) ==
  IF IsLeaf(node) THEN [c |-> node[1], next |-> n]
  ELSE IF AtEnd(at, n) THEN [c |-> EOF, next |-> n]
  ELSE Down(node[2 - Bit(at, n)], at, n + 1)

\* count characters, or if count is below 0 those before a NUL
RECURSIVE GetChars(_, _, _)
GetChars(at, n, count) ==
  LET g == Down(tree, at, n) IN
  IF count = 0 \/ (count < 0 /\ g.c = 0) THEN [chars |-> <<>>, eof |-> FALSE]
  ELSE IF g.c = EOF THEN [chars |-> <<>>, eof |-> TRUE]
  ELSE LET rest == GetChars(at, g.next, count - 1)
       IN [chars |-> <<g.c>> \o rest.chars, eof |-> rest.eof]

EntryAt == Get(6, 4) + FSIZE * (i - 1)
GetName == GetChars(Get(EntryAt, 4), 0, -1).chars
Nchrs   == Get(EntryAt + 4, 4)
IsArg   == av = {} \/ GetName \in av
Reading == pc = "entry" /\ i <= nfiles

SkipEntry ==
  /\ Reading /\ ~IsArg
  /\ i' = i + 1
  /\ UNCHANGED <<job, disk, pc, exit, encVars, tapeVars, decVars, touched>>

ListEntry ==
  /\ Reading /\ IsArg /\ ~xtractflg
  /\ listed' = Append(listed, <<GetName, Nchrs>>)
  /\ i' = i + 1
  /\ UNCHANGED <<job, disk, pc, exit, encVars, tapeVars, argVars, tree, nfiles, dest, taken,
                 touched>>

\* extract; when the file cannot be created the next one is tried, and when the archive
\* ends dehuff does
Extract ==
  /\ Reading /\ IsArg /\ xtractflg
  /\ \/ i' = i + 1 /\ UNCHANGED <<pc, dest, taken>>
     \/ \E got \in {GetChars(Get(EntryAt + 8, 4), 0, Nchrs)} :
          /\ dest' = [n \in DOMAIN dest \cup {GetName} |->
                        IF n = GetName THEN got.chars ELSE dest[n]]
          /\ IF got.eof THEN pc' = "end" /\ UNCHANGED <<i, taken>>
             ELSE i' = i + 1 /\ taken' = taken \cup {i} /\ UNCHANGED pc
  /\ UNCHANGED <<job, disk, exit, encVars, tapeVars, argVars, tree, nfiles, listed, touched>>

EntriesDone ==
  /\ pc = "entry" /\ i > nfiles
  /\ pc' = "end"
  /\ UNCHANGED <<job, disk, exit, i, encVars, tapeVars, decVars, touched>>

Ended == pc = "end" /\ UNCHANGED vars

Enhuff == CountFile \/ BuildTree \/ PutTree \/ PutName \/ NamesDone \/ PutFile \/ PutHdr
Dehuff == Open \/ BldTree \/ SkipEntry \/ ListEntry \/ Extract \/ EntriesDone
Next == Enhuff \/ Dehuff \/ Touch \/ Ended

Spec == Init /\ [][Next]_vars

-----------------------------------------------------------------------------
(* Properties *)

\* every variable keeps its type; bytes are bytes
TypeOK ==
  /\ job \in Jobs /\ \A n \in DOMAIN disk : disk[n] \in File
  /\ pc \in {"count", "tree", "names", "files", "open", "shape", "entry", "end"}
  /\ exit \in {"", "ok", "divided", "failed", "crash"}
  /\ freq \in [Char -> Nat] /\ Len(flist) = Len(first) /\ Len(second) <= Len(first)
  /\ n_c \in Seq(Char) /\ c_bits \in [Char -> Seq({0, 1})]
  /\ DOMAIN tape = (IF tape = <<>> THEN {} ELSE 0..(Size - 1))
  /\ \A a \in DOMAIN tape : tape[a] \in Char
  /\ \A n \in DOMAIN dest : dest[n] \in File
  /\ xtractflg \in BOOLEAN /\ av \in Members \cup {{}}
  /\ taken \subseteq DOMAIN flist /\ touched \in BOOLEAN

\* a commoner character has no longer code than another, as long as the length of no path
\* overflows np_len (make_tree)
ShorterIsCommoner ==
  \A c, d \in Used : pc # "count" /\ exit # "crash" /\ freq[c] > freq[d]
                       /\ (\A e \in Used : Len(c_bits[e]) + 1 < ALFSIZ)
                         => Len(c_bits[c]) <= Len(c_bits[d])

\* the tree that dehuff reads leads by the code of a character to that character, although
\* the shape is followed by anything (walk_tree, put_tree, get_tree)
TreeComesBack ==
  \A c \in Used : pc \in {"entry"} =>
    FoldLeft(LAMBDA t, b : IF IsLeaf(t) THEN t ELSE t[2 - b], tree, c_bits[c]) = <<c>>

\* The codes are those of a good tree, and dehuff has the same tree: whatever the counts, and
\* wherever bld divides a range of them, the commoner character has the shorter code, and a
\* code leads to its character in the tree that is read back (bld, put_tree, get_tree).
CodesRight == ShorterIsCommoner /\ TreeComesBack

\* a file that was the same both times comes back as it was, even if others were not; unless
\* a file of the same name came after it
FilesComeBack ==
  \A k \in taken :
    first[k] = second[k] /\ (\A l \in (k + 1)..Len(flist) : l <= i => flist[l].name # flist[k].name)
      => flist[k].name \in DOMAIN dest /\ dest[flist[k].name] = first[k]

\* dehuff goes through the entries in their order and says what enhuff counted; when no file
\* was touched it gets through all of them
Chosen == SelectSeq(flist, LAMBDA f : av = {} \/ f.name \in av)
ListTrue ==
  /\ pc \in {"shape", "entry"} => exit \in {"ok", "divided"}
  /\ pc \in {"entry", "end"} =>
       \E n \in 0..Len(Chosen) : listed = [k \in 1..n |-> <<Chosen[k].name, Chosen[k].nchrs>>]
  /\ pc = "end" /\ ~touched /\ exit \in {"ok", "divided"} =>
       i > Len(flist) /\ (~xtractflg => Len(listed) = Len(Chosen))

\* What dehuff lists and extracts is what was put in, although the parts of the archive are
\* written out of order, at positions worked out before, and although files change or go
\* while enhuff reads them; and it reads nothing of an archive that enhuff did not complete
\* (encode.c, dehuff.c).
ComesBack == FilesComeBack /\ ListTrue
=============================================================================
