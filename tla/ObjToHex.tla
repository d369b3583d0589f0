------------------------------ MODULE ObjToHex ------------------------------
(***************************************************************************)
(* The program that makes images of linked object files                    *)
(* (objtohex/objtohex.c), for Intel hex, S records, an assembler source    *)
(* and binary images, with relocation tables (-R, -L) and checksums (-C).  *)
(*                                                                         *)
(* Text is kept in blocks that exist only where there is something; a      *)
(* block that the host has no memory for takes the buffer of another one,  *)
(* which goes to the swap file.  The output is a sequence of lines, each   *)
(* with the numbers it shows as bytes, or the bytes of a binary file.      *)
(* Sizes are constants, so that block and segment borders can be near.     *)
(* Left out: -A, -E, -8 and -P (a.out, DOS and Atari files), -I.           *)
(***************************************************************************)
EXTENDS Integers, Sequences, SequencesExt, FiniteSetsExt

CONSTANTS
  Byte,       \* values of a byte (256)
  Nibble,     \* values of half a byte (16)
  BlkSize,    \* bytes of a block (1024)
  Limit,      \* first address above the image (0x40000)
  Line,       \* bytes of a hex line (32)
  AsmLine,    \* bytes of an assembler line (8)
  relocSegName, \* the symbol whose value says where the table goes
  Names,      \* names of symbols
  Jobs        \* the command lines, with the contents of their files

Seg    == Byte * Byte           \* values of 16 bits
Blocks == 0..(Limit \div BlkSize - 1)
NoBase == -1                    \* -B without an address
Bytes  == 0..(Byte - 1)

Record ==
  [t : {"TEXT"}, off : Nat, data : Seq(Bytes)]
    \cup [t : {"RELOC"}, off : 0..(Seg \div 2 - 1), kind : {2, 130, 4}]
    \cup [t : {"SYM"}, name : Names, val : Nat]
    \cup [t : {"START"}, val : Nat]
    \cup [t : {"IDENT"}, big : BOOLEAN]
    \cup [t : {"END", "illegal"}]

\* a range of addresses, where its sum goes and what is added to it.  Lists with addresses of
\* more than 16 bits, which sub_2AD1 cuts here and there, are left out.
Sum == [addr1 : 0..(Seg - 1), addr2 : 0..(Seg - 1), where1 : 0..(Seg - 1),
        where2 : 0..(Seg - 1), offset : Nat]
\* bufs: blocks that the host has memory for
Job == [fmt : {"intel", "srec", "asm", "bin"}, base : Nat \cup {NoBase},
        reloc : {"none", "R", "L"}, sums : Seq(Sum), syms : BOOLEAN,
        recs : Seq(Record), bufs : Nat]

ASSUME ObjToHexAssumption ==
  /\ Nibble \in Nat \ {0} /\ Byte = Nibble * Nibble
  /\ BlkSize \in Nat \ {0} /\ Limit % BlkSize = 0 /\ Seg % BlkSize = 0
  /\ Limit \in Seg..(Seg * Nibble)
  /\ Line \in 1..BlkSize /\ Line + 4 < Byte /\ AsmLine \in 1..BlkSize
  /\ Jobs \subseteq Job

VARIABLES
  job,                   \* the command line
  pc,                    \* where main is
  recIdx,                \* the record doFile reads next
  mem,                   \* blkBuf, blkLoaded and the buffers
  Ltext, Htext,          \* _Ltext, _Htext
  startAddr, textAddr,   \* startAddr; dw668A, the address of the last text
  big,                   \* order16 and order32
  relocs, nreloc, wrPos, \* reloc.$$$, its items, where the table goes
  item,                  \* sub_2692: the items put into the table
  symFile,               \* the symbol file
  chkIdx, loc, crc,      \* sub_2AD1: the sum and the address it is at
  curAddr, remaining,    \* main's output loop; offset and blkIdx follow curAddr
  segment, haveOrg,      \* dw63C8, b63C7
  out,                   \* the lines written, or the bytes of the binary file
  work,                  \* the work files
  image                  \* history: the bytes put into the image

inVars  == <<recIdx, startAddr, textAddr, big, relocs, nreloc, wrPos, item, symFile>>
memVars == <<mem, Ltext, Htext, image>>
sumVars == <<chkIdx, loc, crc>>
outVars == <<curAddr, remaining, segment, haveOrg, out>>
vars == <<job, pc, inVars, memVars, sumVars, outVars, work>>

-----------------------------------------------------------------------------
(* Blocks *)

Hi(x) == (x \div Byte) % Byte
Lo(x) == x % Byte
Word(x) == <<Hi(x), Lo(x)>>

Zeros == [i \in 0..(BlkSize - 1) |-> 0]

\* loadBlk.  A block that was put out keeps its pointer to the buffer, and is found
\* to have none when it is asked for again.
Load(m, b) ==
  IF m.fault # "none" \/ (m.ptr[b] # 0 /\ b \in m.loaded) THEN m
  ELSE IF m.ptr[b] # 0
  THEN [m EXCEPT !.ptr[b] = 0, !.loaded = @ \cup {b}, !.fault = "null"]
  ELSE IF Len(m.buf) < job.bufs
  THEN [m EXCEPT !.ptr[b] = Len(m.buf) + 1, !.loaded = @ \cup {b}, !.buf = Append(@, Zeros)]
  ELSE IF m.loaded = {} THEN [m EXCEPT !.fault = "memory"]
  ELSE LET i == Min(m.loaded) IN
       [m EXCEPT !.ptr[b] = m.ptr[i], !.loaded = (@ \ {i}) \cup {b},
                 !.buf[m.ptr[i]] = Zeros, !.swapped = TRUE]

Peek(m, a) == m.buf[m.ptr[a \div BlkSize]][a % BlkSize]

\* op applied to the elements of s one after the other
Through(op(_, _), base, s) ==
  LET upto[n \in 0..Len(s)] == IF n = 0 THEN base ELSE op(upto[n - 1], s[n])
  IN  upto[Len(s)]

\* the part of putMem that falls into one block
PutBlock(m, b, data, at) ==
  LET l == Load(m, b) IN
  IF l.fault # "none" THEN l
  ELSE [l EXCEPT !.buf[l.ptr[b]] =
         [i \in DOMAIN @ |-> LET k == b * BlkSize + i - at + 1
                             IN IF k \in DOMAIN data THEN data[k] ELSE @[i]]]

BlocksOf(data, at) == [i \in 1..((at + Len(data) - 1) \div BlkSize - at \div BlkSize + 1) |->
                         at \div BlkSize + i - 1]
PutBlocks(m, blks, data, at) == Through(LAMBDA x, b : PutBlock(x, b, data, at), m, blks)
PutMem(m, data, at) ==
  IF data = <<>> THEN m
  ELSE IF at + Len(data) > Limit THEN [m EXCEPT !.fault = "big"]
  ELSE PutBlocks(m, BlocksOf(data, at), data, at)

Lowest(x, y)  == IF x < y THEN x ELSE y
Highest(x, y) == IF x > y THEN x ELSE y

\* the work files once a block was asked for; fatalErr removes them
WorkWith(m) == IF m.fault \in {"memory", "big"} THEN {}
               ELSE work \cup (IF m.swapped THEN {"swap"} ELSE {})

\* bytes enter the image; what follows goes on at next, if there was room
Put(data, at, next) ==
  \E m \in {PutMem(mem, data, at)} :
  /\ mem' = m
  /\ Ltext' = Lowest(Ltext, at)
  /\ Htext' = IF data = <<>> THEN Htext ELSE Highest(Htext, at + Len(data))
  /\ image' = [a \in DOMAIN image \cup {at + i - 1 : i \in DOMAIN data} |->
                 IF a >= at /\ a - at + 1 \in DOMAIN data THEN data[a - at + 1] ELSE image[a]]
  /\ pc' = CASE m.fault = "none" -> next [] m.fault = "null" -> "crash" [] OTHER -> "failed"
  /\ work' = WorkWith(m)

FatalKeeps == pc' = "failed" /\ work' = work
\* fatalErr, with rmWorkFiles
Fatal == pc' = "failed" /\ work' = {}

-----------------------------------------------------------------------------
(* Reading the object file: doFile *)

Init ==
  /\ job \in Jobs
  /\ pc = "records" /\ recIdx = 1
  /\ mem = [ptr |-> [b \in Blocks |-> 0], loaded |-> {}, buf |-> <<>>,
            fault |-> "none", swapped |-> FALSE]
  /\ startAddr = Limit - 1 /\ Ltext = Limit - 1 /\ Htext = 0
  /\ textAddr = 0 /\ big = FALSE
  /\ relocs = <<>> /\ nreloc = 0 /\ wrPos = 0 /\ item = 0 /\ symFile = <<>>
  /\ chkIdx = 1 /\ loc = 0 /\ crc = 0
  /\ curAddr = 0 /\ remaining = 0 /\ segment = 0 /\ haveOrg = FALSE
  /\ out = <<>>
  /\ work = (IF job.reloc # "none" THEN {"reloc"} ELSE {})
  /\ image = <<>>

Rec == job.recs[recIdx]
Reading(t) == pc = "records" /\ recIdx <= Len(job.recs) /\ Rec.t = t
NextRec == recIdx' = recIdx + 1

\* "No end record" or "Illegal record type"
ReadRecFails ==
  /\ pc = "records" /\ (recIdx <= Len(job.recs) => Rec.t = "illegal")
  /\ Fatal
  /\ UNCHANGED <<job, inVars, memVars, sumVars, outVars>>

DoText ==
  /\ Reading("TEXT") /\ NextRec
  /\ textAddr' = Rec.off
  /\ Put(Rec.data, Rec.off, pc)
  /\ UNCHANGED <<job, startAddr, big, relocs, nreloc, wrPos, item, symFile, sumVars, outVars>>

DoStart ==
  /\ Reading("START") /\ NextRec
  /\ startAddr' = Rec.val
  /\ UNCHANGED <<job, pc, textAddr, big, relocs, nreloc, wrPos, item, symFile, memVars, sumVars,
                 outVars, work>>

DoIdent ==
  /\ Reading("IDENT") /\ NextRec
  /\ big' = Rec.big
  /\ UNCHANGED <<job, pc, startAddr, textAddr, relocs, nreloc, wrPos, item, symFile, memVars,
                 sumVars, outVars, work>>

DoSym ==
  /\ Reading("SYM") /\ NextRec
  /\ wrPos' = IF job.reloc # "none" /\ Rec.name = relocSegName THEN Rec.val ELSE wrPos
  /\ symFile' = IF job.syms THEN Append(symFile, <<Rec.val, Rec.name>>) ELSE symFile
  /\ UNCHANGED <<job, pc, startAddr, textAddr, big, relocs, nreloc, item, memVars, sumVars,
                 outVars, work>>

Absolute == Rec.kind = IF job.reloc = "L" THEN 130 ELSE 2
PlaceOf(off) == textAddr + off

\* the word of an item and, for -L, what the code takes for its segment
DoReloc ==
  /\ Reading("RELOC")
  /\ IF (job.reloc # "L" /\ PlaceOf(Rec.off) > Seg - 2) \/ ~Absolute \/ nreloc + 1 = Seg
     THEN Fatal /\ UNCHANGED <<recIdx, relocs, nreloc>>
     ELSE /\ NextRec /\ pc' = pc /\ work' = work
          /\ relocs' = CASE job.reloc = "none"  -> relocs
                         [] job.reloc = "R" -> relocs \o <<PlaceOf(Rec.off) % Seg>>
                         [] job.reloc = "L" -> relocs \o <<PlaceOf(Rec.off) % Seg,
                                                           PlaceOf(Rec.off) \div (64 * Seg)>>
          /\ nreloc' = nreloc + 1
  /\ UNCHANGED <<job, startAddr, textAddr, big, wrPos, item, symFile, memVars, sumVars, outVars>>

DoEnd ==
  /\ Reading("END")
  /\ pc' = IF job.reloc # "none" THEN "count" ELSE "sums"
  /\ UNCHANGED <<job, inVars, memVars, sumVars, outVars, work>>

-----------------------------------------------------------------------------
(* The relocation table: sub_2692 *)

\* geti16le; at the end of the file EOF, cut to 16 bits
RelocWord(i) == IF i <= Len(relocs) THEN relocs[i] ELSE Seg - 1

LittleEndian(x) == <<Lo(x), Hi(x)>>

\* with -L three words are read for each item and the second is dropped, although
\* there are two for each in the file
ItemBytes(k) == IF job.reloc = "R" THEN LittleEndian(RelocWord(k))
                ELSE LittleEndian(RelocWord(3 * k - 2)) \o LittleEndian(RelocWord(3 * k))

PutCount ==
  /\ pc = "count"
  /\ Put(LittleEndian(nreloc), wrPos, "items")
  /\ UNCHANGED <<job, inVars, sumVars, outVars>>

PutItemAtOnce ==
  /\ pc = "items" /\ item < nreloc
  /\ item' = item + 1
  /\ wrPos' = wrPos + Len(ItemBytes(item + 1))
  /\ Put(ItemBytes(item + 1), wrPos, pc)
  /\ UNCHANGED <<job, recIdx, startAddr, textAddr, big, relocs, nreloc, symFile, sumVars,
                 outVars>>

PutItem ==
  /\ pc = "items" /\ item < nreloc
  /\ item' = item + 1
  /\ wrPos' = wrPos + Len(ItemBytes(item + 1))
  /\ Put(ItemBytes(item + 1), wrPos + 2, pc)
  /\ UNCHANGED <<job, recIdx, startAddr, textAddr, big, relocs, nreloc, symFile, sumVars,
                 outVars>>

TableDone ==
  /\ pc = "items" /\ item = nreloc
  /\ pc' = "sums"
  /\ UNCHANGED <<job, inVars, memVars, sumVars, outVars, work>>

-----------------------------------------------------------------------------
(* Checksums: sub_2AD1 *)

CurSum == job.sums[chkIdx]

SumStartGoesOn ==
  /\ pc = "sums" /\ chkIdx <= Len(job.sums)
  /\ pc' = "add"
  /\ loc' = CurSum.addr1 % Seg
  /\ crc' = (crc + CurSum.offset) % Seg
  /\ Ltext' = Lowest(Ltext, loc')
  /\ Htext' = Highest(Htext, CurSum.addr2)
  /\ UNCHANGED <<job, inVars, mem, image, chkIdx, outVars, work>>

SumStart ==
  /\ pc = "sums" /\ chkIdx <= Len(job.sums)
  /\ pc' = "add"
  /\ loc' = CurSum.addr1 % Seg
  /\ crc' = CurSum.offset % Seg
  /\ Ltext' = Lowest(Ltext, loc')
  /\ Htext' = Highest(Htext, CurSum.addr2)
  /\ UNCHANGED <<job, inVars, mem, image, chkIdx, outVars, work>>

SumByteWide ==
  /\ pc = "add" /\ loc <= CurSum.addr2
  /\ \E m \in {Load(mem, loc \div BlkSize)} :
     /\ mem' = m
     /\ IF m.fault = "none"
        THEN /\ crc' = crc + Peek(m, loc)
             /\ loc' = (loc + 1) % Seg
             /\ pc' = pc
        ELSE pc' = (IF m.fault = "null" THEN "crash" ELSE "failed") /\ UNCHANGED <<crc, loc>>
     /\ work' = WorkWith(m)
  /\ UNCHANGED <<job, inVars, Ltext, Htext, image, chkIdx, outVars>>

\* loc has 16 bits
SumByte ==
  /\ pc = "add" /\ loc <= CurSum.addr2
  /\ \E m \in {Load(mem, loc \div BlkSize)} :
     /\ mem' = m
     /\ IF m.fault = "none"
        THEN /\ crc' = (crc + Peek(m, loc)) % Seg
             /\ loc' = (loc + 1) % Seg
             /\ pc' = pc
        ELSE pc' = (IF m.fault = "null" THEN "crash" ELSE "failed") /\ UNCHANGED <<crc, loc>>
     /\ work' = WorkWith(m)
  /\ UNCHANGED <<job, inVars, Ltext, Htext, image, chkIdx, outVars>>

SumSize == CurSum.where2 - CurSum.where1 + 1
SumBytes == LET low == <<Lo(crc), Hi(crc), 0, 0>> IN SubSeq(low, 1, SumSize)

SumStoreAgain ==
  /\ pc = "add" /\ loc > CurSum.addr2
  /\ IF SumSize \notin {1, 2, 4}
     THEN Fatal /\ UNCHANGED <<memVars, sumVars>>
     ELSE /\ Put(IF big THEN Reverse(SumBytes) ELSE SumBytes,
                (CurSum.where1 % Seg) + (IF big /\ SumSize = 1 THEN 1 ELSE 0), "sums")
          /\ chkIdx' = chkIdx
          /\ UNCHANGED <<loc, crc>>
  /\ UNCHANGED <<job, inVars, outVars>>

\* the bytes of the sum are put where order16 or order32 has them, also when there is
\* only one
SumStore ==
  /\ pc = "add" /\ loc > CurSum.addr2
  /\ IF SumSize \notin {1, 2, 4}
     THEN Fatal /\ UNCHANGED <<memVars, sumVars>>
     ELSE /\ Put(IF big THEN Reverse(SumBytes) ELSE SumBytes,
                (CurSum.where1 % Seg) + (IF big /\ SumSize = 1 THEN 1 ELSE 0), "sums")
          /\ chkIdx' = chkIdx + 1
          /\ UNCHANGED <<loc, crc>>
  /\ UNCHANGED <<job, inVars, outVars>>

-----------------------------------------------------------------------------
(* Writing the image: main *)

NegOnes(x) == (Byte - 1) - (x % Byte)
Neg(x)  == (Byte - (x % Byte)) % Byte
Plus(s) == Through(LAMBDA x, y : x + y, 0, s)

\* a line whose last byte makes the sum of all zero, or for S records all ones
Closed(t, bytes) ==
  [t |-> t,
   bytes |-> Append(bytes, IF job.fmt = "srec" THEN (Byte - 1) - (Plus(bytes) % Byte)
                           ELSE Neg(Plus(bytes)))]

\* the name of the object file, as far as it counts
NameBytes == <<1>>

StartOutput ==
  /\ pc = "sums" /\ chkIdx > Len(job.sums)
  /\ startAddr' = IF startAddr = Limit - 1 THEN Ltext ELSE startAddr
  /\ curAddr' = Ltext
  /\ IF Htext < Ltext   \* nothing to write: the loop runs off the end of blkBuf
     THEN pc' \in {"crash", "adrift"} /\ UNCHANGED <<remaining, out>>
     ELSE /\ pc' = "lines"
          /\ remaining' = Htext - Ltext
          /\ out' = IF job.fmt = "srec"
                    THEN <<Closed("S0", <<Len(NameBytes) + 3, 0, 0>> \o NameBytes)>> ELSE <<>>
  /\ UNCHANGED <<job, recIdx, textAddr, big, relocs, nreloc, wrPos, item, symFile, memVars,
                 sumVars, segment, haveOrg, work>>

LineMax == CASE job.fmt = "asm" -> AsmLine [] job.fmt = "bin" -> BlkSize [] OTHER -> Line
Count == Min({LineMax, remaining, BlkSize - (curAddr % BlkSize)})

\* a block without text
SkipLine ==
  /\ pc = "lines" /\ remaining # 0 /\ mem.ptr[curAddr \div BlkSize] = 0
  /\ curAddr' = curAddr + Count /\ remaining' = remaining - Count
  /\ UNCHANGED <<job, pc, inVars, memVars, sumVars, segment, haveOrg, out, work>>

imageOffset == IF job.base = NoBase THEN Ltext ELSE job.base
NewSegmentNever == 0
NewSegment == curAddr - (curAddr % Seg)
DataLines(data) ==
  CASE job.fmt = "bin" ->
         <<[t |-> "bin", bytes |-> data,
            at |-> curAddr - imageOffset]>>
    [] job.fmt = "asm" ->
         (IF haveOrg THEN <<>> ELSE <<[t |-> "ORG", bytes |-> Word(curAddr)]>>)
           \o <<[t |-> "HEX", bytes |-> data]>>
    [] job.fmt = "srec" ->
         IF curAddr >= Seg
         THEN <<Closed("S2", <<Count + 4>> \o Word(curAddr \div Seg) \o Word(curAddr) \o data)>>
         ELSE <<Closed("S1", <<Count + 3>> \o Word(curAddr) \o data)>>
    [] job.fmt = "intel" ->
         (IF segment = NewSegment THEN <<>>
          ELSE <<Closed("ext", <<2, 0, 0, 2>> \o Word(NewSegment \div Nibble))>>)
           \o <<Closed("data", <<Count>> \o Word(curAddr) \o <<0>> \o data)>>

WriteLine ==
  /\ pc = "lines" /\ remaining # 0 /\ mem.ptr[curAddr \div BlkSize] # 0
  /\ \E m \in {Load(mem, curAddr \div BlkSize)} :
     /\ mem' = m
     /\ IF m.fault # "none" THEN pc' = "crash" /\ UNCHANGED <<work, outVars>>
        ELSE \E data \in {[i \in 1..Count |-> Peek(m, curAddr + i - 1)]} :
             IF job.fmt = "bin" /\ DataLines(data)[1].at < 0
             THEN Fatal /\ UNCHANGED outVars
             ELSE /\ out' = out \o DataLines(data)
                  /\ segment' = IF job.fmt = "intel" THEN NewSegment ELSE segment
                  /\ haveOrg' = (haveOrg \/ job.fmt = "asm")
                  /\ curAddr' = curAddr + Count /\ remaining' = remaining - Count
                  /\ UNCHANGED <<pc, work>>
  /\ UNCHANGED <<job, inVars, Ltext, Htext, image, sumVars>>

\* the last line; its sum counts three bytes or, in Intel hex, what S records have there
EndLine ==
  CASE job.fmt = "bin" -> <<>>
    [] job.fmt = "asm" -> <<[t |-> "END", bytes |-> Word(startAddr)]>>
    [] job.fmt = "srec" -> <<Closed("S9", <<3>> \o Word(startAddr))>>
    [] job.fmt = "intel" ->
         <<[t |-> "end", bytes |-> <<0>> \o Word(startAddr)
                           \o <<1, Neg(Hi(startAddr) + Lo(startAddr) + 3)>>]>>

EndOutput ==
  /\ pc = "lines" /\ remaining = 0
  /\ out' = out \o EndLine
  /\ pc' = "done" /\ work' = {}
  /\ UNCHANGED <<job, inVars, memVars, sumVars, curAddr, remaining, segment, haveOrg>>

Exited == pc \in {"done", "failed", "crash", "adrift"} /\ UNCHANGED vars

ReadRec == ReadRecFails \/ DoText \/ DoStart \/ DoIdent \/ DoSym \/ DoReloc \/ DoEnd
Step == \/ ReadRec \/ PutCount \/ PutItem \/ TableDone \/ SumStart \/ SumByte \/ SumStore
        \/ StartOutput \/ SkipLine \/ WriteLine \/ EndOutput
Next == Step \/ Exited

Spec == Init /\ [][Next]_vars /\ WF_vars(Step)

-----------------------------------------------------------------------------
(* Properties *)

\* every variable keeps its type; a sum has 16 bits and a line only bytes
TypeOK ==
  /\ job \in Jobs
  /\ pc \in {"records", "count", "items", "sums", "add", "lines", "done", "failed", "crash",
             "adrift"}
  /\ recIdx \in 1..(Len(job.recs) + 1) /\ chkIdx \in 1..(Len(job.sums) + 1)
  /\ mem.ptr \in [Blocks -> 0..Len(mem.buf)] /\ mem.loaded \subseteq Blocks
  /\ \A i \in DOMAIN mem.buf : mem.buf[i] \in [0..(BlkSize - 1) -> Bytes]
  /\ Len(mem.buf) <= job.bufs
  /\ Htext \in Nat /\ (pc # "failed" => Htext <= Limit)
  /\ loc \in 0..(Seg - 1) /\ crc \in 0..(Seg - 1)
  /\ nreloc \in 0..(Seg - 1) /\ item \in 0..nreloc
  /\ curAddr \in 0..Limit /\ remaining \in 0..Limit
  /\ \A i \in DOMAIN out : out[i].bytes \in Seq(Bytes)
  /\ work \subseteq {"reloc", "swap"}

(* What a loader makes of the lines: the bytes at their addresses, and the base or the
   address that the next line goes by. *)
WordOf(high, low) == high * Byte + low
Lay(l, at, bytes) == [l EXCEPT !.image = [a \in DOMAIN @ \cup {at + i - 1 : i \in DOMAIN bytes} |->
                        IF a >= at /\ a - at + 1 \in DOMAIN bytes THEN bytes[a - at + 1] ELSE @[a]]]
Inner(line, from) == SubSeq(line.bytes, from, Len(line.bytes) - 1)
WordIn(line, i) == WordOf(line.bytes[i], line.bytes[i + 1])

LoadLine(l, line) ==
  CASE line.t = "ext"  -> [l EXCEPT !.base = WordIn(line, 5) * Nibble]
    [] line.t = "data" -> Lay(l, l.base + WordIn(line, 2), Inner(line, 5))
    [] line.t = "S1"   -> Lay(l, WordIn(line, 2), Inner(line, 4))
    [] line.t = "S2"   -> Lay(l, WordIn(line, 2) * Seg + WordIn(line, 4), Inner(line, 6))
    [] line.t = "ORG"  -> [l EXCEPT !.base = WordIn(line, 1)]
    [] line.t = "HEX"  -> [Lay(l, l.base, line.bytes) EXCEPT !.base = @ + Len(line.bytes)]
    [] line.t = "bin"  -> Lay(l, l.base + line.at, line.bytes)
    [] OTHER           -> l
LoadAll(base, lines) == Through(LoadLine, [base |-> base, image |-> <<>>], lines)
Loaded == LoadAll(IF job.fmt = "bin" THEN imageOffset ELSE 0, out).image

\* -H gives one ORG only: its image is right when no block is left out and 16 bits hold
\* the address
Loadable ==
  job.fmt = "asm" => Ltext < Seg /\ \A a \in Ltext..(Htext - 1) : mem.ptr[a \div BlkSize] # 0

\* every byte of the text, the table and the sums at its own address, and zeros only besides
BytesInPlace ==
  pc = "done" /\ Loadable =>
    LET loaded == Loaded IN
    /\ DOMAIN image \subseteq DOMAIN loaded
    /\ \A a \in DOMAIN loaded : loaded[a] = IF a \in DOMAIN image THEN image[a] ELSE 0

\* every line says how many bytes follow and closes with the right sum.  Not so the count of
\* an S2 line, which has a byte of the address more than counted, and the sum of the last
\* Intel line (README).
RecordsValid ==
  \A i \in DOMAIN out :
    LET l == out[i] IN
    /\ l.t \in {"data", "ext"} => /\ l.bytes[1] = Len(l.bytes) - 5
                                  /\ Plus(l.bytes) % Byte = 0
    /\ l.t \in {"S0", "S1", "S9"} => l.bytes[1] = Len(l.bytes) - 1
    /\ l.t \in {"S0", "S1", "S2", "S9"} => Plus(l.bytes) % Byte = Byte - 1

\* -R has left, at the address of its symbol, the number of items and the address of each of
\* them in the order of the file, whatever is put there later being the sums only.
Before(i, t) == {j \in 1..(i - 1) : job.recs[j].t = t}
ItemsRead == Before(recIdx, "RELOC")
TextBefore(i) == IF Before(i, "TEXT") = {} THEN 0 ELSE job.recs[Max(Before(i, "TEXT"))].off
Symbols == {i \in Before(recIdx, "SYM") : job.recs[i].name = relocSegName}
SymbolAt == IF Symbols = {} THEN 0 ELSE job.recs[Max(Symbols)].val
WordAt(a) == WordOf(image[a + 1], image[a])
TableWritten ==
  pc = "sums" /\ chkIdx = 1 /\ job.reloc = "R" =>
    /\ WordAt(SymbolAt) = Cardinality(ItemsRead)
    /\ \A i \in ItemsRead : WordAt(SymbolAt + 2 * Cardinality(ItemsRead \cap (1..i)))
                              = TextBefore(i) + job.recs[i].off

\* a sum of one or two bytes is that of the bytes between its addresses, as they are in the
\* image written, plus its offset; provided that no sum is put where another one looks or is
\* put.  A sum of one byte is put where a word would have its low byte (sub_2AD1).
Places(s) == IF big /\ s.where1 = s.where2 THEN {s.where1 + 1} ELSE s.where1..s.where2
Apart == \A i, j \in DOMAIN job.sums :
           /\ Places(job.sums[i]) \cap (job.sums[j].addr1..job.sums[j].addr2) = {}
           /\ i # j => Places(job.sums[i]) \cap Places(job.sums[j]) = {}
ByteAt(l, a) == IF a \in DOMAIN l THEN l[a] ELSE 0
SumOf(l, s) ==
  s.offset + Plus([i \in 1..Highest(0, s.addr2 - s.addr1 + 1) |-> ByteAt(l, s.addr1 + i - 1)])
Stored(l, s) == CASE s.where1 = s.where2 -> l[s.where1 + (IF big THEN 1 ELSE 0)]
                  [] s.where1 # s.where2 /\ big -> WordOf(l[s.where1], l[s.where2])
                  [] OTHER -> WordOf(l[s.where2], l[s.where1])
ChecksumTrue ==
  pc = "done" /\ Loadable /\ Apart =>
    LET loaded == Loaded IN
    \A s \in ToSet(job.sums) :
      s.where2 - s.where1 < 2 =>
        Stored(loaded, s) = SumOf(loaded, s) % (IF s.where1 = s.where2 THEN Byte ELSE Seg)

\* A run that ends well has written every byte of the text, the table and the sums at its
\* own address, in lines that are valid, whatever the borders of lines, blocks and segments
\* and whether memory was short (main's output loop, loadBlk, putMem); and the table and the
\* sums, which are taken from the image as the steps before left it, are right.
ImageFaithful == BytesInPlace /\ RecordsValid /\ TableWritten /\ ChecksumTrue

\* A run that ends, well or with a message, leaves neither reloc.$$$ nor swap.$$$.
WorkFilesGone == pc \in {"done", "failed"} => work = {}

\* Every run with text ends, if no sum reaches the last address of 16 bits: loc would begin
\* again at 0.
Terminates == image # <<>> /\ (\A s \in ToSet(job.sums) : s.addr2 < Seg - 1) ~>
                pc \in {"done", "failed", "crash"}
=============================================================================
