----------------------------- MODULE MCObjToHex -----------------------------
(***************************************************************************)
(* Instances of ObjToHex.  The sizes keep the order of the program's: a    *)
(* line in a block, blocks in a segment, some segments in the image, with  *)
(* 16 for 256, 16 for 1024, 1024 for 0x40000, 8 for 32 and 2 for 8.        *)
(***************************************************************************)
EXTENDS ObjToHex

End == [t |-> "END"]
Text(off, len, seed) == [t |-> "TEXT", off |-> off,
                         data |-> [i \in 1..len |-> (seed + 5 * i) % 16]]
Sym(name, val) == [t |-> "SYM", name |-> name, val |-> val]
Ident(b) == [t |-> "IDENT", big |-> b]
Item(off, kind) == [t |-> "RELOC", off |-> off, kind |-> kind]
Entry(val) == [t |-> "START", val |-> val]
TheSum(a1, a2, w1, w2, off) ==
  [addr1 |-> a1, addr2 |-> a2, where1 |-> w1, where2 |-> w2, offset |-> off]

Plain(fmt, recs) == [fmt |-> fmt, base |-> -1, reloc |-> "none", sums |-> <<>>, syms |-> FALSE,
                     recs |-> recs, bufs |-> 64]
Formats == {"intel", "srec", "asm", "bin"}

\* two texts about the borders of lines, blocks, segments and the image, in any order,
\* over each other or apart
Places1 == {<<0, 1>>, <<5, 3>>, <<8, 8>>, <<14, 20>>, <<240, 18>>, <<254, 2>>, <<255, 2>>, <<505, 9>>}
Places2 == {<<6, 3>>, <<15, 1>>, <<16, 16>>, <<30, 9>>, <<249, 40>>, <<256, 3>>, <<270, 4>>, <<512, 5>>}
TextJobs ==
  {Plain(f, <<Text(p[1], p[2], 1), Text(q[1], q[2], 2), End>>) :
     f \in Formats, p \in Places1, q \in Places2}
  \cup {Plain(f, <<Text(q[1], q[2], 1), Text(p[1], p[2], 2), End>>) :
     f \in Formats, p \in {<<5, 3>>, <<254, 2>>}, q \in {<<6, 3>>, <<256, 3>>}}

\* the end of the image, no text, no end, a start, a base above the text
OddJobs ==
  {Plain(f, r) : f \in Formats,
     r \in {<<Text(1022, 2, 1), End>>, <<Text(1022, 3, 1), End>>, <<Text(7, 0, 1), End>>,
            <<Text(0, 0, 1), End>>, <<End>>, <<Text(3, 2, 1)>>,
            <<Text(3, 2, 1), [t |-> "illegal"], End>>,
            <<Entry(2), Text(3, 2, 1), End>>, <<Text(3, 2, 1), Entry(300), End>>}}
  \cup {[Plain("bin", <<Text(20, 9, 1), Text(42, 2, 1), End>>) EXCEPT !.base = b] :
          b \in {0, 16, 25}}

\* the host has memory for one or two blocks
ShortJobs ==
  {[Plain(f, <<Ident(FALSE)>> \o r \o <<End>>) EXCEPT !.bufs = n, !.reloc = rel,
        !.sums = IF rel = "none" THEN <<>> ELSE <<TheSum(2, 40, 60, 60, 0)>>] :
     f \in {"intel", "bin"}, n \in {0, 1, 2}, rel \in {"none", "R"},
     r \in {<<Text(2, 3, 1)>>, <<Text(2, 3, 1), Text(20, 3, 2)>>,
            <<Text(20, 3, 1), Text(2, 3, 1), Text(50, 1, 1)>>,
            <<Text(2, 3, 1), Text(20, 3, 1), Text(2, 1, 1)>>}}

\* relocation tables, of absolute items or not, at the symbol's value
TableJobs ==
  {[Plain(f, <<Text(at, 9, 1)>> \o items \o <<Sym(nm, 40)>> \o <<Text(30, 2, 1), Sym("s", 2), End>>)
      EXCEPT !.reloc = rel, !.syms = s] :
     f \in {"intel"}, at \in {4, 251}, rel \in {"none", "R", "L"}, nm \in {"__Lbss", "t"}, s \in BOOLEAN,
     items \in {<<>>, <<Item(1, 2)>>, <<Item(5, 2), Item(1, 2), Item(3, 2)>>, <<Item(1, 4)>>,
                <<Item(1, 130), Item(3, 130)>>, <<Item(6, 2), Item(1, 130)>>}}

\* sums of one, two and four bytes, with both orders of bytes
SumJobs ==
  {[Plain(f, <<Ident(b), Text(4, 9, 1), Text(40, 3, 7), End>>) EXCEPT !.sums = s] :
     f \in {"srec", "bin"}, b \in BOOLEAN,
     s \in {<<TheSum(4, 12, 60, 61, 0)>>, <<TheSum(4, 12, 3, 3, 1)>>,
            <<TheSum(4, 12, 60, 63, 250)>>, <<TheSum(4, 12, 60, 62, 0)>>,
            <<TheSum(4, 6, 60, 61, 250), TheSum(7, 45, 62, 62, 0)>>,
            <<TheSum(0, 2, 14, 15, 0), TheSum(4, 5, 6, 7, 300), TheSum(20, 22, 80, 81, 7)>>,
            <<TheSum(12, 4, 60, 61, 9)>>}}
LastSum == {[Plain("intel", <<Text(250, 4, 1), End>>) EXCEPT !.sums = <<TheSum(250, 255, 2, 3, 0)>>]}

MCJobs == TextJobs \cup OddJobs \cup ShortJobs \cup TableJobs \cup SumJobs
=============================================================================
