------------------------------- MODULE ZasOps -------------------------------
(***************************************************************************)
(* zas, the instructions: which operands each takes, and the opcodes and   *)
(* fields that it puts into the object file for them.  Each operator is    *)
(* one of the functions that doPass calls for an instruction; tokVal is    *)
(* the number that the table of keywords has for the mnemonic, l and r are *)
(* the operands lOp and rOp.                                               *)
(***************************************************************************)
EXTENDS Integers, Sequences, Z80

-----------------------------------------------------------------------------
(* The keywords *)

RegCode == [b |-> 0, c |-> 1, d |-> 2, e |-> 3, h |-> 4, l |-> 5, a |-> 7, i |-> 16, r |-> 17,
            bc |-> 32, de |-> 34, hl |-> 36, sp |-> 38, af |-> 39, ix |-> 221, iy |-> 253]
RegNo(r) == IF r = "af'" THEN 40 ELSE RegCode[r]
CcCode == [nz |-> 0, z |-> 1, nc |-> 2, po |-> 4, pe |-> 5, p |-> 6, m |-> 7]
R_C == 1   R_A == 7    R_I == 16  R_BC == 32  R_DE == 34
R_HL == 36 R_SP == 38  R_AF == 39 R_AFQ == 40 R_IX == 221

\* the class and the number of a mnemonic
Kwd ==
  [nop |-> <<"simple", 0>>, rlca |-> <<"simple", 7>>, rrca |-> <<"simple", 15>>,
   rla |-> <<"simple", 23>>, rra |-> <<"simple", 31>>, daa |-> <<"simple", 39>>,
   cpl |-> <<"simple", 47>>, scf |-> <<"simple", 55>>, ccf |-> <<"simple", 63>>,
   halt |-> <<"simple", 118>>, exx |-> <<"simple", 217>>, di |-> <<"simple", 243>>,
   ei |-> <<"simple", 251>>, neg |-> <<"ed", 68>>, retn |-> <<"ed", 69>>, reti |-> <<"ed", 77>>,
   rrd |-> <<"ed", 103>>, rld |-> <<"ed", 111>>, slp |-> <<"ed", 118>>, otim |-> <<"ed", 131>>,
   otdm |-> <<"ed", 139>>, otimr |-> <<"ed", 147>>, otdmr |-> <<"ed", 155>>, ldi |-> <<"ed", 160>>,
   cpi |-> <<"ed", 161>>, ini |-> <<"ed", 162>>, outi |-> <<"ed", 163>>, ldd |-> <<"ed", 168>>,
   cpd |-> <<"ed", 169>>, ind |-> <<"ed", 170>>, outd |-> <<"ed", 171>>, ldir |-> <<"ed", 176>>,
   cpir |-> <<"ed", 177>>, inir |-> <<"ed", 178>>, otir |-> <<"ed", 179>>, lddr |-> <<"ed", 184>>,
   cpdr |-> <<"ed", 185>>, indr |-> <<"ed", 186>>, otdr |-> <<"ed", 187>>,
   add |-> <<"add", 128>>, adc |-> <<"adcsbc", 136>>, sub |-> <<"arith8", 144>>,
   sbc |-> <<"adcsbc", 152>>, and |-> <<"arith8", 160>>, xor |-> <<"arith8", 168>>,
   or |-> <<"arith8", 176>>, cp |-> <<"arith8", 184>>, inc |-> <<"incdec", 4>>,
   dec |-> <<"incdec", 5>>, bit |-> <<"bit", 64>>, res |-> <<"bit", 128>>, set |-> <<"bit", 192>>,
   rlc |-> <<"rotate", 0>>, rrc |-> <<"rotate", 8>>, rl |-> <<"rotate", 16>>, rr |-> <<"rotate", 24>>,
   sla |-> <<"rotate", 32>>, sra |-> <<"rotate", 40>>, srl |-> <<"rotate", 56>>,
   push |-> <<"pushpop", 197>>, pop |-> <<"pushpop", 193>>, ex |-> <<"ex", 235>>, im |-> <<"im", 70>>,
   rst |-> <<"rst", 199>>, ret |-> <<"ret", 201>>, jr |-> <<"jr", 24>>, djnz |-> <<"djnz", 16>>,
   jp |-> <<"jp", 195>>, call |-> <<"call", 205>>, in |-> <<"in", 219>>, out |-> <<"out", 211>>,
   in0 |-> <<"in0", 0>>, out0 |-> <<"out0", 1>>, mlt |-> <<"mlt", 76>>, tst |-> <<"tst", 4>>,
   tstio |-> <<"tstio", 0>>, ld |-> <<"ld", 64>>]

-----------------------------------------------------------------------------
(* What an instruction comes to: what it puts, the errors, and whether operErr or
   syntaxErr left it in the middle, by the longjmp *)

Op(x)  == <<"op", x % 256>>
F1(o) == <<"byte", o.e>>
F2(o) == <<"word", o.e>>
Good(parts) == [stop |-> FALSE, err |-> 0, parts |-> parts]
OperErr(parts) == [stop |-> TRUE, err |-> 1, parts |-> parts]
When(g, parts) == IF g THEN Good(parts) ELSE OperErr(<<>>)
Wrong(n, res) == [res EXCEPT !.err = @ + n]

Pair(v) == 16 * ((v % 8) \div 2)      \* (v & 6) << 3
Count(b) == IF b THEN 1 ELSE 0

\* an operand as evalOperand leaves it: its type, tVal, its value, and whether that is
\* the address of a label in this psect
Val(t, v, e, rel) == [t |-> t, v |-> v, e |-> e, rel |-> rel]

\* evalOperand; ccMode is floatMode = 1, where C is a condition
EvalOperand(o, ccMode) ==
  CASE o.f = "none" -> Val("none", 0, 0, FALSE)
    [] o.f = "reg" /\ ccMode /\ o.r = "c" -> Val("cc", 3, 0, FALSE)
    [] o.f = "reg" /\ ~(ccMode /\ o.r = "c") -> Val("reg", RegNo(o.r), 0, FALSE)
    [] o.f = "cc" -> Val("cc", CcCode[o.r], 0, FALSE)
    [] o.f = "ind" -> Val(IF RegNo(o.r) >= R_IX THEN "indexed" ELSE "regind", RegNo(o.r), 0, FALSE)
    [] o.f = "idx" -> Val("indexed", RegNo(o.r), o.n, FALSE)
    [] o.f = "mem" -> Val("mem", 0, o.n, FALSE)
    [] o.f \in {"int", "lab"} -> Val("int", 0, o.n, o.f = "lab")
\* For comparison: the C of IN and OUT, (C), held to be no address.
BadOperandC(o) ==
  \/ o.f = "ind" /\ RegNo(o.r) < R_BC
  \/ o.f = "idx" /\ RegNo(o.r) < R_IX
\* what makes it end in operErr, and what it only reports
BadOperand(o) ==
  \/ o.f = "ind" /\ RegNo(o.r) # R_C /\ RegNo(o.r) < R_BC
  \/ o.f = "idx" /\ RegNo(o.r) < R_IX
FarIndex(o) == o.f = "idx" /\ o.n \notin -128..127

NotPositiveAbs(o) == o.rel \/ o.e < 0

-----------------------------------------------------------------------------

ParseArith8(tokVal, l) ==
  CASE l.t = "indexed" -> Good(<<Op(l.v), Op(tokVal + 6), F1(l)>>)
    [] l.t = "regind"  -> When(l.v = R_HL, <<Op(tokVal + 6)>>)
    [] l.t = "reg"     -> When(l.v <= R_A, <<Op(tokVal + l.v)>>)
    [] l.t = "int"     -> Good(<<Op(tokVal + 70), F1(l)>>)
    [] OTHER           -> OperErr(<<>>)

ParseAdc_Sbc(tokVal, l, r) ==
  CASE l.t # "reg" -> OperErr(<<>>)
    [] l.t = "reg" /\ l.v = R_A -> ParseArith8(tokVal, r)
    [] OTHER -> When(r.t = "reg" /\ l.v = R_HL /\ r.v \in R_BC..R_SP,
                     <<Op(237), Op((IF tokVal = 136 THEN 74 ELSE 66) + Pair(r.v))>>)

ParseAdd(tokVal, l, r) ==
  CASE l.t # "reg" \/ (l.v \notin {R_A, R_HL} /\ l.v < R_IX) -> OperErr(<<>>)
    [] l.t = "reg" /\ l.v = R_A -> ParseArith8(tokVal, r)
    [] OTHER -> When(r.t = "reg" /\ r.v \in {l.v, R_DE, R_BC, R_SP},
                     (IF l.v >= R_IX THEN <<Op(l.v)>> ELSE <<>>) \o <<Op(9 + Pair(r.v))>>)

ParsePush_Pop(tokVal, l) ==
  IF l.t # "reg" \/ l.v < R_BC \/ l.v \in {R_SP, R_AFQ} THEN OperErr(<<>>)
  ELSE IF l.v >= R_IX THEN Good(<<Op(l.v), Op(tokVal + Pair(R_HL))>>)
  ELSE Good(<<Op(tokVal + Pair(l.v))>>)

ParseEx(l, r) ==
  CASE l.t = "regind" /\ l.v = R_SP /\ r.t = "reg" /\ r.v = R_HL -> Good(<<Op(227)>>)
    [] l.t = "regind" /\ l.v = R_SP /\ r.t = "reg" /\ r.v >= R_IX -> Good(<<Op(r.v), Op(227)>>)
    [] l.t = "reg" /\ r.t = "reg" /\ l.v = R_DE /\ r.v = R_HL -> Good(<<Op(235)>>)
    [] l.t = "reg" /\ r.t = "reg" /\ l.v = R_AF /\ r.v = R_AFQ -> Good(<<Op(8)>>)
    [] OTHER -> OperErr(<<>>)

ParseInc_Dec(tokVal, l) ==
  LET wide == IF tokVal = 4 THEN 3 ELSE 11
  IN CASE l.t = "reg" /\ l.v >= R_IX -> Good(<<Op(l.v), Op(wide + Pair(R_HL))>>)
       [] l.t = "reg" /\ l.v \in R_BC..(R_IX - 1) ->
            When(l.v \notin {R_AF, R_AFQ}, <<Op(wide + Pair(l.v))>>)
       [] l.t = "reg" /\ l.v < R_BC -> When(l.v <= R_A, <<Op(tokVal + 8 * l.v)>>)
       [] l.t = "indexed" -> Good(<<Op(l.v), Op(48 + tokVal), F1(l)>>)
       [] l.t = "regind"  -> When(l.v = R_HL, <<Op(48 + tokVal)>>)
       [] OTHER -> OperErr(<<>>)

\* l is the port and r the register, for IN as well
ParseIn_Out(opBase, tokVal, l, r) ==
  IF l.t = "mem" THEN When(r.t = "reg" /\ r.v = R_A, <<Op(tokVal), F1(l)>>)
  ELSE When(l.t = "regind" /\ l.v = R_C /\ r.t = "reg" /\ r.v <= R_A,
            <<Op(237), Op(opBase + 8 * r.v)>>)
ParseIn0_Out0(opBase, l, r) ==
  When(l.t = "mem" /\ r.t = "reg" /\ r.v <= R_A, <<Op(237), Op(opBase + 8 * r.v), F1(l)>>)

ParseBit_Rotate(tokVal, r) ==
  CASE r.t = "indexed" -> Good(<<Op(r.v), Op(203), F1(r), Op(tokVal + 6)>>)
    [] r.t = "regind"  -> When(r.v = R_HL, <<Op(203), Op(tokVal + 6)>>)
    [] r.t = "reg"     -> When(r.v <= R_A, <<Op(203), Op(tokVal + r.v)>>)
    [] OTHER           -> OperErr(<<>>)
BadBit(l) == l.t # "int" \/ l.e \notin 0..7
ParseBit(tokVal, l, r) ==
  Wrong(Count(BadBit(l)) + Count(NotPositiveAbs(l)),
        ParseBit_Rotate(tokVal + 8 * (IF l.e < 0 THEN 0 ELSE l.e), r))
\* with -J the rotations of A are those of one byte
ParseRotate(tokVal, l, j) ==
  IF j /\ l.t = "reg" /\ l.v = R_A /\ tokVal <= 24 THEN Good(<<Op(tokVal + 7)>>)
  ELSE ParseBit_Rotate(tokVal, l)

ParseIm(l) ==
  IF l.t # "int" THEN OperErr(<<>>)
  ELSE Wrong(Count(l.e \notin 0..2 \/ l.rel),
             Good(<<Op(237)>> \o (IF l.e \in 0..2 THEN <<Op(<<70, 86, 94>>[l.e + 1])>> ELSE <<>>)))

ParseRst(tokVal, l) ==
  IF l.t # "int" \/ l.e \notin {8 * y : y \in 0..7} THEN OperErr(<<>>)
  ELSE Wrong(Count(NotPositiveAbs(l)), Good(<<Op(tokVal + l.e)>>))

ParseRet(tokVal, l) ==
  IF l.t = "none" THEN Good(<<Op(tokVal)>>) ELSE When(l.t = "cc", <<Op(192 + 8 * l.v)>>)

ParseMlt(l) == When(l.t = "reg" /\ l.v >= R_BC, <<Op(237), Op(76 + Pair(l.v))>>)
ParseTstio(l) == When(l.t = "int", <<Op(237), Op(116), F1(l)>>)
ParseTst(l) ==
  CASE l.t = "reg"    -> When(l.v <= R_A, <<Op(237), Op(8 * l.v + 4)>>)
    [] l.t = "int"    -> Good(<<Op(237), Op(100), F1(l)>>)
    [] l.t = "regind" -> When(l.v = R_HL, <<Op(237), Op(52)>>)
    [] OTHER          -> OperErr(<<>>)

-----------------------------------------------------------------------------
(* LD, by the operand on the left *)

LdPair(l, r) ==
  LET ix == l.v >= R_IX
      p  == IF ix THEN R_HL ELSE l.v
      prefix == IF ix THEN <<Op(l.v)>> ELSE <<>>
  IN CASE l.v \in {R_AF, R_AFQ} -> OperErr(<<>>)
       [] l.v = R_SP /\ r.t = "reg" ->
            IF r.v >= R_IX THEN Good(<<Op(r.v), Op(249)>>) ELSE When(r.v = R_HL, <<Op(249)>>)
       [] r.t = "int" -> Good(prefix \o <<Op(Pair(p) + 1), F2(r)>>)
       [] r.t = "mem" -> Good(prefix \o (IF p = R_HL THEN <<Op(42)>> ELSE <<Op(237), Op(Pair(p) + 75)>>)
                              \o <<F2(r)>>)
       [] OTHER -> OperErr(prefix)

LdRegReg(l, r) ==
  CASE r.v < R_I /\ l.v < R_I -> When(r.v <= R_A, <<Op(64 + r.v + 8 * l.v)>>)
    [] l.v = R_A /\ r.v >= R_I -> Good(<<Op(237), Op(80 + (IF r.v = R_I THEN 7 ELSE 15))>>)
    [] OTHER -> When(r.v = R_A, <<Op(237), Op(64 + (IF l.v = R_I THEN 7 ELSE 15))>>)

LdReg8(l, r) ==
  CASE l.v > R_A        -> OperErr(<<>>)
    [] r.t = "int"      -> Good(<<Op(6 + 8 * l.v), F1(r)>>)
    [] r.t = "indexed"  -> Good(<<Op(r.v), Op(70 + 8 * l.v), F1(r)>>)
    [] r.t = "regind"   -> IF r.v = R_HL THEN Good(<<Op(70 + 8 * l.v)>>)
                           ELSE When(l.v = R_A /\ r.v \in {R_DE, R_BC}, <<Op(10 + Pair(r.v))>>)
    [] r.t = "mem"      -> When(l.v = R_A, <<Op(58), F2(r)>>)
    [] OTHER            -> OperErr(<<>>)

\* For comparison: the test of the register on the right left out.
LdIndAny(l, r) ==
  IF r.t = "int" /\ l.v = R_HL THEN Good(<<Op(54), F1(r)>>)
  ELSE When(r.t = "reg" /\ (l.v = R_HL \/ r.v = R_A),
            IF l.v = R_HL THEN <<Op(112 + r.v)>> ELSE <<Op(16 * ((l.v % 32) \div 2) + 2)>>)

LdInd(l, r) ==
  IF r.t = "int" /\ l.v = R_HL THEN Good(<<Op(54), F1(r)>>)
  ELSE When(r.t = "reg" /\ r.v <= R_A /\ (l.v = R_HL \/ r.v = R_A),
            IF l.v = R_HL THEN <<Op(112 + r.v)>> ELSE <<Op(16 * ((l.v % 32) \div 2) + 2)>>)

LdMem(l, r) ==
  CASE r.t # "reg"  -> OperErr(<<>>)
    [] r.t = "reg" /\ r.v < R_BC -> When(r.v = R_A, <<Op(50), F2(l)>>)
    [] OTHER ->
         LET prefix == IF r.v >= R_IX THEN <<Op(r.v)>> ELSE <<>>
         IN IF r.v = R_HL \/ r.v >= R_IX THEN Good(prefix \o <<Op(34), F2(l)>>)
            ELSE When(r.v <= R_SP, <<Op(237), Op(Pair(r.v) + 67), F2(l)>>)

LdIdx(l, r) ==
  CASE r.t = "int" -> Good(<<Op(l.v), Op(54), F1(l), F1(r)>>)
    [] r.t = "reg" /\ r.v <= R_A -> Good(<<Op(l.v), Op(r.v + 112), F1(l)>>)
    [] OTHER -> OperErr(<<Op(l.v)>>)

ParseLd(l, r) ==
  CASE l.t = "reg" /\ l.v >= R_BC -> LdPair(l, r)
    [] l.t = "reg" /\ l.v < R_BC /\ r.t = "reg" -> LdRegReg(l, r)
    [] l.t = "reg" /\ l.v < R_BC /\ r.t # "reg" -> LdReg8(l, r)
    [] l.t = "regind"  -> LdInd(l, r)
    [] l.t = "mem"     -> LdMem(l, r)
    [] l.t = "indexed" -> LdIdx(l, r)
    [] OTHER           -> OperErr(<<>>)

-----------------------------------------------------------------------------
(* Jumps.  at is where the instruction is; the psect is not the absolute one. *)

InReach(o, at) == o.rel /\ o.e - at \in -126..129

ParseDjnz_Jr(tokVal, l, r, at) ==
  LET two == r.t # "none"
      dst == IF two THEN r ELSE l
      op  == IF two THEN 32 + 8 * l.v ELSE tokVal
  IN IF (two /\ (l.t # "cc" \/ l.v > 3)) \/ dst.t # "int" THEN OperErr(<<>>)
     ELSE Wrong(Count(~InReach(dst, at)), Good(<<Op(op), Op(dst.e - at - 2)>>))

\* parseJp_Call: whether -J looks at this jump, and what it is otherwise
MayShrink(jp, l, r) ==
  /\ jp
  /\ (IF r.t = "none" THEN l ELSE r).t = "int"
  /\ r.t = "none" \/ (l.t = "cc" /\ l.v <= 3)

Jump(jp, tokVal, l, r) ==
  LET two == r.t # "none"
      dst == IF two THEN r ELSE l
      op  == IF two THEN 8 * l.v + (IF jp THEN 194 ELSE 196) ELSE tokVal
  IN CASE (two /\ l.t # "cc") \/ ((two \/ ~jp) /\ dst.t # "int") -> OperErr(<<>>)
       [] dst.t = "int"     -> Good(<<Op(op), F2(dst)>>)
       [] dst.t = "indexed" -> Good(<<Op(dst.v), Op(233)>>)
       [] OTHER -> When(dst.t = "regind" /\ dst.v = R_HL, <<Op(233)>>)

\* whether it becomes a branch: decided in the passes 0 and 1, kept in jOptTab for pass 2
Shrinks(phase, jp, l, r, at, tab) ==
  IF phase = 2 THEN tab ELSE InReach(IF r.t = "none" THEN l ELSE r, at)

ParseJp_Call(phase, jp, tokVal, l, r, at, j, tab) ==
  IF j /\ MayShrink(jp, l, r)
  THEN IF Shrinks(phase, jp, l, r, at, tab) THEN ParseDjnz_Jr(24, l, r, at) ELSE Jump(jp, 195, l, r)
  ELSE Jump(jp, tokVal, l, r)

-----------------------------------------------------------------------------

\* how many operands there must be, and may be; more are seen by no one but needOneOperand
AtLeast(class) ==
  CASE class \in {"simple", "ed", "ret"} -> 0
    [] class \in {"add", "ex", "adcsbc", "out", "in", "bit", "ld", "out0", "in0"} -> 2
    [] OTHER -> 1
OnlyOne == {"arith8", "rst", "djnz", "rotate", "im", "tst", "tstio"}
Given(ins) == IF ins.a.f = "none" THEN 0 ELSE IF ins.b.f = "none" THEN 1 ELSE 2

\* doPass, for a line with this instruction
Encode(ins, phase, at, j, tab) ==
  LET class == Kwd[ins.m][1]
      v == Kwd[ins.m][2]
      ccMode == class \in {"ret", "jr", "jp", "call"}
      l == EvalOperand(ins.a, ccMode)
      r == EvalOperand(ins.b, ccMode)
  IN IF \/ BadOperand(ins.a) \/ BadOperand(ins.b)
        \/ Given(ins) < AtLeast(class)
        \/ class \in OnlyOne /\ Given(ins) # 1
     THEN OperErr(<<>>)
     ELSE Wrong(Count(FarIndex(ins.a)) + Count(FarIndex(ins.b)),
       CASE class = "simple"  -> Wrong(Count(Given(ins) > 0), Good(<<Op(v)>>))
         [] class = "ed"      -> Wrong(Count(Given(ins) > 0), Good(<<Op(237), Op(v)>>))
         [] class = "arith8"  -> ParseArith8(v, l)
         [] class = "adcsbc"  -> ParseAdc_Sbc(v, l, r)
         [] class = "add"     -> ParseAdd(v, l, r)
         [] class = "incdec"  -> ParseInc_Dec(v, l)
         [] class = "bit"     -> ParseBit(v, l, r)
         [] class = "rotate"  -> ParseRotate(v, l, j)
         [] class = "pushpop" -> ParsePush_Pop(v, l)
         [] class = "ex"      -> ParseEx(l, r)
         [] class = "im"      -> ParseIm(l)
         [] class = "rst"     -> ParseRst(v, l)
         [] class = "ret"     -> ParseRet(v, l)
         [] class \in {"jr", "djnz"} -> ParseDjnz_Jr(v, l, r, at)
         [] class \in {"jp", "call"} -> ParseJp_Call(phase, class = "jp", v, l, r, at, j, tab)
         [] class = "in"      -> ParseIn_Out(64, v, r, l)
         [] class = "out"     -> ParseIn_Out(65, v, l, r)
         [] class = "in0"     -> ParseIn0_Out0(0, r, l)
         [] class = "out0"    -> ParseIn0_Out0(1, l, r)
         [] class = "mlt"     -> ParseMlt(l)
         [] class = "tst"     -> ParseTst(l)
         [] class = "tstio"   -> ParseTstio(l)
         [] class = "ld"      -> ParseLd(l, r))

\* addObjByte and the like: what is put in pass 2, and how far the location moves in the others
Width(part) == IF part[1] = "word" THEN 2 ELSE 1
\* For comparison: a byte that is not cut to its eight bits.
BytesOfUncut(part) ==
  LET x == part[2] IN IF part[1] = "word" THEN <<x % 256, (x \div 256) % 256>> ELSE <<x>>
BytesOf(part) ==
  LET x == part[2] IN IF part[1] = "word" THEN <<x % 256, (x \div 256) % 256>> ELSE <<x % 256>>
TooWide(part) == part[1] = "byte" /\ part[2] \notin -128..255

=============================================================================
