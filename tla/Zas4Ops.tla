------------------------------ MODULE Zas4Ops ------------------------------
(***************************************************************************)
(* zas of version 4.11, the instructions.  Most functions are those of     *)
(* version 3.09 with the passes taken out of addObjByte and the like:      *)
(* optAddObjByte moves the location in the passes 0 and 1 and puts a byte  *)
(* only in pass 2.  What a function of version 4 puts is given by the      *)
(* function of ZasOps where the two do the same; branches and jumps differ.*)
(***************************************************************************)
EXTENDS Integers, Sequences

V3 == INSTANCE ZasOps

-----------------------------------------------------------------------------
(* As in version 3.09 *)

Kwd == V3!Kwd
EvalOperand(o, ccMode) == V3!EvalOperand(o, ccMode)
BadOperand(o) == V3!BadOperand(o)
NotPositiveAbs(o) == V3!NotPositiveAbs(o)
ParseArith8(tokVal, l) == V3!ParseArith8(tokVal, l)
ParseAdc_Sbc(tokVal, l, r) == V3!ParseAdc_Sbc(tokVal, l, r)
ParseAdd(tokVal, l, r) == V3!ParseAdd(tokVal, l, r)
ParsePush_Pop(tokVal, l) == V3!ParsePush_Pop(tokVal, l)
ParseEx(l, r) == V3!ParseEx(l, r)
ParseInc_Dec(tokVal, l) == V3!ParseInc_Dec(tokVal, l)
ParseIn_Out(opBase, tokVal, l, r) == V3!ParseIn_Out(opBase, tokVal, l, r)
ParseIn0_Out0(opBase, l, r) == V3!ParseIn0_Out0(opBase, l, r)
ParseBit_Rotate(tokVal, r) == V3!ParseBit_Rotate(tokVal, r)
ParseIm(l) == V3!ParseIm(l)
ParseLd(l, r) == V3!ParseLd(l, r)
ParseMlt(l) == V3!ParseMlt(l)
ParseTstio(l) == V3!ParseTstio(l)
ParseTst(l) == V3!ParseTst(l)

-----------------------------------------------------------------------------
(* Branches and jumps: a branch takes an address of this psect only *)

InReach(o, at) == o.rel /\ o.e - at \in -126..129

ParseDjnz_Jr(tokVal, l, r, at) == V3!ParseDjnz_Jr(tokVal, l, r, at)

\* In pass 2 a jump that -J looks at, and that is not in the table, has no opcode set
\* again: tokVal is still that of a branch.
ParseJp_Call(phase, jp, tokVal, l, r, at, j, tab) ==
  LET dst == IF r.t = "none" THEN l ELSE r
  IN IF ~(j /\ V3!MayShrink(jp, l, r)) THEN V3!Jump(jp, tokVal, l, r)
     ELSE CASE phase = 2 /\ tab  -> ParseDjnz_Jr(24, l, r, at)
            [] phase = 2 /\ ~tab -> V3!Jump(jp, 24, l, r)
            [] phase # 2 /\ InReach(dst, at)  -> ParseDjnz_Jr(24, l, r, at)
            [] phase # 2 /\ ~InReach(dst, at) -> V3!Jump(jp, 195, l, r)

-----------------------------------------------------------------------------

ParseBit(tokVal, l, r) ==
  V3!Wrong(V3!Count(V3!BadBit(l)) + V3!Count(NotPositiveAbs(l)),
           ParseBit_Rotate(tokVal + 8 * (IF l.e < 0 THEN 0 ELSE l.e), r))
ParseRotate(tokVal, l, j) ==
  IF j /\ l.t = "reg" /\ l.v = 7 /\ tokVal <= 24 THEN V3!Good(<<V3!Op(tokVal + 7)>>)
  ELSE ParseBit_Rotate(tokVal, l)
ParseRst(tokVal, l) == V3!ParseRst(tokVal, l)
ParseRet(tokVal, l) == V3!ParseRet(tokVal, l)
Simple(v, ins, ed) ==
  V3!Wrong(V3!Count(V3!Given(ins) > 0), V3!Good((IF ed THEN <<V3!Op(237)>> ELSE <<>>) \o <<V3!Op(v)>>))

\* doPass
Encode(ins, phase, at, j, tab) ==
  LET class == Kwd[ins.m][1]
      v == Kwd[ins.m][2]
      ccMode == class \in {"ret", "jr", "jp", "call"}
      l == EvalOperand(ins.a, ccMode)
      r == EvalOperand(ins.b, ccMode)
  IN IF \/ BadOperand(ins.a) \/ BadOperand(ins.b)
        \/ V3!Given(ins) < V3!AtLeast(class)
        \/ class \in V3!OnlyOne /\ V3!Given(ins) # 1
     THEN V3!OperErr(<<>>)
     ELSE V3!Wrong(V3!Count(V3!FarIndex(ins.a)) + V3!Count(V3!FarIndex(ins.b)),
       CASE class \in {"simple", "ed"} -> Simple(v, ins, class = "ed")
         [] class = "arith8"  -> ParseArith8(v, l)
         [] class = "adcsbc"  -> ParseAdc_Sbc(v, l, r)
         [] class = "add"     -> ParseAdd(v, l, r)
         [] class = "incdec"  -> ParseInc_Dec(v, l)
         [] class = "bit"     -> ParseBit(v, l, r)
         [] class = "rotate"  -> ParseRotate(v, l, j)
         [] class = "pushpop" -> ParsePush_Pop(v, l)
         [] class = "ex"      -> ParseEx(l, r)
         [] class = "im"      -> ParseIm(l)
         [] class = "rst"     -> ParseRst(v, l)
         [] class = "ret"     -> ParseRet(v, l)
         [] class \in {"jr", "djnz"} -> ParseDjnz_Jr(v, l, r, at)
         [] class \in {"jp", "call"} -> ParseJp_Call(phase, class = "jp", v, l, r, at, j, tab)
         [] class \in {"in", "out"}  ->
              IF class = "in" THEN ParseIn_Out(64, v, r, l) ELSE ParseIn_Out(65, v, l, r)
         [] class \in {"in0", "out0"} ->
              IF class = "in0" THEN ParseIn0_Out0(0, r, l) ELSE ParseIn0_Out0(1, l, r)
         [] class = "mlt"     -> ParseMlt(l)
         [] class = "tst"     -> ParseTst(l)
         [] class = "tstio"   -> ParseTstio(l)
         [] class = "ld"      -> ParseLd(l, r))

\* For comparison: a word that moves it by one.
MovesShort(parts) == Len(parts)
\* optAddObjByte, optAddObjRelocByte, optAddObjRelocWord: in the passes 0 and 1 only the
\* location moves
Moves(parts) == LET n[i \in 0..Len(parts)] ==
                      IF i = 0 THEN 0 ELSE n[i - 1] + V3!Width(parts[i])
                IN n[Len(parts)]

=============================================================================
