-------------------------------- MODULE Z80 --------------------------------
(***************************************************************************)
(* The processor that the assemblers write for: what the Z80, and the      *)
(* Z180 with its instructions of its own, take a sequence of bytes for.    *)
(* An opcode is read as the processor's manual lays it out, in the octal   *)
(* digits x, y and z, so that nothing here is shared with the way the      *)
(* assemblers put opcodes together.                                        *)
(***************************************************************************)
EXTENDS Integers, Sequences

\* an operand as it is written: a form, a register or a condition, and a number
Operand(f, r, n) == [f |-> f, r |-> r, n |-> n]
Reg(r)    == Operand("reg", r, 0)
Cond(c)   == IF c = "c" THEN Reg(c) ELSE Operand("cc", c, 0)
Ind(r)    == Operand("ind", r, 0)
Idx(r, n) == Operand("idx", r, n)
Mem(n)    == Operand("mem", "", n)
Int8(n)   == Operand("int", "", n)
Nothing   == Operand("none", "", 0)

Ins(m, a, b) == [m |-> m, a |-> a, b |-> b]
One(m, a)    == Ins(m, a, Nothing)
Bare(m)      == Ins(m, Nothing, Nothing)
Decoded(ins, len) == [ins |-> ins, len |-> len]
Undefined == Decoded(Bare("?"), 0)

R8   == <<"b", "c", "d", "e", "h", "l", "(hl)", "a">>
R16  == <<"bc", "de", "hl", "sp">>
Cc   == <<"nz", "z", "nc", "c", "po", "pe", "p", "m">>
Alu  == <<"add", "adc", "sub", "sbc", "and", "xor", "or", "cp">>
Rot  == <<"rlc", "rrc", "rl", "rr", "sla", "sra", "?", "srl">>
Acc  == <<"rlca", "rrca", "rla", "rra", "daa", "cpl", "scf", "ccf">>
Rept == <<<<"ldi", "cpi", "ini", "outi">>, <<"ldd", "cpd", "ind", "outd">>,
          <<"ldir", "cpir", "inir", "otir">>, <<"lddr", "cpdr", "indr", "otdr">>>>

Byte(b, i)   == b[i]
Word(b, i)   == b[i] + 256 * b[i + 1]
SignedByte(n) == IF n >= 128 THEN n - 256 ELSE n

\* hl is the register pair that stands for HL: HL, or IX or IY after their prefix
Pair16(p, hl) == IF p = 2 THEN Reg(hl) ELSE Reg(R16[p + 1])
Stack16(p, hl) == IF p = 3 THEN Reg("af") ELSE Pair16(p, hl)
\* register y; (HL) or (IX + d), with its distance in the byte after the opcode
At8(y, hl, b) ==
  IF y # 6 THEN Reg(R8[y + 1]) ELSE IF hl = "hl" THEN Ind("hl") ELSE Idx(hl, SignedByte(b[2]))
Ext(y, hl) == IF y = 6 /\ hl # "hl" THEN 1 ELSE 0
AluIns(y, o) == IF y \in {0, 1, 3} THEN Ins(Alu[y + 1], Reg("a"), o) ELSE One(Alu[y + 1], o)

\* x = 0
Block0(y, z, hl, b, at) ==
  LET p == y \div 2  q == y % 2  rel == at + 2 + SignedByte(b[2])
  IN CASE z = 0 /\ y = 0 -> Decoded(Bare("nop"), 1)
       [] z = 0 /\ y = 1 -> Decoded(Ins("ex", Reg("af"), Reg("af'")), 1)
       [] z = 0 /\ y = 2 -> Decoded(One("djnz", Int8(rel)), 2)
       [] z = 0 /\ y = 3 -> Decoded(One("jr", Int8(rel)), 2)
       [] z = 0 /\ y > 3 -> Decoded(Ins("jr", Cond(Cc[y - 3]), Int8(rel)), 2)
       [] z = 1 /\ q = 0 -> Decoded(Ins("ld", Pair16(p, hl), Int8(Word(b, 2))), 3)
       [] z = 1 /\ q = 1 -> Decoded(Ins("add", Reg(hl), Pair16(p, hl)), 1)
       [] z = 2 /\ y \in {0, 2} -> Decoded(Ins("ld", Ind(R16[p + 1]), Reg("a")), 1)
       [] z = 2 /\ y \in {1, 3} -> Decoded(Ins("ld", Reg("a"), Ind(R16[p + 1])), 1)
       [] z = 2 /\ y \in {4, 6} ->
            Decoded(Ins("ld", Mem(Word(b, 2)), IF y = 4 THEN Reg(hl) ELSE Reg("a")), 3)
       [] z = 2 /\ y \in {5, 7} ->
            Decoded(Ins("ld", IF y = 5 THEN Reg(hl) ELSE Reg("a"), Mem(Word(b, 2))), 3)
       [] z = 3 -> Decoded(One(IF q = 0 THEN "inc" ELSE "dec", Pair16(p, hl)), 1)
       [] z \in {4, 5} ->
            Decoded(One(IF z = 4 THEN "inc" ELSE "dec", At8(y, hl, b)), 1 + Ext(y, hl))
       [] z = 6 -> Decoded(Ins("ld", At8(y, hl, b), Int8(b[2 + Ext(y, hl)])), 2 + Ext(y, hl))
       [] z = 7 -> Decoded(Bare(Acc[y + 1]), 1)

\* x = 3
Block3(y, z, hl, b) ==
  LET p == y \div 2  q == y % 2
  IN CASE z = 0 -> Decoded(One("ret", Cond(Cc[y + 1])), 1)
       [] z = 1 /\ q = 0 -> Decoded(One("pop", Stack16(p, hl)), 1)
       [] z = 1 /\ y = 1 -> Decoded(Bare("ret"), 1)
       [] z = 1 /\ y = 3 -> Decoded(Bare("exx"), 1)
       [] z = 1 /\ y = 5 -> Decoded(One("jp", Ind(hl)), 1)
       [] z = 1 /\ y = 7 -> Decoded(Ins("ld", Reg("sp"), Reg(hl)), 1)
       [] z = 2 -> Decoded(Ins("jp", Cond(Cc[y + 1]), Int8(Word(b, 2))), 3)
       [] z = 3 /\ y = 0 -> Decoded(One("jp", Int8(Word(b, 2))), 3)
       [] z = 3 /\ y = 2 -> Decoded(Ins("out", Mem(b[2]), Reg("a")), 2)
       [] z = 3 /\ y = 3 -> Decoded(Ins("in", Reg("a"), Mem(b[2])), 2)
       [] z = 3 /\ y = 4 -> Decoded(Ins("ex", Ind("sp"), Reg(hl)), 1)
       [] z = 3 /\ y = 5 -> Decoded(Ins("ex", Reg("de"), Reg("hl")), 1)
       [] z = 3 /\ y > 5 -> Decoded(Bare(IF y = 6 THEN "di" ELSE "ei"), 1)
       [] z = 4 -> Decoded(Ins("call", Cond(Cc[y + 1]), Int8(Word(b, 2))), 3)
       [] z = 5 /\ q = 0 -> Decoded(One("push", Stack16(p, hl)), 1)
       [] z = 5 /\ y = 1 -> Decoded(One("call", Int8(Word(b, 2))), 3)
       [] z = 6 -> Decoded(AluIns(y, Int8(b[2])), 2)
       [] z = 7 -> Decoded(One("rst", Int8(8 * y)), 1)
       [] OTHER -> Undefined

Main(b, hl, at) ==
  LET o == b[1]  x == o \div 64  y == (o \div 8) % 8  z == o % 8
  IN CASE x = 0 -> Block0(y, z, hl, b, at)
       [] x = 1 -> IF y = 6 /\ z = 6 THEN Decoded(Bare("halt"), 1)
                   ELSE Decoded(Ins("ld", At8(y, hl, b), At8(z, hl, b)), 1 + Ext(y, hl) + Ext(z, hl))
       [] x = 2 -> Decoded(AluIns(y, At8(z, hl, b)), 1 + Ext(z, hl))
       [] x = 3 -> Block3(y, z, hl, b)

\* after CB, with the register or the memory that it works on
Bits(o, opnd, len) ==
  LET x == o \div 64  y == (o \div 8) % 8
  IN IF x = 0 THEN IF y = 6 THEN Undefined ELSE Decoded(One(Rot[y + 1], opnd), len)
     ELSE Decoded(Ins(<<"bit", "res", "set">>[x], Int8(y), opnd), len)

\* after ED
Extended(b) ==
  LET o == b[1]  x == o \div 64  y == (o \div 8) % 8  z == o % 8  p == y \div 2
  IN CASE x = 0 /\ z = 0 /\ y # 6 -> Decoded(Ins("in0", Reg(R8[y + 1]), Mem(b[2])), 3)
       [] x = 0 /\ z = 1 /\ y # 6 -> Decoded(Ins("out0", Mem(b[2]), Reg(R8[y + 1])), 3)
       [] x = 0 /\ z = 4 -> Decoded(One("tst", At8(y, "hl", b)), 2)
       [] x = 1 /\ z = 0 /\ y # 6 -> Decoded(Ins("in", Reg(R8[y + 1]), Ind("c")), 2)
       [] x = 1 /\ z = 1 /\ y # 6 -> Decoded(Ins("out", Ind("c"), Reg(R8[y + 1])), 2)
       [] x = 1 /\ z = 2 -> Decoded(Ins(IF y % 2 = 0 THEN "sbc" ELSE "adc", Reg("hl"), Pair16(p, "hl")), 2)
       [] x = 1 /\ z = 3 -> IF y % 2 = 0 THEN Decoded(Ins("ld", Mem(Word(b, 2)), Pair16(p, "hl")), 4)
                            ELSE Decoded(Ins("ld", Pair16(p, "hl"), Mem(Word(b, 2))), 4)
       [] o = 68 -> Decoded(Bare("neg"), 2)
       [] o = 100 -> Decoded(One("tst", Int8(b[2])), 3)
       [] o = 116 -> Decoded(One("tstio", Int8(b[2])), 3)
       [] o \in {76, 92, 108, 124} -> Decoded(One("mlt", Pair16(p, "hl")), 2)
       [] o \in {69, 77, 118} ->
            Decoded(Bare(CASE o = 69 -> "retn" [] o = 77 -> "reti" [] OTHER -> "slp"), 2)
       [] o \in {70, 86, 94} -> Decoded(One("im", Int8(CASE y = 0 -> 0 [] y = 2 -> 1 [] OTHER -> 2)), 2)
       [] x = 1 /\ z = 7 /\ y < 6 ->
            Decoded(CASE y = 0 -> Ins("ld", Reg("i"), Reg("a")) [] y = 1 -> Ins("ld", Reg("r"), Reg("a"))
                      [] y = 2 -> Ins("ld", Reg("a"), Reg("i")) [] y = 3 -> Ins("ld", Reg("a"), Reg("r"))
                      [] y = 4 -> Bare("rrd") [] OTHER -> Bare("rld"), 2)
       [] x = 2 /\ z < 4 /\ y > 3 -> Decoded(Bare(Rept[y - 3][z + 1]), 2)
       [] x = 2 /\ z = 3 /\ y < 4 -> Decoded(Bare(<<"otim", "otdm", "otimr", "otdmr">>[y + 1]), 2)
       [] OTHER -> Undefined

\* only what works on HL or (HL) has a form with IX or IY
Uses(ins, hl) == \E o \in {ins.a, ins.b} : o.r = hl
Longer(d) == IF d = Undefined THEN d ELSE [d EXCEPT !.len = @ + 1]
Prefixed(b, hl, at) ==
  IF b[1] = 203
  THEN IF b[3] % 8 = 6 THEN Bits(b[3], Idx(hl, SignedByte(b[2])), 4) ELSE Undefined
  ELSE LET d == Main(b, hl, at) IN IF Uses(d.ins, hl) THEN Longer(d) ELSE Undefined

\* What the processor takes b for, when it stands at location at.  The caller puts
\* as many bytes after the instruction as the longest has.
Decode(b, at) ==
  CASE b[1] = 221 -> Prefixed(Tail(b), "ix", at)
    [] b[1] = 253 -> Prefixed(Tail(b), "iy", at)
    [] b[1] = 237 -> Extended(Tail(b))
    [] b[1] = 203 -> Bits(b[2], At8(b[2] % 8, "hl", b), 2)
    [] OTHER      -> Main(b, "hl", at)

=============================================================================
