------------------------------ MODULE ZasCodes ------------------------------
(***************************************************************************)
(* One instruction through the passes of an assembler, version 3.09        *)
(* (ZasOps) or 4.11 (Zas4Ops): the passes 0 and 1 move the location and    *)
(* remember jumps that -J makes into branches, pass 2 puts the bytes.      *)
(***************************************************************************)
EXTENDS Integers, Sequences, FiniteSets, ZasOps

V4 == INSTANCE Zas4Ops

CONSTANTS
  Cases,         \* which assembler, and whether with -J
  Instructions,  \* what may be written
  Here           \* where it stands, in a psect that is not the absolute one

ASSUME CodesAssumption == Cases \subseteq {"zas", "zas4"} \X BOOLEAN /\ Here \in Nat

VARIABLES
  line,     \* the instruction
  which,   \* the assembler and -J
  phase,   \* phase; 3 when doPass is left
  tab,     \* jOptTab for it
  moved,   \* how far each pass moved the location
  errs,    \* errors of pass 2
  obj      \* the bytes of pass 2
vars == <<line, which, phase, tab, moved, errs, obj>>

Init ==
  /\ line \in Instructions
  /\ which \in {c \in Cases : c[2] => Kwd[line.m][1] \in {"jp", "rotate"}}  \* what -J changes
  /\ phase = 0 /\ tab = FALSE /\ moved = <<>> /\ errs = 0 /\ obj = <<>>

Result ==
  IF which[1] = "zas" THEN Encode(line, phase, Here, which[2], tab)
  ELSE V4!Encode(line, phase, Here, which[2], tab)

Bytes(parts) == LET b[i \in 0..Len(parts)] ==
                      IF i = 0 THEN <<>> ELSE b[i - 1] \o BytesOf(parts[i])
                IN b[Len(parts)]

\* a jump that is in reach is entered in jOptTab
Enters ==
  LET class == Kwd[line.m][1]
      l == EvalOperand(line.a, TRUE)
      r == EvalOperand(line.b, TRUE)
  IN /\ which[2] /\ phase # 2 /\ class = "jp" /\ Given(line) > 0
     /\ ~BadOperand(line.a) /\ ~BadOperand(line.b)
     /\ MayShrink(TRUE, l, r) /\ InReach(IF r.t = "none" THEN l ELSE r, Here)

Pass ==
  /\ phase < 3
  /\ phase' = phase + 1
  /\ tab' = (tab \/ Enters)
  /\ moved' = Append(moved, V4!Moves(Result.parts))
  /\ IF phase = 2
     THEN /\ obj' = Bytes(Result.parts)
          /\ errs' = Result.err + Cardinality({i \in DOMAIN Result.parts : TooWide(Result.parts[i])})
     ELSE UNCHANGED <<obj, errs>>
  /\ UNCHANGED <<line, which>>

Ended == phase = 3 /\ UNCHANGED vars

Next == Pass \/ Ended
Spec == Init /\ [][Next]_vars

-----------------------------------------------------------------------------
(* What the processor makes of it *)

Assembled == phase = 3 /\ errs = 0
Padded == obj \o <<1, 2, 3, 4, 5>>
Meaning == Decode(Padded, Here)

SameNumber(x, y) == x % 65536 = y \/ (x \in -128..-1 /\ x + 256 = y) \/ x = y
\* a label is a number by now, and (IX) is (IX + 0)
SameOperand(w, d) ==
  \/ w.f \in {"int", "lab"} /\ d.f = "int" /\ SameNumber(w.n, d.n)
  \/ w.f = "mem" /\ d.f = "mem" /\ SameNumber(w.n, d.n)
  \/ w.f = "ind" /\ d = Idx(w.r, 0)
  \/ w.f \notin {"int", "lab", "mem"} /\ w = d
Same(w, d) == w.m = d.m /\ SameOperand(w.a, d.a) /\ SameOperand(w.b, d.b)
\* what -J may put for it
Shorter(w) ==
  CASE w.m = "jp" -> {[w EXCEPT !.m = "jr"]}
    [] w.m \in {"rlc", "rrc", "rl", "rr"} /\ w.a = Reg("a") -> {Bare(w.m \o "a")}
    [] OTHER -> {}
MeansIt ==
  /\ Meaning.len = Len(obj)
  /\ \E w \in {line} \cup (IF which[2] THEN Shorter(line) ELSE {}) : Same(w, Meaning.ins)

\* Operands that no instruction has, and that are taken all the same: a second operand
\* of an instruction of one, LD A with a register pair, LD to (C), (SP) or (AF), MLT of
\* IX or AF, and a distance from IX in a jump.
Overlooked ==
  \/ Kwd[line.m][1] \in {"incdec", "pushpop", "mlt", "ret"} /\ line.b.f # "none"
  \/ line.m = "ld" /\ line.a = Reg("a") /\ line.b.f = "reg" /\ RegNo(line.b.r) >= R_BC
  \/ line.m = "ld" /\ line.a.f = "ind" /\ line.a.r \in {"c", "sp", "af"} /\ line.b = Reg("a")
  \/ line.m = "mlt" /\ line.a.r \in {"af", "af'", "ix", "iy"}
  \/ line.m = "jp" /\ line.a.f = "idx"

-----------------------------------------------------------------------------

\* The state is that of one instruction between two passes.
TypeOK ==
  /\ line.m \in DOMAIN Kwd /\ which \in Cases
  /\ phase \in 0..3 /\ tab \in BOOLEAN
  /\ Len(moved) = phase /\ \A i \in DOMAIN moved : moved[i] \in 0..4
  /\ errs \in Nat /\ Len(obj) \in 0..4 /\ \A i \in DOMAIN obj : obj[i] \in 0..255

\* every pass moves the location as far as there are bytes in the object file
PassesMoveAlike == Assembled => \A i \in 1..3 : moved[i] = Len(obj)

\* What is assembled without an error is, to the processor, the instruction that was
\* written, with its registers and its numbers, and ends where its bytes end, in every
\* pass, so that the labels after it are right; the only other ones taken are those
\* overlooked (the parse functions of parse.c, addObjByte and optAddObjByte).
MeansWhatItSays == Assembled => (MeansIt \/ Overlooked) /\ PassesMoveAlike

\* A jump that is assembled without an error is one that goes where it is told to:
\* "Attempt to optimize jumps to branches" (zas4/main.c) does not change the others.
JumpsJump == Assembled /\ line.m = "jp" => MeansIt \/ Overlooked

\* the instructions the processor has, by what is written but for the numbers
Shape(i) == <<i.m, i.a.f, i.a.r, i.b.f, i.b.r>>
Opcodes ==
  {<<o>> : o \in 0..255} \cup {<<p, o>> : p \in {203, 237, 221, 253}, o \in 0..255}
    \cup {<<p, 203, 5, o>> : p \in {221, 253}, o \in 0..255}
Shapes == {Shape(Decode(o \o <<5, 0, 0, 0, 0>>, 0).ins) : o \in Opcodes}
\* the shape with (IX) written for (IX + d), but not the other way about in a jump
Known(i) ==
  LET As(o) == IF o.f = "ind" /\ o.r \in {"ix", "iy"} /\ i.m # "jp" THEN Idx(o.r, 0)
               ELSE IF o.f = "lab" THEN [o EXCEPT !.f = "int"] ELSE o
  IN Shape(Ins(i.m, As(i.a), As(i.b))) \in Shapes
Wide(i) ==  \* an instruction with a number of two bytes, or an address
  \/ i.m \in {"jp", "call", "jr", "djnz"}
  \/ i.m = "ld" /\ (i.a.f = "mem" \/ i.b.f = "mem" \/ (i.a.f = "reg" /\ RegNo(i.a.r) >= R_BC))
Fits(i) ==
  /\ \A o \in {i.a, i.b} : o.f = "idx" => o.n \in -128..127
  /\ \A o \in {i.a, i.b} : o.f \in {"int", "mem"} /\ ~Wide(i) => o.n \in -128..255
  /\ i.m = "im" => i.a.n \in 0..2
  /\ i.m = "rst" => i.a.n \in {8 * y : y \in 0..7}
  /\ Kwd[i.m][1] = "bit" => i.a.n \in 0..7
  /\ i.m \in {"jr", "djnz"} =>
       \E o \in {i.a, i.b} : o.f = "lab" /\ o.n - Here \in -126..129
  /\ \A o \in {i.a, i.b} : o.f = "lab" => Wide(i)

\* Every instruction of the processor can be written, with every number that it has
\* room for.
EveryInstruction == phase = 3 /\ Known(line) /\ Fits(line) => errs = 0

=============================================================================
