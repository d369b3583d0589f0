----------------------------- MODULE OptimFlow -----------------------------
(* The first of optim's passes (sub_15ad): jumps, labels, code nothing      *)
(* reaches, and what a caller does to the stack after a call.  Each         *)
(* operator takes the state at one instruction to the state after it.      *)
EXTENDS OptimCode

\* The condition that holds when cc does not (ccSwap).
Opposite == [z |-> "nz", nz |-> "z", c |-> "nc", nc |-> "c", po |-> "pe", pe |-> "po", p |-> "m", m |-> "p"]
Is(i, t, aux) == i.t = t /\ i.aux = aux
IsExx(i) == Is(i, "simple", "exx")
JumpsToCret(i) == i.t = "jp" /\ i.l.sym = "cret"            \* sub_4000

(* sub_1795: ld hl,n; add hl,sp; ld sp,hl.  In a function with a frame it   *)
(* is of no use when the next thing the stack is for is the return, which   *)
(* sets SP from IX; and pops are shorter than it for a few bytes.           *)
TakesArgs(L) ==
  LET i == Here(L) IN
  /\ i.t = "ld" /\ i.l = Reg("sp") /\ L.g > 3
  /\ L.c[L.g - 1].t = "add"
  /\ LET h == L.c[L.g - 2] IN h.t = "ld" /\ h.l = Reg("hl") /\ h.r.t = "const"
Adjustment(L) == L.c[L.g - 2].r.val
NextStackUse(L) ==
  LET from == IF IsExx(Next1(L)) THEN L.g + 2 ELSE L.g + 1
  IN SelectInSubSeq(L.c, from, Len(L.c),
        LAMBDA i : i.t \in {"call", "jp", "stk"} \/ (i.t = "ex" /\ i.l.reg = "sp"))
RestoredAnyway(L, fr) ==
  /\ Adjustment(L) > 0 /\ fr
  /\ LET k == NextStackUse(L) IN k # 0 /\ L.c[k].aux = "" /\ JumpsToCret(L.c[k])
\* For comparison: any return will do.
RestoredAnywayBare(L, fr) ==
  Adjustment(L) > 0 /\ LET k == NextStackUse(L) IN k # 0 /\ JumpsToCret(L.c[k])
FewBytes(L) ==
  LET n == Adjustment(L)
      size == IF n < 0 THEN -n ELSE n
  IN n >= 0 /\ size - (IF IsExx(L.c[L.g - 3]) THEN 2 ELSE 0) <= 8

PopBC == Instr("stk", "", "pop", Reg("bc"), Absent)
IncSP == Instr("incdec", "", "inc", Reg("sp"), Absent)
Pops(n) == [k \in 1 .. (n + 1) \div 2 |-> IF 2 * k <= n THEN PopBC ELSE IncSP]
\* The three instructions make way for new ones, and for none the exx around too.
Adjusted(L, new) ==
  LET k == L.g - 3
      M == [L EXCEPT !.c = SubSeq(@, 1, k) \o new \o SubSeq(@, L.g + 1, Len(@)), !.g = k + Len(new)]
      exx == IsExx(M.c[k]) /\ IsExx(Next1(M))
  IN Log(IF exx THEN Unlink(Unlink(M, M.g + 1), k) ELSE M)
CanAdjust(L, fr) == TakesArgs(L) /\ (RestoredAnyway(L, fr) \/ FewBytes(L))
Adjust(L, fr) == Adjusted(L, IF RestoredAnyway(L, fr) THEN <<>> ELSE Pops(Adjustment(L)))

----------------------------------------------------------------------------
Target(L) == IF Here(L).l.t = "ref" THEN 0 ELSE Where(L.c, Here(L).l.sym)
Retarget(L, s) == AddRef(RemoveLabelRef([L EXCEPT !.c[L.g].l.sym = s], Here(L).l.sym), s)

\* sub_1aec: of labels at one place the last is used.
LastLabel(L) == GetNextRealInst(L.c, Target(L)) - 1
RedundantLabel(L) == Target(L) # 0 /\ LastLabel(L) # Target(L)
UseLastLabel(L) == Log(Retarget(L, L.c[LastLabel(L)].aux))

\* sub_1b86: a jump to a jump goes where that one goes.
Onward(L) == L.c[GetNextRealInst(L.c, Target(L))]
JumpToJump(L) ==
  /\ Target(L) # 0 /\ Onward(L).t = "jp"
  /\ Onward(L).aux \in {"", Here(L).aux} /\ Onward(L).l.sym # Here(L).l.sym
\* For comparison: whatever the condition of the second jump.
JumpToJumpAny(L) ==
  Target(L) # 0 /\ Onward(L).t = "jp" /\ Onward(L).l.sym # Here(L).l.sym
JumpOnward(L) == Log(Retarget(L, Onward(L).l.sym))

RECURSIVE DropUnreachable(_)
DropUnreachable(L) ==
  IF Next1(L).t \in {"inv", "label"} THEN L
  ELSE DropUnreachable(Log(RemoveInstruction(L, L.g + 1)))

\* sub_1071: code between two jumps, which the second jump goes to, moves up
\* to it, and the second jump is not needed any more.
BeforeTarget(L) == SelectLastInSubSeq(L.c, 1, Target(L) - 1, LAMBDA i : i.t # "label")
BlockEnd(L) ==
  SelectInSubSeq(L.c, BeforeTarget(L) + 1, Len(L.c), LAMBDA i : i.t = "inv" \/ Is(i, "jp", ""))
CanMove(L) ==
  /\ Is(L.c[BeforeTarget(L)], "jp", "")
  /\ L.c[BlockEnd(L)].t = "jp" /\ BlockEnd(L) # L.g
MoveCode(L) ==
  LET a == BeforeTarget(L) + 1
      b == BlockEnd(L)
      c == L.c
      g == L.g
      M == IF a < g
           THEN [L EXCEPT !.g = g - (b - a + 1),
                   !.c = SubSeq(c, 1, a - 1) \o SubSeq(c, b + 1, g) \o SubSeq(c, a, b) \o SubSeq(c, g + 1, Len(c))]
           ELSE [L EXCEPT
                   !.c = SubSeq(c, 1, g) \o SubSeq(c, a, b) \o SubSeq(c, g + 1, a - 1) \o SubSeq(c, b + 1, Len(c))]
  IN Log(RemoveInstruction(M, M.g))

\* A jump over an unconditional jump or call: the opposite condition does it.
SkipsOver(L) ==
  /\ Here(L).l.t = "const" /\ Target(L) = L.g + 2
  /\ Next1(L).t \in {"call", "jp"} /\ Next1(L).aux = ""
Invert(L) == Log(RemoveInstruction(Put(L, L.g + 1, [Next1(L) EXCEPT !.aux = Opposite[Here(L).aux]]), L.g))

\* sub_1c67: what two jumps to one place have before them is done once.
RECURSIVE TailLength(_, _, _)
TailLength(c, a, b) ==
  IF InstructionsSame(c[a - 1], c[b - 1]) THEN 1 + TailLength(c, a - 1, b - 1) ELSE 0
SameTails(L) ==
  {k \in L.g + 1 .. Len(L.c) : InstructionsSame(L.c[k], Here(L)) /\ TailLength(L.c, k, L.g) > 0}
SharesTail(L) == Here(L).aux = "" /\ SameTails(L) # {}
ShareTail(L) ==
  LET k == CHOOSE j \in SameTails(L) : \A i \in SameTails(L) : j <= i
      n == TailLength(L.c, k, L.g)
      jump == Instr("jp", "", "", Name(SyntheticName(L)), Absent)
      M == SyntheticLabel(Insert(RemoveInstruction(L, k), k - n - 1, jump), L.g - n - 1)
  IN Log(AddRef(M, SyntheticName(L)))

\* sub_1d94: what follows a conditional jump and its label alike is done
\* before the jump; nothing of it may change the flags (sub_4625).
KeepsFlags(i) ==
  \/ i.t \in {"ld", "stk"}
  \/ i.t = "incdec" /\ i.l.t = "reg" /\ IsPair(i.l.reg)
  \/ i.t = "ex" /\ i.l.reg # "af"
\* For comparison: any instruction at all.
KeepsFlagsAny(i) == i.t \notin {"jp", "call", "ret", "djnz"}
RECURSIVE HeadLength(_, _, _)
HeadLength(c, a, b) ==
  IF KeepsFlags(c[b + 1]) /\ InstructionsSame(c[a + 1], c[b + 1]) THEN 1 + HeadLength(c, a + 1, b + 1) ELSE 0
SharesHead(L) == Here(L).aux # "" /\ Target(L) # 0 /\ HeadLength(L.c, L.g, Target(L)) > 0
ShareHead(L) ==
  LET n == HeadLength(L.c, L.g, Target(L))
      t == Target(L) + n
      named == L.c[t + 1].t = "label"
      to == IF named THEN L.c[t + 1].aux ELSE SyntheticName(L)
      M == IF named THEN L ELSE SyntheticLabel(L, t)
      jump == [Here(L) EXCEPT !.op = "", !.l = Name(to)]
  IN Log(RemoveInstruction(AddRef(Insert(M, M.g + n, jump), to), M.g))

----------------------------------------------------------------------------
JumpVisit(L) ==
  IF Here(L).l.t = "const" /\ Target(L) = L.g + 1 THEN Log(RemoveInstruction(L, L.g))
  ELSE LET M == IF Here(L).aux = "" THEN DropUnreachable(L) ELSE L
           free == Here(M).aux = "" /\ Here(M).l.t = "const" /\ Target(M) # 0
       IN IF free /\ BeforeTarget(M) = M.g THEN Log(RemoveInstruction(M, M.g))
          ELSE IF free /\ CanMove(M) THEN MoveCode(M)
          ELSE IF SkipsOver(M) THEN Invert(M)
          ELSE IF SharesTail(M) THEN ShareTail(M)
          ELSE IF SharesHead(M) THEN ShareHead(M)
          ELSE M

\* One turn of the loop in sub_15ad, without the step to the next instruction.
FlowVisit(L, fr) ==
  IF CanAdjust(L, fr) THEN Adjust(L, fr)
  ELSE IF Here(L).t # "jp" THEN L
  ELSE IF RedundantLabel(L) THEN UseLastLabel(L)
  ELSE IF JumpToJump(L) THEN JumpOnward(L)
  ELSE JumpVisit(L)
=============================================================================
