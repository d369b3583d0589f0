----------------------------- MODULE OptimCode -----------------------------
(* What optim works on: the instructions of one function in a list, with    *)
(* the operations on the list that keep the counts of the labels' uses.     *)
(*                                                                          *)
(* An operand is [t, reg, val, sym]: its kind, the register, the constant   *)
(* or displacement, the symbol.  An instruction is [t, op, aux, l, r, n]:   *)
(* its kind, the text of the mnemonic that was read ("" when it is to be    *)
(* found from kind and aux), which one of its kind (a condition for jumps   *)
(* and calls, the name of a label), two operands, and n, the uses of a      *)
(* label or the number of a temporary one.                                  *)
(*                                                                          *)
(* The optimiser's state is one record: c the list, its first and its last  *)
(* instruction of kind "inv"; g the instruction the pass has come to (gPi); *)
(* v what is known of the registers (regValues), d the distance of HL from  *)
(* the value in v["trk"] (hlDelta); id the number of labels made; ch        *)
(* whether this pass has changed anything (hasChanged); bad whether the     *)
(* program gave up (pr_error).                                              *)
EXTENDS Integers, Sequences, FiniteSets, SequencesExt, TLC

CONSTANT Public     \* the symbols whose name starts with an underscore

Many == 1000000     \* INT_MAX: the uses of a label others can use too

RegOrder == <<"b", "c", "d", "e", "h", "l", "f", "a", "i", "r", "bc", "de",
              "hl", "sp", "af", "af'", "ix", "iy", "trk">>
RegNo == [r \in ToSet(RegOrder) |-> CHOOSE k \in DOMAIN RegOrder : RegOrder[k] = r]
IsPair(r) == RegNo[r] >= RegNo["bc"]
Halves == [bc |-> <<"b", "c">>, de |-> <<"d", "e">>, hl |-> <<"h", "l">>, af |-> <<"a", "f">>]
Mask(r) == IF r \in DOMAIN Halves THEN ToSet(Halves[r])
           ELSE IF r \in {"", "i", "r", "sp", "af'"} THEN {} ELSE {r}

Operand(t, r, n, s) == [t |-> t, reg |-> r, val |-> n, sym |-> s]
Absent  == Operand("none", "", 0, "")
Unknown == Operand("inv", "", 0, "")
Reg(r)  == Operand("reg", r, 0, "")
Const(n) == Operand("const", "", n, "")
Name(s)  == Operand("const", "", 0, s)
Instr(t, op, aux, l, r) == [t |-> t, op |-> op, aux |-> aux, l |-> l, r |-> r, n |-> 0]
End == Instr("inv", "", "", Absent, Absent)

OperandsSame(a, b) == a = b /\ a.t # "inv"
InstructionsSame(i, j) ==
  /\ i.t \notin {"inv", "label"} /\ i.t = j.t /\ i.aux = j.aux
  /\ OperandsSame(i.l, j.l) /\ OperandsSame(i.r, j.r)

\* Where label s is, 0 when it is no label of this function: pInst of a symbol.
Where(c, s) == SelectInSeq(c, LAMBDA i : i.t = "label" /\ i.aux = s)
\* The first instruction from k on that is no label.
GetNextRealInst(c, k) == SelectInSubSeq(c, k, Len(c), LAMBDA i : i.t # "label")

Here(L) == L.c[L.g]
Next1(L) == L.c[L.g + 1]
Prev1(L) == L.c[L.g - 1]
Log(L) == [L EXCEPT !.ch = TRUE]
Put(L, k, i) == [L EXCEPT !.c[k] = i]

Unlink(L, k) == [L EXCEPT !.c = RemoveAt(@, k), !.g = IF k <= @ THEN @ - 1 ELSE @]
Insert(L, k, i) == [L EXCEPT !.c = InsertAt(@, k + 1, i), !.g = IF k < @ THEN @ + 1 ELSE @]

AddRef(L, s) == LET k == Where(L.c, s) IN IF k = 0 THEN L ELSE [L EXCEPT !.c[k].n = @ + 1]
\* For comparison: the label is taken away while one use is left.
RemoveLabelRefEarly(L, s) ==
  LET k == Where(L.c, s) IN
  IF k = 0 THEN L
  ELSE IF L.c[k].n = 0 THEN [L EXCEPT !.bad = TRUE]
  ELSE IF L.c[k].n <= 2 THEN Log(Unlink(L, k))
  ELSE [L EXCEPT !.c[k].n = @ - 1]
RemoveLabelRef(L, s) ==
  LET k == Where(L.c, s) IN
  IF k = 0 THEN L
  ELSE IF L.c[k].n = 0 THEN [L EXCEPT !.bad = TRUE]
  ELSE IF L.c[k].n = 1 THEN Log(Unlink(L, k))
  ELSE [L EXCEPT !.c[k].n = @ - 1]

\* A jump that goes takes its use of the label with it, and the label when
\* it was the last use; the place of the jump is one less then.
RemoveInstruction(L, k) ==
  LET i == L.c[k]
      M == RemoveLabelRef(L, i.l.sym)
      w == Where(L.c, i.l.sym)
  IN IF i.t = "jp" /\ i.l.t = "const" /\ i.l.sym # ""
     THEN Unlink(M, IF w < k /\ Len(M.c) < Len(L.c) THEN k - 1 ELSE k)
     ELSE Unlink(L, k)

SyntheticName(L) == "L" \o ToString(L.id + 1)
SyntheticLabel(L, k) ==
  Insert([L EXCEPT !.id = @ + 1], k, Instr("label", "", SyntheticName(L), Absent, Absent))

----------------------------------------------------------------------------
(* sub_0ed1: each temporary label that is used becomes one with a name. *)

TempUses(c, k) ==
  LET from == SelectLastInSubSeq(c, 1, k - 1, LAMBDA i : i.t = "tmp" /\ i.n = c[k].n)
  IN {j \in from + 1 .. k - 1 : c[j].l.t = "fwd" /\ c[j].l.val = c[k].n}
\* For comparison: uses before the label alone are looked for.
BackUseNone(c, k) == {}
\* Only the first use from behind is found, and of numbers under ten.
BackUse(c, k) ==
  IF c[k].n >= 10 THEN {}
  ELSE {SelectInSubSeq(c, k + 1, Len(c), LAMBDA i : i.l.t = "bwd" /\ i.l.val = c[k].n)} \ {0}
NameTemp(L, k) ==
  LET uses == TempUses(L.c, k) \cup BackUse(L.c, k)
      to == Name(SyntheticName(L))
      M == [L EXCEPT !.c = [j \in DOMAIN @ |-> IF j \in uses THEN [@[j] EXCEPT !.l = to] ELSE @[j]]]
  IN Log(Unlink(IF TempUses(L.c, k) # {} \/ L.c[k].n < 10 THEN SyntheticLabel(M, k) ELSE M, k))
RECURSIVE NameTemps(_)
NameTemps(L) ==
  LET k == SelectLastInSeq(L.c, LAMBDA i : i.t = "tmp")
  IN IF k = 0 THEN L ELSE NameTemps(NameTemp(L, k))

(* chkIXYUsage, and sub_122f: the uses of every label, by the jumps and by  *)
(* the tables of the switches.                                              *)
Indexes(o) == o.t = "idx"
UsesIXorIY(c) ==
  \E k \in DOMAIN c : \/ Indexes(c[k].l) \/ Indexes(c[k].r)
                      \/ c[k].l.t = "reg" /\ RegNo[c[k].l.reg] >= RegNo["ix"]
Uses(c, s) == Cardinality({k \in DOMAIN c : c[k].t \in {"jp", "djnz"} /\ c[k].l = Name(s)})
InTable(tab, s) == Cardinality({k \in DOMAIN tab : tab[k] = s})
CountUses(c, tab) ==
  [k \in DOMAIN c |->
    IF c[k].t # "label" THEN c[k]
    ELSE [c[k] EXCEPT !.n = (IF c[k].aux \in Public THEN Many ELSE 0)
                            + Uses(c, c[k].aux) + InTable(tab, c[k].aux)]]
=============================================================================
