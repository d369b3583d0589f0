----------------------------- MODULE OptimRegs -----------------------------
(* The second of optim's passes (sub_1ec1): it keeps what is known of the   *)
(* registers along a stretch of code, and takes out or shortens what loads  *)
(* what is there already or what nobody uses.                               *)
EXTENDS OptimFlow

Reads(o, m) == o.t \in {"reg", "idx", "ref"} /\ m \cap Mask(o.reg) # {}      \* sub_475c
Writes(o, m) == o.t = "reg" /\ m \cap Mask(o.reg) # {}                       \* sub_47a2

(* sub_47e0: is what register r holds before instruction k used?  At most   *)
(* 41 instructions are looked at; stop is an instruction known to set r.    *)
ReturnRegs == {"d", "e", "h", "l"}
Flat == {"nop", "cpl", "scf", "ccf", "neg", "halt", "di", "ei"}
Shifts == {"sla", "sra", "sll", "srl"}
\* For comparison: a function gives nothing back.
ReturnRegsNone == {}
CallVerdict(i, r, m) ==
  IF i.aux # "" /\ "f" \in m THEN "used" ELSE IF r = "iy" THEN "go"
  ELSE IF i.l.sym = "" \/ i.l.sym \in Public \/ m \ {"f"} = {} THEN "free" ELSE "used"
IncDecVerdict(i, m) ==
  IF "f" \in m /\ ~(i.l.t = "reg" /\ IsPair(i.l.reg)) THEN "free"
  ELSE IF i.l.t = "reg" \/ Reads(i.l, m) THEN "used" ELSE "go"
LoadVerdict(i, m) ==
  IF OperandsSame(i.l, i.r) THEN "go" ELSE IF Reads(i.r, m) THEN "used"
  ELSE IF Writes(i.l, m) THEN "free" ELSE IF Reads(i.l, m) THEN "used" ELSE "go"
\* What one instruction says of the register: used, free, or go on.
Verdict(i, r, m) ==
  CASE i.t = "call" -> CallVerdict(i, r, m)
    [] i.t = "simple" -> IF i.aux \notin Flat /\ "a" \in m THEN "used" ELSE "go"
    [] i.t = "two" -> IF r # "iy" THEN "used" ELSE "go"
    [] i.t = "alu" ->
         IF i.aux = "xor" /\ i.l.t = "reg" /\ i.l.reg = "a" /\ r = "a" THEN "free"
         ELSE IF "a" \in m THEN "used" ELSE IF "f" \in m THEN "free"
         ELSE IF Reads(i.l, m) THEN "used" ELSE "go"
    [] i.t = "shift" -> IF i.aux \notin Shifts /\ "f" \in m THEN "used" ELSE IncDecVerdict(i, m)
    [] i.t = "incdec" -> IncDecVerdict(i, m)
    [] i.t = "bit" -> IF i.aux = "bit" /\ "f" \in m THEN "free"
                      ELSE IF Reads(i.l, m) \/ Reads(i.r, m) THEN "used" ELSE "go"
    [] i.t = "djnz" -> IF "b" \in m THEN "used" ELSE "go"
    [] i.t = "stk" -> IF m \cap Mask(i.l.reg) = {} THEN "go" ELSE IF i.aux = "push" THEN "used" ELSE "free"
    [] i.t = "ex" -> IF (i.l.t = "ref" /\ m \cap Mask(i.r.reg) # {}) \/ m \cap ReturnRegs # {}
                     THEN "used" ELSE "go"
    [] i.t \in {"add", "carr"} ->
         IF i.t = "add" /\ "f" \in m THEN "free"
         ELSE IF m \cap (Mask(i.l.reg) \cup {"f"}) # {} \/ Reads(i.r, m) THEN "used" ELSE "go"
    [] i.t = "ld" -> LoadVerdict(i, m)
    [] i.t = "inv" -> IF m \cap ReturnRegs # {} THEN "used" ELSE "free"
    [] OTHER -> "go"
\* A jump is followed; a stretch between two exx is passed over.
JumpVerdict(c, i, m) ==
  IF i.aux # "" \/ i.l.t = "ref" \/ i.l.sym = "" THEN "used"
  ELSE IF Where(c, i.l.sym) # 0 THEN "go"
  ELSE IF i.l.sym # "cret" \/ m \cap ReturnRegs # {} THEN "used" ELSE "free"
ExxEnd(c, k) ==
  LET j == SelectInSubSeq(c, k + 1, Len(c), LAMBDA i : IsExx(i) \/ i.t \notin {"ld", "stk", "add"})
  IN IF IsExx(c[j]) THEN j ELSE 0
RECURSIVE UsedFrom(_, _, _, _, _, _)
UsedFrom(c, r, m, k, stop, n) ==
  LET i == c[k]
      last == IF i.t = "jp" THEN Where(c, i.l.sym) ELSE IF IsExx(i) THEN ExxEnd(c, k) ELSE k
      verdict == IF i.t = "jp" THEN JumpVerdict(c, i, m)
                 ELSE IF IsExx(i) THEN (IF last = 0 THEN "free" ELSE "go") ELSE Verdict(i, r, m)
  IN IF verdict # "go" THEN verdict = "used"
     ELSE IF last + 1 = stop THEN FALSE
     ELSE n = 0 \/ UsedFrom(c, r, m, last + 1, stop, n - 1)
Used(L, r, k, stop) ==
  \/ r \in {"sp", "ix"}
  \/ IF r \in {"bc", "de", "hl"}
     THEN \E b \in Mask(r) : UsedFrom(L.c, b, {b}, k, stop, 40)
     ELSE UsedFrom(L.c, r, Mask(r), k, stop, 40)
UsedLater(L, r) == Used(L, r, L.g + 1, L.g)

----------------------------------------------------------------------------
(* What is known of the registers.                                          *)

\* For comparison: the pair a byte is part of stays known.
KeptAlone(r) == {r} \cup Mask(r)
Kept(r) == {r} \cup Mask(r) \cup {p \in {"bc", "de", "hl", "af"} : r \in Mask(p)}
Forget(L, r) ==
  LET gone == Kept(r) \cup (IF Mask(r) \cap {"h", "l"} # {} THEN {"trk"} ELSE {})
  IN [L EXCEPT !.d = IF Mask(r) \cap {"h", "l"} # {} THEN 0 ELSE @,
        !.v = [q \in DOMAIN @ |-> IF q \in gone \/ (r = "iy" /\ @[q].t = "idx" /\ @[q].reg = "iy")
                                  THEN Unknown ELSE @[q]]]
ForgetAll(L) == [L EXCEPT !.v = [q \in DOMAIN @ |-> Unknown]]
Learn(L, r, o) == [L EXCEPT !.v[r] = o]

Cached(L, o, from) ==
  {k \in RegNo[from] .. RegNo["hl"] : OperandsSame(L.v[RegOrder[k]], o)}
AsByte(r) == IF IsPair(r) THEN Halves[r][2] ELSE r
\* sub_46b1: a register that holds operand o, a byte or a pair as r is, or "".
Holds(L, o, r) ==
  LET found == Cached(L, o, IF IsPair(r) THEN "bc" ELSE "b")
      first == RegOrder[CHOOSE k \in found : \A j \in found : k <= j]
  IN IF found = {} THEN "" ELSE IF IsPair(r) THEN first ELSE AsByte(first)
\* For comparison: a store leaves everything known.
ForgetStoreNot(L, o) == L
\* sub_44b2: o has been stored to.
ForgetStore(L, o) ==
  LET held == {AsByte(RegOrder[k]) : k \in Cached(L, o, "b")}
      M == FoldSeq(LAMBDA r, N : Forget(N, r), L, SetToSeq(held))
      N == IF OperandsSame(M.v["iy"], o) THEN Forget(M, "iy") ELSE M
  IN IF OperandsSame(N.v["trk"], o) THEN Learn(N, "trk", Unknown) ELSE N

SwapHLDE(L) ==
  LET other == [q \in DOMAIN L.v |-> CASE q = "hl" -> "de" [] q = "de" -> "hl" [] q = "h" -> "d"
                                       [] q = "d" -> "h" [] q = "l" -> "e" [] q = "e" -> "l" [] OTHER -> q]
  IN Learn([L EXCEPT !.v = [q \in DOMAIN @ |-> L.v[other[q]]]], "trk", Unknown)
IsZero(o) == o.t = "const" /\ o.sym = "" /\ o.val = 0
As(o, r) == [o EXCEPT !.t = "reg", !.reg = r]
IsReg(o, r) == o.t = "reg" /\ o.reg = r
Kill(L) == Log(RemoveInstruction(L, L.g))

----------------------------------------------------------------------------
(* Loads.  An operator that may finish the visit gives [to, done].          *)
Done(L) == [to |-> L, done |-> TRUE]
On(L) == [to |-> L, done |-> FALSE]

\* sub_3053: HL is a few steps from what is to be loaded.
NearLoad(L) ==
  LET i == Here(L) IN
  /\ i.l.t = "reg" /\ i.l.reg \in {"hl", "l"} /\ OperandsSame(i.r, L.v["trk"])
  /\ i.l.reg = "l" => /\ Next1(L).t = "ld" /\ IsReg(Next1(L).l, "h")
                      /\ Next1(L).r.val = i.r.val + 1
IncHL(n) == Instr("incdec", "", IF n < 0 THEN "inc" ELSE "dec", Reg("hl"), Absent)
StepToLoad(L) ==
  LET i == Here(L)
      size == IF L.d < 0 THEN -L.d ELSE L.d
      known == IF i.l.reg = "l" THEN Learn(Learn(Forget(L, "hl"), "l", i.l), "h", Next1(L).l)
               ELSE Learn(Forget(L, "hl"), "hl", i.l)
      M == Unlink(IF i.l.reg = "l" THEN Unlink(known, L.g + 1) ELSE known, L.g)
  IN Log([M EXCEPT !.g = @ + size,
            !.c = SubSeq(@, 1, M.g) \o [k \in 1 .. size |-> IncHL(L.d)] \o SubSeq(@, M.g + 1, Len(@))])

\* sub_29c3: a register is loaded from memory or with a constant.
LoadReg(L) ==
  LET i == Here(L)
      r == i.l.reg
      M == Learn(Forget(L, r), r, i.r)
      from == Holds(Forget(L, r), i.r, r)
      half(n) == [i EXCEPT !.l.reg = Halves[r][n], !.r = As(i.r, Halves[from][n])]
      high == Instr("ld", "", "", Reg(Halves[r][1]), Reg(Halves[from][1]))
  IN IF OperandsSame(i.r, L.v[r]) \/ ~UsedLater(L, r) THEN Done(Kill(L))
     ELSE IF RegNo[r] > RegNo["hl"] \/ from = "" THEN On(M)
     ELSE IF IsPair(r)
     THEN Done(Log([Insert(Put(M, L.g, half(2)), L.g, high) EXCEPT !.g = L.g + 1]))
     ELSE Done(Log(Put(M, L.g, [i EXCEPT !.r = As(i.r, from)])))

\* A register is stored.
StoreReg(L) ==
  LET i == Here(L)
      M == ForgetStore(L, i.l)
  IN IF OperandsSame(i.l, L.v[i.r.reg]) THEN Done(Kill(L))
     ELSE On(IF M.v[i.r.reg].t = "inv" THEN Learn(Forget(M, i.r.reg), i.r.reg, i.l) ELSE M)
\* A constant is stored in the frame.
StoreConst(L) ==
  LET i == Here(L)
      r == Holds(L, i.r, "a")
  IN IF r # "" THEN Done(Log(Put(L, L.g, [i EXCEPT !.r = As(i.r, r)]))) ELSE On(ForgetStore(L, i.l))

\* A register is copied: ld e,l with ld d,h after it becomes ex de,hl.
CopyReg(L) ==
  LET i == Here(L)
      back == Next1(L).t = "ld" /\ OperandsSame(Next1(L).l, i.r) /\ OperandsSame(Next1(L).r, i.l)
      M == IF back THEN Log(Unlink(L, L.g + 1)) ELSE L
      n == Next1(M)
      exchange == [i EXCEPT !.t = "ex", !.op = "", !.l.reg = "de", !.r.reg = "hl"]
  IN IF i.l.reg = i.r.reg \/ OperandsSame(L.v[i.l.reg], L.v[i.r.reg]) THEN Done(Kill(L))
     ELSE IF ~UsedLater(M, i.l.reg) THEN Done(Kill(M))
     ELSE IF /\ i.l.reg = "e" /\ i.r.reg = "l" /\ n.t = "ld" /\ IsReg(n.l, "d") /\ IsReg(n.r, "h")
             /\ ~Used(M, "hl", M.g + 2, M.g)
     THEN Done(Log(SwapHLDE(Put(Unlink(M, M.g + 1), M.g, exchange))))
     ELSE LET N == Forget(M, i.l.reg) IN On(Learn(N, i.l.reg, N.v[i.r.reg]))

\* The way through a register that is of no other use.
Direct(o) == o.t \in {"const", "idx"} \/ (o.t = "ref" /\ o.reg = "hl")       \* sub_1369
Through(L) ==
  LET i == Here(L)
      p == Prev1(L)
      n == Next1(L)
  IN IF /\ p.t = "ld" /\ IsReg(p.l, i.r.reg) /\ Direct(p.r)
        /\ ~Used(L, i.r.reg, L.g + 1, L.g - 1)
     THEN Done(Kill(Put(Learn(Forget(L, i.r.reg), i.l.reg, p.r), L.g - 1, [p EXCEPT !.l.reg = i.l.reg])))
     ELSE IF /\ n.t = "ld" /\ IsReg(n.r, i.l.reg) /\ Direct(n.l)
             /\ ~Used(L, i.l.reg, L.g + 2, L.g)
     THEN Done(Kill(Put(Forget(L, i.l.reg), L.g + 1, [n EXCEPT !.r.reg = i.r.reg])))
     ELSE On(L)

ThroughCopy(copy) == IF copy.done THEN copy ELSE Through(copy.to)
Load(L) ==                                                       \* sub_24c0
  LET i == Here(L)
  IN IF NearLoad(L) THEN Done(StepToLoad(L))
     ELSE IF i.l.t = "reg" /\ i.r.t \in {"idx", "addr", "const"} THEN LoadReg(L)
     ELSE IF i.r.t = "const" /\ i.l.t = "idx" THEN StoreConst(L)
     ELSE IF i.r.t = "reg" /\ i.l.t \in {"idx", "addr"} THEN StoreReg(L)
     ELSE IF i.l.t = "reg" /\ i.r.t = "reg" THEN ThroughCopy(CopyReg(L))
     ELSE On(IF i.l.t = "reg" THEN Forget(L, i.l.reg) ELSE L)
\* What is left of a load of zero is xor a, where the flags are of no use.
XorA == Instr("alu", "", "xor", Reg("a"), Absent)
ShortZero(load) ==
  LET i == Here(load.to)
  IN IF ~load.done /\ IsReg(i.l, "a") /\ IsZero(i.r) /\ ~UsedLater(load.to, "f")
     THEN On(Log(Put(load.to, load.to.g, XorA))) ELSE load
LoadVisit(L) == ShortZero(Load(L))

----------------------------------------------------------------------------
\* sub_23c1
ExVisit(L) ==
  LET i == Here(L)
      n == Next1(L)
  IN IF i.l.t # "reg" THEN On(Forget(L, i.r.reg))
     ELSE IF /\ Is(n, "stk", "push") /\ n.l.reg = i.l.reg
             /\ ~Used(L, i.l.reg, L.g + 2, L.g) /\ ~Used(L, i.r.reg, L.g + 1, L.g)
     THEN Done(Log([Unlink(Put(L, L.g + 1, [n EXCEPT !.l.reg = i.r.reg]), L.g) EXCEPT !.g = L.g]))
     ELSE IF n.t = "ex" /\ n.l.t = "reg" THEN Done(Log(Unlink(Unlink(L, L.g + 1), L.g)))
     ELSE On(SwapHLDE(L))

\* caseCommon, and T_SHIFT: an operation on one operand.
OperandVisit(L) == On(IF Here(L).l.t = "reg" THEN Forget(L, Here(L).l.reg) ELSE ForgetStore(L, Here(L).l))
CommonVisit(L) ==
  LET i == Here(L) IN
  IF /\ i.l.t = "reg" /\ ~UsedLater(L, i.l.reg)
     /\ UsedLater(L, "f") => (i.t = "incdec" /\ IsPair(i.l.reg))
  THEN Done(Kill(L)) ELSE OperandVisit(L)

\* sub_2ef8: the distance from what HL was loaded with is kept.
Base(L) ==
  LET h == L.v["h"]
      l == L.v["l"]
  IN IF L.v["hl"].t # "inv" THEN <<L.v["hl"], 0>>
     ELSE IF l.t = "idx" /\ h.t = "idx" /\ l.reg = h.reg /\ l.val + 1 = h.val THEN <<l, 0>>
     ELSE <<L.v["trk"], L.d>>
IncDecHL(L) ==
  LET i == Here(L)
      n == Next1(L)
      step == IF i.aux = "inc" THEN 1 ELSE -1
  IN IF n.t = "incdec" /\ OperandsSame(i.l, n.l) /\ n.aux # i.aux THEN Done(Kill(Unlink(L, L.g + 1)))
     ELSE IF ~UsedLater(L, "hl") THEN Done(Kill(L))
     ELSE On([Learn(Forget(L, "hl"), "trk", Base(L)[1]) EXCEPT !.d = Base(L)[2] + step])
IncDecVisit(L) == IF IsReg(Here(L).l, "hl") THEN IncDecHL(L) ELSE CommonVisit(L)
AddVisit(L) ==
  LET i == Here(L)
      one == i.r.t = "const" /\ i.r.sym = "" /\ i.r.val \in {1, -1}
      short == [i EXCEPT !.t = "incdec", !.op = "", !.aux = IF i.r.val = 1 THEN "inc" ELSE "dec", !.r = Absent]
  IN IF ~UsedLater(L, i.l.reg) THEN Done(Kill(L))
     ELSE IF one THEN IncDecVisit(Log(Put(L, L.g, short))) ELSE CommonVisit(L)

\* sub_2d3b: what sets A to zero becomes xor a, what leaves A as it is or a.
ZeroA(L) ==
  IF ~UsedLater(L, "f") /\ IsZero(L.v["a"]) THEN Done(Kill(L))
  ELSE On(Learn(Put(L, L.g, [Here(L) EXCEPT !.aux = "xor", !.op = "", !.l = As(@, "a")]), "a", Const(0)))
SameA(L) == IF ~UsedLater(L, "f") THEN Done(Kill(L)) ELSE On(L)
AluVisit(L) ==
  LET i == Here(L)
      a == IsReg(i.l, "a")
      all == i.l.t = "const" /\ i.l.sym = "" /\ i.l.val % 256 = 255
      asOr == Put(L, L.g, [i EXCEPT !.aux = "or", !.l = As(@, "a")])
  IN IF i.aux = "cp" THEN On(L)
     ELSE IF (i.aux \in {"xor", "sub"} /\ a) \/ (i.aux = "and" /\ IsZero(i.l)) THEN ZeroA(L)
     ELSE IF (i.aux \in {"xor", "or"} /\ IsZero(i.l)) \/ (i.aux = "and" /\ all) THEN SameA(asOr)
     ELSE IF i.aux \in {"or", "and"} /\ a THEN SameA(L)
     ELSE On(Forget(L, "af"))

\* T_STK: push and pop.
PushVisit(L) ==
  LET i == Here(L)
      other == IF i.l.reg = "iy" THEN Holds(L, L.v["iy"], "iy") ELSE ""
      M == IF other # "" THEN Log(Put(L, L.g, [i EXCEPT !.l.reg = other])) ELSE L
      n == Next1(M)
  IN IF Is(n, "stk", "pop") /\ n.l.reg = Here(M).l.reg THEN Done(Log(Unlink(Unlink(M, M.g + 1), M.g))) ELSE On(M)
PopVisit(L) ==
  LET i == Here(L)
      p == Prev1(L)
      n == Next1(L)
      M == Forget(L, i.l.reg)
      N == Learn(M, i.l.reg, M.v[p.l.reg])
  IN IF ~Is(p, "stk", "push") THEN On(M)
     ELSE IF i.l.reg = "iy" /\ n.t = "stk" /\ n.l.reg = "iy"
     THEN On(Log(Put(N, L.g + 1, [n EXCEPT !.l.reg = p.l.reg]))) ELSE On(N)

BitVisit(L) ==
  LET i == Here(L)
      held == Holds(L, i.r, "b")
  IN On(IF i.aux = "bit" THEN L ELSE IF i.r.t = "reg" THEN Forget(L, i.r.reg)
        ELSE IF held # "" THEN Forget(L, held) ELSE L)
SimpleVisit(L) ==
  On(IF Here(L).aux \in {"nop", "scf", "ccf", "halt", "di", "ei"} THEN L
     ELSE IF IsExx(Here(L)) THEN ForgetAll(L) ELSE Forget(L, "af"))
\* Labels nobody uses go, and the instruction after them is passed by.
RECURSIVE DropLabels(_)
DropLabels(L) ==
  IF Here(L).t = "label" /\ Here(L).n = 0 THEN DropLabels(Log([Unlink(L, L.g) EXCEPT !.g = L.g])) ELSE L

----------------------------------------------------------------------------
\* sub_2bdb: pop bc ... push hl becomes ex (sp),hl.
RECURSIVE StackTop(_, _)
StackTop(c, k) ==
  LET i == c[k]
      pushPop == Is(i, "stk", "push") /\ Is(c[k + 1], "stk", "pop")
  IN IF i.t \in {"jp", "call", "label", "inv"} \/ (i.t = "stk" /\ ~pushPop) THEN k
     ELSE IF pushPop THEN StackTop(c, k + 2)
     ELSE IF i.l.reg = "sp" /\ (i.t = "ex" \/ (i.t = "ld" /\ i.l.t = "reg")) THEN k
     ELSE StackTop(c, k + 1)
ExSpHl(L) ==
  LET i == Here(L)
      k == StackTop(L.c, L.g + 1)
      p == L.c[k]
      exchange == [p EXCEPT !.t = "ex", !.op = "", !.aux = "", !.l = Operand("ref", "sp", 0, ""), !.r = p.l]
  IN IF /\ Is(i, "stk", "pop") /\ i.l.reg = "bc" /\ ~UsedLater(L, "bc")
        /\ Is(p, "stk", "push") /\ p.l.reg = "hl" /\ ~Used(L, "hl", k + 1, k)
     THEN Log(Unlink(Put(L, k, exchange), L.g)) ELSE L

Visit(L) ==
  LET t == Here(L).t IN
  CASE t = "ld" -> LoadVisit(L)
    [] t = "label" -> On(ForgetAll(DropLabels(L)))
    [] t \in {"two", "call"} -> On(ForgetAll(L))
    [] t = "ex" -> ExVisit(L)
    [] t = "simple" -> SimpleVisit(L)
    [] t = "bit" -> BitVisit(L)
    [] t = "carr" -> CommonVisit(L)
    [] t = "shift" -> OperandVisit(L)
    [] t = "add" -> AddVisit(L)
    [] t = "incdec" -> IncDecVisit(L)
    [] t = "djnz" -> On(Forget(L, "b"))
    [] t = "stk" -> IF Here(L).aux = "push" THEN PushVisit(L) ELSE PopVisit(L)
    [] t = "alu" -> AluVisit(L)
    [] OTHER -> On(L)
\* One turn of the loop in sub_1ec1, without the step to the next instruction.
Finish(visit) == IF visit.done THEN visit.to ELSE ExSpHl(visit.to)
RegsVisit(L) == Finish(Visit(L))
=============================================================================
