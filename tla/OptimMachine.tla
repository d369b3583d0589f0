---------------------------- MODULE OptimMachine ----------------------------
(* What a function does when it is run, as far as its callers, the          *)
(* functions it calls and the memory can tell.  This is no part of optim:   *)
(* it is what its results are measured with.                                *)
(*                                                                          *)
(* A register or a byte of memory holds a byte, or Unset when the program may *)
(* not rely on it: what a call leaves in most registers, what is below the  *)
(* stack pointer.  A run that needs such a byte for a jump or an address    *)
(* has no meaning ("wild").                                                 *)
EXTENDS OptimCode

CONSTANTS Sym,      \* the value of each symbol
          Top       \* memory is 0 .. Top - 1
Unset == -1
Fuel == 90          \* the instructions of a run

Cell(m, a) == IF a \in 0 .. Top - 1 THEN m.mem[a] ELSE Unset
Word(lo, hi) == IF Unset \in {lo, hi} THEN Unset ELSE lo + 256 * hi
Low(w) == IF w = Unset THEN Unset ELSE w % 256
High(w) == IF w = Unset THEN Unset ELSE (w \div 256) % 256
Wild(m) == [m EXCEPT !.end = "wild"]
SetCell(m, a, x) == IF a \in 0 .. Top - 1 THEN [m EXCEPT !.mem[a] = x] ELSE Wild(m)

Get(m, r) == IF r \in DOMAIN Halves /\ r # "af" THEN Word(m.r[Halves[r][2]], m.r[Halves[r][1]]) ELSE m.r[r]
Set(m, r, w) ==
  IF r \in DOMAIN Halves /\ r # "af"
  THEN [m EXCEPT !.r[Halves[r][1]] = High(w), !.r[Halves[r][2]] = Low(w)] ELSE [m EXCEPT !.r[r] = w]
IsWord(o) == o.t = "reg" /\ IsPair(o.reg)
Value(o) == (IF o.sym = "" THEN 0 ELSE Sym[o.sym]) + o.val
Plus(w, n) == IF Unset \in {w, n} THEN Unset ELSE (w + n) % 65536
Address(m, o) == CASE o.t = "ref" -> Get(m, o.reg) [] o.t = "idx" -> Plus(m.r[o.reg], o.val)
                   [] OTHER -> Value(o)
Fetch(m, o, word) ==
  CASE o.t = "reg" -> Get(m, o.reg)
    [] o.t = "const" -> IF word THEN Value(o) % 65536 ELSE Value(o) % 256
    [] OTHER -> LET a == Address(m, o) IN IF word THEN Word(Cell(m, a), Cell(m, a + 1)) ELSE Cell(m, a)
Store(m, o, x, word) ==
  IF o.t = "reg" THEN Set(m, o.reg, x)
  ELSE IF word THEN SetCell(SetCell(m, Address(m, o), Low(x)), Address(m, o) + 1, High(x))
  ELSE SetCell(m, Address(m, o), x)

\* Flags: zero, sign and carry, of a byte and of a word.
Bool(b) == IF b THEN 1 ELSE 0
Flags(m, x, carry, half) ==
  [m EXCEPT !.z = IF x = Unset THEN Unset ELSE Bool(x = 0), !.s = IF x = Unset THEN Unset ELSE Bool(x >= half),
            !.cy = carry]
Holds1(m, cc) ==
  CASE cc = "" -> 1 [] cc \in {"z", "c", "m"} -> (CASE cc = "z" -> m.z [] cc = "c" -> m.cy [] OTHER -> m.s)
    [] OTHER -> LET f == CASE cc = "nz" -> m.z [] cc = "nc" -> m.cy [] OTHER -> m.s
                IN IF f = Unset THEN Unset ELSE 1 - f

RECURSIVE Bits(_, _, _, _)
Bits(op(_, _), x, y, n) ==
  IF n = 0 THEN 0 ELSE op(x % 2, y % 2) + 2 * Bits(op, x \div 2, y \div 2, n - 1)
Logic(op, x, y) ==
  CASE op = "and" -> Bits(LAMBDA p, q : p * q, x, y, 8)
    [] op = "or" -> Bits(LAMBDA p, q : Bool(p + q > 0), x, y, 8)
    [] OTHER -> Bits(LAMBDA p, q : (p + q) % 2, x, y, 8)
\* An operation on A; a register on itself may be known though its value is not.
AluRun(m, op, o) ==
  LET x == Fetch(m, o, FALSE)
      a == m.r.a
      same == o.t = "reg" /\ o.reg = "a"
      d == IF Unset \in {a, x} THEN (IF same /\ op \in {"sub", "xor", "cp"} THEN 0 ELSE Unset)
           ELSE IF op \in {"sub", "cp"} THEN (a - x + 256) % 256 ELSE Logic(op, a, x)
      cy == IF op \notin {"sub", "cp"} \/ same THEN 0 ELSE IF Unset \in {a, x} THEN Unset ELSE Bool(a < x)
  IN Flags(IF op = "cp" THEN m ELSE Set(m, "a", d), d, cy, 128)
\* add, adc and sbc of bytes and words; add of words leaves zero and sign.
CarryRun(m, op, i) ==
  LET word == IsWord(i.l)
      size == IF word THEN 65536 ELSE 256
      x == Get(m, i.l.reg)
      y == Fetch(m, i.r, word)
      c == IF op = "add" THEN 0 ELSE m.cy
      known == Unset \notin {x, y, c}
      w == IF op = "sbc" THEN x - y - c ELSE x + y + c
      n == IF ~known THEN (IF op = "sbc" /\ i.l = i.r /\ c # Unset THEN (size - c) % size ELSE Unset)
           ELSE (w + size) % size
      cy == IF known THEN Bool(w < 0 \/ w >= size) ELSE IF n # Unset THEN c ELSE Unset
      done == Set(m, i.l.reg, n)
  IN IF op = "add" /\ word THEN [done EXCEPT !.cy = cy] ELSE Flags(done, n, cy, size \div 2)
IncRun(m, i) ==
  LET word == IsWord(i.l)
      n == Plus(Fetch(m, i.l, word), IF i.aux = "inc" THEN 1 ELSE 65535)
      x == IF n = Unset \/ word THEN n ELSE n % 256
  IN IF word THEN Set(m, i.l.reg, x) ELSE Flags(Store(m, i.l, x, FALSE), x, m.cy, 128)
ShiftRun(m, i) ==
  LET x == Fetch(m, i.l, FALSE)
      top == CASE i.aux = "rr" -> m.cy [] i.aux = "sra" -> x \div 128 [] OTHER -> 0
      n == IF Unset \in {x, top} THEN Unset
           ELSE IF i.aux = "sla" THEN (2 * x) % 256 ELSE x \div 2 + 128 * top
  IN Flags(Store(m, i.l, n, FALSE), n,
           IF x = Unset THEN Unset ELSE IF i.aux = "sla" THEN x \div 128 ELSE x % 2, 128)
SimpleRun(m, op) ==
  LET a == m.r.a IN
  CASE op = "rla" -> [Set(m, "a", IF Unset \in {a, m.cy} THEN Unset ELSE (2 * a + m.cy) % 256)
                        EXCEPT !.cy = IF a = Unset THEN Unset ELSE a \div 128]
    [] op = "cpl" -> Set(m, "a", IF a = Unset THEN Unset ELSE 255 - a)
    [] op = "exx" -> [m EXCEPT !.r = [q \in DOMAIN @ |-> IF q \in {"b", "c", "d", "e", "h", "l"} THEN m.x[q] ELSE @[q]],
                               !.x = [q \in DOMAIN @ |-> m.r[q]]]
    [] OTHER -> m
Push(m, w) == Store(Set(m, "sp", Plus(m.r.sp, 65534)), Operand("ref", "sp", 0, ""), w, TRUE)
Pop(m, r) == Set(Set(m, r, Fetch(m, Operand("ref", "sp", 0, ""), TRUE)), "sp", Plus(m.r.sp, 2))

----------------------------------------------------------------------------
\* What others see: the memory in use, where the function's own variables
\* begin, and some registers.
Shown(m) == [a \in 0 .. Top - 1 |-> IF a \in Sym["stack"] .. m.r.sp - 1 THEN Unset ELSE m.mem[a]]
See(m, what, regs) ==
  [m EXCEPT !.ev = Append(@, [at |-> what, mem |-> Shown(m), sp |-> m.r.sp, base |-> m.base,
                              r |-> [q \in regs |-> m.r[q]]])]
Frame == {"sp", "ix", "iy"}
Pairs == {"d", "e", "h", "l"}
Fresh(m, k) == 3 + 2 * Len(m.ev) + k
\* A function keeps the frame and gives HL and DE; it may change a variable.
CallRun(m, f) ==
  LET n == See(m, f, {})
      lost == [n EXCEPT !.r = [q \in DOMAIN @ |-> IF q \in Frame THEN @[q] ELSE Unset],
                        !.x = [q \in DOMAIN @ |-> Unset], !.z = Unset, !.s = Unset, !.cy = Unset]
  IN SetCell(Set(Set(lost, "hl", Fresh(m, 0)), "de", Fresh(m, 1)), Sym["changed"], Fresh(m, 2))
\* A routine of the compiler takes registers and gives HL and flags.
HelperRun(m, f) ==
  LET n == See(m, f, Pairs) IN
  [Set(n, "hl", Fresh(m, 0)) EXCEPT !.z = (Len(m.ev) + m.run) % 2, !.s = (Len(m.ev) + m.run) % 2,
                                       !.cy = (Len(m.ev) + m.run) % 2, !.r.a = Unset]
CsvRun(m) ==
  LET n == Push(Push(m, m.r.iy), m.r.ix) IN Set(Set(Set(n, "ix", n.r.sp), "hl", Unset), "de", Unset)
CretRun(m) == Pop(Pop(Set(m, "sp", m.r.ix), "ix"), "iy")
Return(m) == [See(m, "return", (IF m.void THEN {} ELSE Pairs) \cup Frame) EXCEPT !.end = "returned"]

\* The place a jump of instruction k goes to, 0 when it is outside.
PlaceOf(c, k, o) ==
  CASE o.t = "fwd" -> SelectInSubSeq(c, k + 1, Len(c), LAMBDA i : i.t = "tmp" /\ i.n = o.val)
    [] o.t = "bwd" -> SelectLastInSubSeq(c, 1, k, LAMBDA i : i.t = "tmp" /\ i.n = o.val)
    [] OTHER -> Where(c, o.sym)
Leave(m, f) == IF f = "cret" THEN Return(CretRun(m)) ELSE Return(CallRun(m, f))
JumpRun(m, c, tab, i, taken) ==
  LET k == IF i.l.t = "ref"
           THEN (LET w == Get(m, "hl") - Sym["case"] IN IF w \in DOMAIN tab THEN Where(c, tab[w]) ELSE -1)
           ELSE PlaceOf(c, m.pc - 1, i.l)
  IN IF taken = Unset \/ (taken = 1 /\ k = -1) THEN Wild(m)
     ELSE IF taken = 0 THEN m
     ELSE IF k = 0 THEN Leave(m, i.l.sym) ELSE [m EXCEPT !.pc = k]

RunLoad(m, i) == LET word == IsWord(i.l) \/ IsWord(i.r) IN Store(m, i.l, Fetch(m, i.r, word), word)
ExRun(m, i) ==
  IF i.l.t = "ref" THEN Set(Store(m, i.l, Get(m, "hl"), TRUE), "hl", Fetch(m, i.l, TRUE))
  ELSE Set(Set(m, "hl", Get(m, "de")), "de", Get(m, "hl"))
Mnemonic(i) == IF i.op # "" THEN i.op ELSE i.aux
One(m, c, tab) ==
  LET i == c[m.pc]
      n == [m EXCEPT !.pc = @ + 1, !.fuel = @ - 1]
      op == Mnemonic(i)
  IN CASE i.t = "ld" -> RunLoad(n, i)
       [] i.t = "alu" -> AluRun(n, op, i.l)
       [] i.t = "add" -> CarryRun(n, "add", i)
       [] i.t = "carr" -> CarryRun(n, op, i)
       [] i.t = "incdec" -> IncRun(n, i)
       [] i.t = "shift" -> ShiftRun(n, i)
       [] i.t = "simple" -> SimpleRun(n, op)
       [] i.t = "bit" -> LET x == Fetch(n, i.r, FALSE) IN
            [n EXCEPT !.z = IF x = Unset THEN Unset ELSE 1 - ((x \div (2 ^ i.l.val)) % 2), !.s = Unset]
       [] i.t = "stk" -> IF i.aux = "push" THEN Push(n, Get(n, i.l.reg)) ELSE Pop(n, i.l.reg)
       [] i.t = "ex" -> ExRun(n, i)
       [] i.t = "djnz" -> LET b == IF n.r.b = Unset THEN Unset ELSE (n.r.b + 255) % 256 IN
            JumpRun(Set(n, "b", b), c, tab, i, IF b = Unset THEN Unset ELSE Bool(b # 0))
       [] i.t = "jp" -> JumpRun(n, c, tab, i, Holds1(n, i.aux))
       [] i.t = "ret" -> (CASE Holds1(n, i.aux) = 1 -> Return(n) [] Holds1(n, i.aux) = 0 -> n [] OTHER -> Wild(n))
       [] i.t = "call" ->
            IF i.l.sym = "csv" THEN CsvRun(n)
            ELSE IF i.l.sym = "ncsv"
            THEN LET k == CsvRun([n EXCEPT !.pc = @ + 1])
                     sp == k.r.sp + Value(c[n.pc].l)
                 IN [Set(k, "sp", sp) EXCEPT !.base = sp]
            ELSE IF Holds1(n, i.aux) = Unset THEN Wild(n) ELSE IF Holds1(n, i.aux) = 0 THEN n
            ELSE IF i.l.sym \in Public THEN CallRun(n, i.l.sym) ELSE HelperRun(n, i.l.sym)
       [] OTHER -> n
(* A run starts with the state of a call and ends with "returned"; one that  *)
(* needs a byte it may not rely on, or does not end, tells nothing.         *)
RECURSIVE Run(_, _, _)
Run(m, c, tab) ==
  IF m.end # "" THEN m ELSE IF m.fuel = 0 \/ m.pc > Len(c) THEN [m EXCEPT !.end = "endless"]
  ELSE Run(One(m, c, tab), c, tab)

\* Every value the first run relies on, the second has as well.
Refines(x, y) == \A q \in DOMAIN x : x[q] \in {Unset, y[q]}
Known(x, y) == x \in {Unset, y}
SameSeen(e, f) ==
  /\ e.at = f.at /\ Refines(e.r, f.r)
  /\ \A a \in DOMAIN e.mem \ (Sym["stack"] .. e.base - 1 \cup Sym["saved"] .. Sym["saved"] + 3) :
       Known(e.mem[a], f.mem[a])
  /\ \A a \in e.sp .. e.base - 1 : Known(e.mem[a], f.mem[f.sp + a - e.sp])
SameRun(x, y) ==
  x.end = "returned" =>
    /\ y.end = "returned" /\ Len(x.ev) = Len(y.ev)
    /\ \A k \in DOMAIN x.ev : SameSeen(x.ev[k], y.ev[k])
=============================================================================
