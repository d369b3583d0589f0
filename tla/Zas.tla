-------------------------------- MODULE Zas --------------------------------
(***************************************************************************)
(* zas, the assembler: the passes over the source, the symbol table, the   *)
(* temporary labels, jumps made into branches (-J), and the object file.   *)
(*                                                                         *)
(* A program is a sequence of statements as the parser tells them apart;   *)
(* an instruction is what it puts into the object file: opcodes, and       *)
(* fields of one or two bytes with an expression each.  Sizes that the     *)
(* program compares with are constants: a branch reaches from -Reach to    *)
(* Reach - 1, an int16_t holds 2 * Half values.                            *)
(***************************************************************************)
EXTENDS Integers, FiniteSets, SequencesExt

CONSTANTS
  Syms,       \* names of symbols
  Psects,     \* names of psects, other than the absolute one
  Abs,        \* the absolute psect
  None,       \* a null pointer
  Programs,   \* what zas may be given
  Reach,      \* 128
  Half,       \* 32768
  MaxTmp,     \* MAX_TMP, temporary labels
  MaxJumps,   \* entries of jOptTab
  TextCap,    \* bytes of text in a record
  RelocCap,   \* relocations in a record
  MaxErrors   \* 100

Bases == Psects \cup {Abs}

Atom == [k : {"num"}, n : Int] \cup [k : {"sym"}, s : Syms]
          \cup [k : {"fwd", "bwd"}, n : Nat] \cup [k : {"here"}]
Expr == [op : {"one"}, a : Atom] \cup [op : {"+", "-"}, a : Atom, b : Atom]
Item == [w : {0}] \cup [w : {1, 2}, e : Expr]
Stmt == [t : {"label", "global"}, s : Syms] \cup [t : {"equ", "defl"}, s : Syms, e : Expr]
          \cup [t : {"tmp"}, n : Nat] \cup [t : {"psect"}, p : Psects]
          \cup [t : {"code", "bad"}, items : Seq(Item)]
          \cup [t : {"jp"}, cc : {"none", "short", "long"}, e : Expr]
          \cup [t : {"jr", "defs", "org", "cond", "start"}, e : Expr]
          \cup [t : {"endc", "end"}]
Program == [j : BOOLEAN, text : Seq(Stmt)]

ASSUME ZasAssumption ==
  /\ Programs \subseteq Program
  /\ {Reach, Half, MaxTmp, MaxJumps, RelocCap, MaxErrors} \subseteq Nat \ {0}
  /\ TextCap \in Nat \ {0, 1}
  /\ Abs \notin Psects /\ None \notin Bases \cup Syms

VARIABLES
  prog,        \* options and source
  pc,          \* in doPass, between passes, or at an end of zas
  phase,       \* phase
  ip,          \* the statement that comes next in the source that is open
  nInput,      \* nInput, the files taken in this pass: the one there is, or none yet
  curPsect,    \* curPsect
  loc,         \* pCurLoc of each psect
  size,        \* pSize of each psect
  entered,     \* the psects in symTable
  sym,         \* symTable
  tmp,         \* tmpLabelTab
  tmpPtr, lowLabel, highLabel,  \* positions in it, 0 before the first
  jOptIdx, jOptTab,             \* the jumps passed, and those to be branches
  numerror,    \* numerror
  startAddr,   \* startAddr
  buf,         \* textRecord and relocRecord
  obj,         \* the object file, a sequence of records
  trace,       \* history: what the last pass met, and where
  path         \* history: the statements that each pass read

tabVars  == <<sym, tmp, tmpPtr, lowLabel, highLabel>>
jumpVars == <<jOptIdx, jOptTab>>
objVars  == <<loc, size, buf, obj>>
vars == <<prog, pc, phase, ip, nInput, curPsect, entered, tabVars, jumpVars, numerror,
          startAddr, objVars, trace, path>>

Lines == DOMAIN prog.text
Stm == prog.text[ip]
At(t) == pc = "pass" /\ ip \in Lines /\ Stm.t = t
Here == loc[curPsect]
Signed(x) == ((x + Half) % (2 * Half)) - Half

\* base, and then op with each item of s in turn
Through(op(_, _), base, s) ==
  LET upto[n \in 0..Len(s)] == IF n = 0 THEN base ELSE op(upto[n - 1], s[n])
  IN  upto[Len(s)]

-----------------------------------------------------------------------------
(* Expressions *)

Value == [val : Int, psect : Bases \cup {None}, ext : Syms \cup {None}]
Rel(v) == v.psect # None \/ v.ext # None
Undefined(s) == sym[s].undef /\ ~sym[s].glob

\* findLocalLabel.  A label looked for before any there is is compared with the
\* memory before the table, stray; the labels that no pass defined are all 0.
Strays == [label : 0..3, loc : {0}, psect : {None}]
Entry(i, stray) == IF i \in 1..MaxTmp THEN tmp[i] ELSE stray
LocalLabels(a, stray) ==
  {i \in (IF a.k = "fwd" THEN (lowLabel + 1)..highLabel
          ELSE IF lowLabel = 0 THEN {0} ELSE 1..lowLabel) : Entry(i, stray).label = a.n}
FindLocalLabel(a, stray) ==
  LET hits == LocalLabels(a, stray)
      i    == CHOOSE h \in hits : \A g \in hits : IF a.k = "fwd" THEN h <= g ELSE g <= h
  IN IF hits = {} THEN [val |-> 0, psect |-> Abs, ext |-> None]
     ELSE [val |-> Entry(i, stray).loc, psect |-> Entry(i, stray).psect, ext |-> None]

AtomVal(a, stray) ==
  CASE a.k = "num"  -> [val |-> a.n, psect |-> None, ext |-> None]
    [] a.k = "sym"  -> [val |-> sym[a.s].val, psect |-> sym[a.s].psect, ext |-> sym[a.s].ext]
    [] a.k = "here" -> [val |-> Here, psect |-> IF curPsect = Abs THEN None ELSE curPsect,
                        ext |-> None]
    [] OTHER        -> FindLocalLabel(a, stray)

\* binary: only sums and differences keep relocation
Plus(l, r) == [val   |-> l.val + r.val,
               psect |-> IF Rel(l) THEN l.psect ELSE r.psect,
               ext   |-> IF Rel(l) THEN l.ext ELSE r.ext]
BadMinus(l, r) == r.ext # None \/ (r.psect # None /\ r.psect # l.psect)
Minus(l, r) == [val   |-> l.val - r.val,
                psect |-> IF ~BadMinus(l, r) /\ r.psect = l.psect THEN None ELSE l.psect,
                ext   |-> l.ext]

Operands(e) == IF e.op = "one" THEN <<e.a>> ELSE <<e.a, e.b>>
Atoms(e) == Range(Operands(e))
EvalExpr(e, stray) ==
  LET l == AtomVal(e.a, stray)
  IN CASE e.op = "one" -> l
       [] e.op = "+"   -> Plus(l, AtomVal(e.b, stray))
       [] e.op = "-"   -> Minus(l, AtomVal(e.b, stray))
Overflow(v) == v.val >= 2 * Half \/ v.val < -(Half - 1)

CountIf(b) == IF b THEN 1 ELSE 0

\* how many messages an expression is worth
ExprErrors(e, stray) ==
  LET l == AtomVal(e.a, stray)
      r == IF e.op = "one" THEN l ELSE AtomVal(e.b, stray)
      Lost(a) == a.k \in {"fwd", "bwd"} /\ LocalLabels(a, stray) = {}
  IN Cardinality({i \in DOMAIN Operands(e) : Lost(Operands(e)[i])})
     + Cardinality({a \in Atoms(e) : a.k = "sym" /\ Undefined(a.s)})
     + CountIf(\/ e.op = "+" /\ Rel(l) /\ Rel(r)
               \/ e.op = "-" /\ BadMinus(l, r))
     + CountIf(Overflow(EvalExpr(e, stray)))

Mentions(e) == {a.s : a \in {b \in Atoms(e) : b.k = "sym"}}
\* getSym, and what evalExpr does to a symbol that is undefined in the last pass
Mentioned(table, names) ==
  [s \in Syms |-> IF s \in names
                  THEN [table[s] EXCEPT !.known = TRUE,
                                        !.glob = @ \/ (phase = 2 /\ table[s].undef)]
                  ELSE table[s]]

\* error counts in the last pass only; past its limit it ends zas
Report(n, next) ==
  /\ numerror' = IF phase = 2 THEN numerror + n ELSE numerror
  /\ pc' = IF numerror' >= MaxErrors THEN "failed" ELSE next
Reads == path' = [path EXCEPT ![phase] = Append(@, ip)]
NextLine == ip' = ip + 1 /\ Reads /\ UNCHANGED <<prog, phase, nInput>>

-----------------------------------------------------------------------------
(* The records of the object file *)

Fresh(p, at) == [psect |-> p, off |-> at, bytes |-> <<>>, relocs |-> <<>>]
Written(b) ==
  (IF b.bytes = <<>> THEN <<>>
   ELSE <<[t |-> "TEXT", psect |-> b.psect, off |-> b.off, bytes |-> b.bytes]>>)
  \o (IF b.relocs = <<>> THEN <<>> ELSE <<[t |-> "RELOC", items |-> b.relocs]>>)

\* o is what addObjByte and the like change: buf, obj, and at, the current location
FinishRecords(o) == [buf |-> Fresh(curPsect, o.at), obj |-> o.obj \o Written(o.buf), at |-> o.at]
Append1(o, x) == [o EXCEPT !.buf.bytes = Append(@, x)]

\* For comparison: a relocation that did not fit stays for the next record.
AddRelocLater(o, v, w) ==
  LET item == [off |-> Len(o.buf.bytes) - w, w |-> w,
               kind |-> IF v.ext # None THEN "NAME" ELSE "PSECT",
               name |-> IF v.ext # None THEN v.ext ELSE v.psect]
      q    == IF Len(o.buf.relocs) < RelocCap THEN o ELSE FinishRecords(o)
  IN IF Rel(v) THEN [q EXCEPT !.buf.relocs = Append(@, item)] ELSE o


\* A relocation that finds the record full is put into the next one, which is then
\* written at once: it belongs to the text before it.
AddReloc(o, v, w) ==
  LET item == [off |-> Len(o.buf.bytes) - w, w |-> w,
               kind |-> IF v.ext # None THEN "NAME" ELSE "PSECT",
               name |-> IF v.ext # None THEN v.ext ELSE v.psect]
      Put(q) == [q EXCEPT !.buf.relocs = Append(@, item)]
  IN CASE ~Rel(v)                          -> o
       [] Rel(v) /\ Len(o.buf.relocs) < RelocCap -> Put(o)
       [] OTHER                            -> FinishRecords(Put(FinishRecords(o)))

AddObjByte(o, x) ==
  LET q == IF Len(o.buf.bytes) = TextCap THEN FinishRecords(o) ELSE o
  IN [Append1(q, x) EXCEPT !.at = @ + 1]

AddObjRelocWord(o, v) ==
  LET q == IF Len(o.buf.bytes) >= TextCap - 1 THEN FinishRecords(o) ELSE o
      x == v.val % (2 * Half)
  IN AddReloc([Append1(Append1(q, [k |-> "lo", x |-> x]), [k |-> "hi", x |-> x])
               EXCEPT !.at = @ + 2], v, 2)

\* what is put: an opcode or the distance of a branch (w = 0), or a field
AddObj(o, f) ==
  CASE f.w = 0 -> AddObjByte(o, f.x)
    [] f.w = 1 -> AddReloc(AddObjByte(o, [k |-> "b", x |-> f.v.val % (2 * Reach)]), f.v, 1)
    [] f.w = 2 -> AddObjRelocWord(o, f.v)

AddAll(o, fields) == Through(AddObj, o, fields)

Opcode == [w |-> 0, x |-> [k |-> "op", x |-> ip]]

\* A size error, unless it is a whole word.
TooWide(f) == f.w = 1 /\ (f.v.val >= 2 * Reach \/ f.v.val < -Reach)

Visit(fields) ==
  trace' = IF phase = 2
           THEN Append(trace, [ip |-> ip, psect |-> curPsect, at |-> Here, fields |-> fields])
           ELSE trace

\* A statement puts its fields at the current location.
Emit(fields) ==
  LET o == AddAll([buf |-> buf, obj |-> obj, at |-> Here], fields)
  IN /\ loc' = [loc EXCEPT ![curPsect] = o.at]
     /\ IF phase # 2 THEN UNCHANGED <<size, buf, obj>>
        ELSE /\ size' = [size EXCEPT ![curPsect] = IF fields # <<>> /\ @ < o.at
                                                   THEN Signed(o.at) ELSE @]
             /\ buf' = o.buf /\ obj' = o.obj
     /\ Visit(fields)

\* finishRecords, at location at of psect p
NewRecord(p, at) ==
  IF phase # 2 THEN UNCHANGED <<buf, obj>>
  ELSE obj' = obj \o Written(buf) /\ buf' = Fresh(p, at)

-----------------------------------------------------------------------------
Init ==
  /\ prog \in Programs
  /\ pc = "pass" /\ phase = 0 /\ ip = Len(prog.text) + 1 /\ nInput = 0
  /\ curPsect = Abs /\ entered = {Abs}
  /\ loc = [p \in Bases |-> 0] /\ size = [p \in Bases |-> 0]
  /\ sym = [s \in Syms |-> [known |-> FALSE, undef |-> TRUE, multi |-> FALSE, glob |-> FALSE,
                           val |-> 0, psect |-> None, ext |-> s]]
  /\ tmp = [i \in 1..MaxTmp |-> [label |-> 0, loc |-> 0, psect |-> None]]
  /\ tmpPtr = 0 /\ lowLabel = 0 /\ highLabel = 0
  /\ jOptIdx = -1 /\ jOptTab = [i \in 0..(MaxJumps - 1) |-> FALSE]
  /\ numerror = 0 /\ startAddr = [val |-> 0, psect |-> None, ext |-> None]
  /\ buf = Fresh(Abs, 0) /\ obj = <<>>
  /\ trace = <<>> /\ path = [p \in 0..2 |-> <<>>]

\* popSrc, with no source open
OpenFile ==
  /\ pc = "pass" /\ ip \notin Lines /\ nInput = 0
  /\ ip' = 1 /\ nInput' = 1
  /\ UNCHANGED <<prog, pc, phase, curPsect, entered, tabVars, jumpVars, numerror, startAddr,
                 objVars, trace, path>>

\* What one expression does besides its value: symbols it enters, messages.
Evaluate(e, stray, more) ==
  /\ sym' = Mentioned(sym, Mentions(e))
  /\ Report(ExprErrors(e, stray) + more, "pass")

\* defineLabel
Defined(table, s) ==
  IF phase # 0 THEN [table EXCEPT ![s].known = TRUE]
  ELSE [table EXCEPT ![s].known = TRUE, ![s].multi = @ \/ ~table[s].undef, ![s].undef = FALSE]
\* For comparison: a label that moved since the last pass is not reported.
PhaseErrorUnseen(s) == 0
PhaseError(s) == CountIf(phase = 2 /\ ~sym[s].multi /\ sym[s].val # Here)

MultDef(s) == CountIf(phase = 2 /\ sym[s].multi)

Label ==
  /\ At("label")
  /\ LET s == Stm.s
         table == Defined(sym, s)
     IN /\ sym' = IF phase = 2 THEN table
                  ELSE [table EXCEPT ![s].val = Here, ![s].ext = None,
                                     ![s].psect = IF curPsect = Abs THEN None ELSE curPsect]
        /\ Report(MultDef(s) + PhaseError(s), "pass")
  /\ Visit(<<>>) /\ NextLine
  /\ UNCHANGED <<curPsect, entered, tmp, tmpPtr, lowLabel, highLabel, jumpVars, startAddr,
                 objVars>>

\* EQU, and DEFL, which is no definition of a label
Assign ==
  /\ pc = "pass" /\ ip \in Lines /\ Stm.t \in {"equ", "defl"}
  /\ \E stray \in Strays :
       LET s == Stm.s
           v == EvalExpr(Stm.e, stray)
           table == IF Stm.t = "equ" THEN Defined(sym, s) ELSE [sym EXCEPT ![s].known = TRUE]
       IN /\ sym' = [Mentioned(table, Mentions(Stm.e)) EXCEPT
                       ![s].val = v.val, ![s].psect = v.psect, ![s].ext = v.ext, ![s].undef = FALSE]
          /\ Report((IF Stm.t = "equ" THEN MultDef(s) ELSE 0) + ExprErrors(Stm.e, stray), "pass")
  /\ NextLine
  /\ UNCHANGED <<curPsect, entered, tmp, tmpPtr, lowLabel, highLabel, jumpVars, startAddr,
                 objVars, trace>>

\* markGlobals
Global ==
  /\ At("global")
  /\ sym' = [sym EXCEPT ![Stm.s].known = TRUE, ![Stm.s].glob = TRUE]
  /\ NextLine
  /\ UNCHANGED <<pc, curPsect, entered, tmp, tmpPtr, lowLabel, highLabel, jumpVars, numerror,
                 startAddr, objVars, trace>>

\* defTmpLabel
TmpLabel ==
  /\ At("tmp")
  /\ IF phase = 2 THEN UNCHANGED <<pc, tmp, tmpPtr, highLabel>>
     ELSE /\ tmpPtr' = tmpPtr + 1
          /\ pc' = IF tmpPtr = MaxTmp THEN "failed" ELSE "pass"
          /\ tmp' = [i \in DOMAIN tmp |->
                       IF i # tmpPtr + 1 THEN tmp[i]
                       ELSE [label |-> Stm.n, loc |-> Signed(Here), psect |-> curPsect]]
          /\ highLabel' = IF phase = 0 /\ tmpPtr < MaxTmp THEN tmpPtr + 1 ELSE highLabel
  /\ lowLabel' = lowLabel + 1
  /\ Visit(<<>>) /\ NextLine
  /\ UNCHANGED <<curPsect, entered, sym, jumpVars, numerror, startAddr, objVars>>

\* An instruction, CALL and jumps through a register included, or one item of DEFB and
\* DEFW.  A line in error may have put some of it.
Field(item, stray) == IF item.w = 0 THEN Opcode
                      ELSE [w |-> item.w, v |-> EvalExpr(item.e, stray)]
ItemErrors(items, stray, more) ==
  Through(LAMBDA n, item : IF item.w = 0 THEN n
                           ELSE n + ExprErrors(item.e, stray)
                                  + CountIf(TooWide(Field(item, stray))),
          more, items)
Code ==
  /\ pc = "pass" /\ ip \in Lines /\ Stm.t \in {"code", "bad"}
  /\ \E stray \in Strays :
       LET items == Stm.items
       IN /\ sym' = Mentioned(sym, UNION {IF items[i].w = 0 THEN {} ELSE Mentions(items[i].e) :
                                          i \in DOMAIN items})
          /\ Report(ItemErrors(items, stray, CountIf(Stm.t = "bad")), "pass")
          /\ Emit([i \in DOMAIN items |-> Field(items[i], stray)])
  /\ NextLine
  /\ UNCHANGED <<curPsect, entered, tmp, tmpPtr, lowLabel, highLabel, jumpVars, startAddr>>

-----------------------------------------------------------------------------
(* Jumps and branches *)

Span(v) == Signed(v.val - Here)
Near(v) == /\ Span(v) \in -(Reach - 2)..(Reach + 1) /\ v.ext = None
           /\ v.psect = curPsect \/ (v.psect = None /\ curPsect = Abs)
Distance(v) == [w |-> 0, x |-> [k |-> "disp", x |-> (Span(v) - 2) % (2 * Reach)]]

\* For comparison: one more jump than the table has room for.
EligibleOneMore == prog.j /\ jOptIdx # MaxJumps /\ Stm.cc # "long"


\* parseJp_Call, for a jump that may become a branch
Eligible == prog.j /\ jOptIdx # MaxJumps - 1 /\ Stm.cc # "long"
Branches(v) == IF phase = 2 THEN jOptTab[jOptIdx + 1] ELSE Near(v)
Jp ==
  /\ At("jp")
  /\ \E stray \in Strays :
       LET v == EvalExpr(Stm.e, stray)
       IN \/ /\ Eligible /\ Branches(v)
             /\ jOptTab' = [jOptTab EXCEPT ![jOptIdx + 1] = TRUE]
             /\ Emit(<<Opcode, Distance(v)>>)
             /\ Evaluate(Stm.e, stray, CountIf(~Near(v)))
          \/ /\ ~(Eligible /\ Branches(v))
             /\ Emit(<<Opcode, [w |-> 2, v |-> v]>>)
             /\ Evaluate(Stm.e, stray, 0)
             /\ UNCHANGED jOptTab
  /\ jOptIdx' = IF Eligible THEN jOptIdx + 1 ELSE jOptIdx
  /\ NextLine
  /\ UNCHANGED <<curPsect, entered, tmp, tmpPtr, lowLabel, highLabel, startAddr>>

\* parseDjnz_Jr
Jr ==
  /\ At("jr")
  /\ \E stray \in Strays :
       LET v == EvalExpr(Stm.e, stray)
       IN Emit(<<Opcode, Distance(v)>>) /\ Evaluate(Stm.e, stray, CountIf(~Near(v)))
  /\ NextLine
  /\ UNCHANGED <<curPsect, entered, tmp, tmpPtr, lowLabel, highLabel, jumpVars, startAddr>>

-----------------------------------------------------------------------------
(* Locations, psects, conditions *)

\* chkPositiveAbs
Positive(v) == IF v.val < 0 THEN 0 ELSE v.val
NotPositiveAbs(v) == CountIf(Rel(v) \/ v.val < 0)

Defs ==
  /\ At("defs")
  /\ \E stray \in Strays :
       LET v == EvalExpr(Stm.e, stray)
       IN /\ loc' = [loc EXCEPT ![curPsect] = @ + Positive(v)]
          /\ NewRecord(curPsect, Here + Positive(v))
          /\ Evaluate(Stm.e, stray, NotPositiveAbs(v))
  /\ NextLine
  /\ UNCHANGED <<curPsect, entered, tmp, tmpPtr, lowLabel, highLabel, jumpVars, startAddr,
                 size, trace>>

Org ==
  /\ At("org")
  /\ \E stray \in Strays :
       LET v == EvalExpr(Stm.e, stray)
       IN /\ loc' = [loc EXCEPT ![Abs] = Positive(v)]
          /\ NewRecord(Abs, Positive(v))
          /\ Evaluate(Stm.e, stray, NotPositiveAbs(v))
  /\ curPsect' = Abs
  /\ NextLine
  /\ UNCHANGED <<entered, tmp, tmpPtr, lowLabel, highLabel, jumpVars, startAddr, size, trace>>

Psect ==
  /\ At("psect")
  /\ curPsect' = Stm.p /\ entered' = entered \cup {Stm.p}
  /\ IF Stm.p = curPsect THEN UNCHANGED <<buf, obj>> ELSE NewRecord(Stm.p, loc[Stm.p])
  /\ NextLine
  /\ UNCHANGED <<pc, tabVars, jumpVars, numerror, startAddr, loc, size, trace>>

\* parseCond: past the ENDC that ends the condition, in the file opened if need be
Unread == [i \in 1..(Len(prog.text) - ip) |-> ip + i]
          \o (IF nInput = 0 THEN [i \in Lines |-> i] ELSE <<>>)
PastStatement(c, i) ==
  IF c.nest = 0 THEN c
  ELSE [nest |-> CASE prog.text[i].t = "cond" -> c.nest + 1
                   [] prog.text[i].t = "endc" -> c.nest - 1
                   [] OTHER -> c.nest,
        at |-> i, n |-> c.n + 1]
Skip(items) == Through(PastStatement, [nest |-> 1, at |-> ip, n |-> 0], items)
Skipped == Skip(Unread)

\* At the end of the source: EOF inside conditional, and Garbage on end of line.
Cond ==
  /\ At("cond")
  /\ \E stray \in Strays :
       LET v == EvalExpr(Stm.e, stray)
           skip == v.val = 0
           more == CountIf(Rel(v)) + (IF skip /\ Skipped.nest > 0 THEN 2 ELSE 0)
       IN /\ ip' = IF ~skip THEN ip + 1
                   ELSE IF Skipped.nest > 0 THEN Len(prog.text) + 1 ELSE Skipped.at + 1
          /\ nInput' = IF skip /\ (Skipped.nest > 0 \/ Skipped.n > Len(prog.text) - ip)
                       THEN 1 ELSE nInput
          /\ Evaluate(Stm.e, stray, more)
  /\ Reads
  /\ UNCHANGED <<prog, phase, curPsect, entered, tmp, tmpPtr, lowLabel, highLabel, jumpVars,
                 startAddr, objVars, trace>>

Endc ==
  /\ At("endc") /\ NextLine
  /\ UNCHANGED <<pc, curPsect, entered, tabVars, jumpVars, numerror, startAddr, objVars, trace>>

-----------------------------------------------------------------------------
(* The end of a pass, and of all.  What comes after END is left unread, and is what *)
(* the next pass reads first.                                                        *)

End ==
  /\ pc = "pass" /\ ip \in Lines /\ Stm.t \in {"end", "start"}
  /\ IF Stm.t = "end" THEN pc' = "over" /\ UNCHANGED <<sym, numerror, startAddr>>
     ELSE \E stray \in Strays :
            /\ startAddr' = EvalExpr(Stm.e, stray)
            /\ sym' = Mentioned(sym, Mentions(Stm.e))
            /\ Report(ExprErrors(Stm.e, stray), "over")
  /\ NextLine
  /\ UNCHANGED <<curPsect, entered, tmp, tmpPtr, lowLabel, highLabel, jumpVars, objVars, trace>>

EndOfFile ==
  /\ pc = "pass" /\ ip \notin Lines /\ nInput = 1
  /\ pc' = "over"
  /\ UNCHANGED <<prog, phase, ip, nInput, curPsect, entered, tabVars, jumpVars, numerror,
                 startAddr, objVars, trace, path>>

\* For comparison: every pass begins with the temporary labels of the one before.
NextPassKeeps ==
  /\ pc = "over" /\ phase < 2
  /\ pc' = "pass" /\ nInput' = 0
  /\ phase' = IF phase = 0 /\ prog.j THEN 1 ELSE 2
  /\ curPsect' = Abs /\ loc' = [p \in Bases |-> 0]
  /\ lowLabel' = 0 /\ tmpPtr' = tmpPtr
  /\ jOptIdx' = -1
  /\ buf' = Fresh(Abs, 0)
  /\ UNCHANGED <<prog, ip, entered, sym, tmp, highLabel, jOptTab, numerror, startAddr, size,
                 obj, trace, path>>


\* main, resetVals, initLocalLabels, and before the last pass writeObjHeader
NextPass ==
  /\ pc = "over" /\ phase < 2
  /\ pc' = "pass" /\ nInput' = 0
  /\ phase' = IF phase = 0 /\ prog.j THEN 1 ELSE 2
  /\ curPsect' = Abs /\ loc' = [p \in Bases |-> 0]
  /\ lowLabel' = 0 /\ tmpPtr' = (IF phase' = 2 THEN tmpPtr ELSE 0)
  /\ jOptIdx' = -1
  /\ buf' = Fresh(Abs, 0)
  /\ UNCHANGED <<prog, ip, entered, sym, tmp, highLabel, jOptTab, numerror, startAddr, size,
                 obj, trace, path>>

\* writeRecords, addObjAllSymbols, addObjEnd
SymItem(s) ==
  IF sym[s].undef THEN [s |-> s, flags |-> "extern", val |-> sym[s].val, psect |-> sym[s].psect]
  ELSE [s |-> s, flags |-> IF sym[s].glob THEN "global" ELSE "local",
        val |-> sym[s].val, psect |-> sym[s].psect]
Extents == {[psect |-> p, end |-> loc[p]] : p \in {q \in entered : loc[q] > size[q]}}
Finish ==
  /\ pc = "over" /\ phase = 2
  /\ obj' = obj \o Written(buf)
             \o <<[t |-> "PSECT", psects |-> entered, extents |-> Extents],
                  [t |-> "SYM", items |-> {SymItem(s) : s \in {x \in Syms : sym[x].known}}]>>
             \o (IF startAddr.psect = None THEN <<>>
                 ELSE <<[t |-> "START", val |-> startAddr.val, psect |-> startAddr.psect]>>)
             \o <<[t |-> "END"]>>
  /\ pc' = "done"
  /\ UNCHANGED <<prog, phase, ip, nInput, curPsect, entered, tabVars, jumpVars, numerror,
                 startAddr, loc, size, buf, trace, path>>

Ended == pc \in {"done", "failed"} /\ UNCHANGED vars

Next == \/ OpenFile \/ Label \/ Assign \/ Global \/ TmpLabel \/ Code \/ Jp \/ Jr \/ Defs \/ Org
        \/ Psect \/ Cond \/ Endc \/ End \/ EndOfFile \/ NextPass \/ Finish
        \/ Ended

Spec == Init /\ [][Next]_vars

-----------------------------------------------------------------------------
(* Properties *)

\* Positions in the tables of temporary labels and of jumps stay inside them, a record
\* holds what there is room for, and only the last pass counts errors and writes.
TypeOK ==
  /\ pc \in {"pass", "over", "done", "failed"}
  /\ phase \in 0..2 /\ (phase = 1 => prog.j) /\ nInput \in 0..1 /\ ip \in 1..(Len(prog.text) + 1)
  /\ curPsect \in entered /\ entered \subseteq Bases /\ loc \in [Bases -> Nat]
  /\ size \in [Bases -> -Half..(Half - 1)]
  /\ sym \in [Syms -> [known : BOOLEAN, undef : BOOLEAN, multi : BOOLEAN, glob : BOOLEAN,
                       val : Int, psect : Bases \cup {None}, ext : Syms \cup {None}]]
  /\ tmp \in [1..MaxTmp -> [label : Nat, loc : -Half..(Half - 1), psect : Bases \cup {None}]]
  /\ highLabel \in 0..MaxTmp /\ lowLabel \in Nat
  /\ pc # "failed" => tmpPtr \in 0..MaxTmp
  /\ jOptIdx \in -1..(MaxJumps - 1) /\ jOptTab \in [0..(MaxJumps - 1) -> BOOLEAN]
  /\ prog.j \/ ~\E i \in DOMAIN jOptTab : jOptTab[i]
  /\ startAddr \in Value
  /\ Len(buf.bytes) <= TextCap /\ Len(buf.relocs) <= RelocCap
  /\ phase < 2 => numerror = 0 /\ obj = <<>> /\ trace = <<>> /\ buf = Fresh(Abs, 0)

\* A byte of the program: where it is, what it is, and the relocation it starts.
RelocOf(v, w) == IF ~Rel(v) THEN None
                 ELSE [w |-> w, kind |-> IF v.ext # None THEN "NAME" ELSE "PSECT",
                       name |-> IF v.ext # None THEN v.ext ELSE v.psect]
Cells(f, p, at) ==
  CASE f.w = 0 -> <<[psect |-> p, at |-> at, x |-> f.x, rel |-> None]>>
    [] f.w = 1 -> <<[psect |-> p, at |-> at, x |-> [k |-> "b", x |-> f.v.val % (2 * Reach)],
                     rel |-> RelocOf(f.v, 1)]>>
    [] f.w = 2 -> LET x == f.v.val % (2 * Half)
                  IN <<[psect |-> p, at |-> at, x |-> [k |-> "lo", x |-> x],
                        rel |-> RelocOf(f.v, 2)],
                       [psect |-> p, at |-> at + 1, x |-> [k |-> "hi", x |-> x], rel |-> None]>>
CellsOf(p, at, fields) ==
  Through(LAMBDA c, f : c \o Cells(f, p, at + Len(c)), <<>>, fields)
CellsIn(visits) == Through(LAMBDA c, r : c \o CellsOf(r.psect, r.at, r.fields), <<>>, visits)
Emitted == CellsIn(trace)

\* the bytes as link reads them: a relocation record belongs to the text before it
PutReloc(acc, i) ==
  [acc EXCEPT !.cells[acc.base + i.off + 1].rel = [w |-> i.w, kind |-> i.kind, name |-> i.name]]
Relocated(acc, items) == Through(PutReloc, acc, items)
ReadRecord(acc, r) ==
  CASE r.t = "TEXT" ->
         [base  |-> Len(acc.cells),
          cells |-> acc.cells \o [i \in DOMAIN r.bytes |-> [psect |-> r.psect, at |-> r.off + i - 1,
                                                            x |-> r.bytes[i], rel |-> None]]]
    [] r.t = "RELOC" -> Relocated(acc, r.items)
    [] OTHER -> acc
ReadAll(file) == Through(ReadRecord, [base |-> 0, cells |-> <<>>], file)
Read(file) == ReadAll(file).cells

\* The object file, with what is in the buffers, is the text that the last pass put, byte
\* by byte at its place and with its relocation, however records were split; and in the
\* finished file each relocatable psect is as long as the last pass made it.
File == IF pc = "done" THEN obj ELSE obj \o Written(buf)
Ends(p) == {0} \cup {c.at + 1 : c \in {d \in Range(Emitted) : d.psect = p}}
               \cup {x.end : x \in {y \in UNION {r.extents : r \in {q \in Range(obj) : q.t = "PSECT"}} :
                                    y.psect = p}}
RecordsAsEmitted ==
  /\ pc # "failed" => Read(File) = Emitted
  /\ pc = "done" => \A p \in entered \ {Abs} : loc[p] = CHOOSE m \in Ends(p) : \A n \in Ends(p) : n <= m

\* Where an address, and where a branch, in the trace goes: modulo the address space.
Landing(r) ==
  LET f == r.fields[2]
  IN IF f.w = 2
     THEN [psect |-> IF f.v.psect = None THEN Abs ELSE f.v.psect, ext |-> f.v.ext,
           at |-> f.v.val % (2 * Half)]
     ELSE LET d == ((f.x.x + Reach) % (2 * Reach)) - Reach
          IN [psect |-> r.psect, ext |-> None, at |-> (r.at + 2 + d) % (2 * Half)]
Place(r) == [psect |-> r.psect, ext |-> None, at |-> r.at % (2 * Half)]

\* the expression that the instruction of a trace entry refers to, if it is one operand
Jumps == {n \in DOMAIN trace : prog.text[trace[n].ip].t \in {"jp", "jr"}}
Words == {n \in DOMAIN trace : LET st == prog.text[trace[n].ip]
                               IN st.t = "code" /\ Len(st.items) = 2 /\ st.items[2].w = 2}
Reference(n) == LET st == prog.text[trace[n].ip]
                IN IF n \in Words THEN st.items[2].e ELSE st.e
RefersTo(kinds) == {n \in Jumps \cup Words : Reference(n).op = "one" /\ Reference(n).a.k \in kinds}
Labelled(n, t) == prog.text[trace[n].ip].t = t

\* the labels that only label statements define
Assigned == {prog.text[i].s : i \in {l \in Lines : prog.text[l].t \in {"equ", "defl"}}}
NamedLand ==
  \A n \in RefersTo({"sym"}), m \in DOMAIN trace :
    LET s == Reference(n).a.s
    IN Labelled(m, "label") /\ prog.text[trace[m].ip].s = s /\ s \notin Assigned
         => Landing(trace[n]) = Place(trace[m])
\* A label that the first pass did not meet is not seen to be there twice, and the check
\* of a label in the last pass is of its offset, not of its psect.
SamePath == path[2] = path[0] /\ (prog.j => path[1] = path[0])

\* When zas reports no error, and the passes read the same statements, every jump, branch
\* and address of a label goes where the last pass met the label, whatever -J made of the
\* jumps and whatever psect, ORG and DEFS did in between.
LabelsLand == pc = "done" /\ numerror = 0 /\ SamePath => NamedLand

\* the nearest temporary label, in the direction asked for
Nearest(n) ==
  LET a    == Reference(n).a
      tmps == {m \in DOMAIN trace : /\ Labelled(m, "tmp") /\ prog.text[trace[m].ip].n = a.n
                                    /\ IF a.k = "fwd" THEN m > n ELSE m < n}
  IN {m \in tmps : \A o \in tmps : IF a.k = "fwd" THEN m <= o ELSE o <= m}
TemporariesLand ==
  \A n \in RefersTo({"fwd", "bwd"}) : \A m \in Nearest(n) : Landing(trace[n]) = Place(trace[m])

\* Programs with nothing out of the ordinary: what they refer to is there, once.
PsectAt(i) ==
  LET before == {l \in 1..i : prog.text[l].t = "psect"}
  IN IF before = {} THEN Abs ELSE prog.text[CHOOSE l \in before : \A m \in before : m <= l].p
Statements(t) == {l \in Lines : prog.text[l].t = t}
Exprs(st) == CASE st.t = "jp" -> {st.e}
               [] st.t = "code" -> {st.items[i].e : i \in {k \in DOMAIN st.items : st.items[k].w # 0}}
               [] OTHER -> {}
Found(i, a) ==
  CASE a.k = "sym" -> \E l \in Statements("label") \cup Statements("global") : prog.text[l].s = a.s
    [] a.k \in {"fwd", "bwd"} ->
         /\ prog.j => PsectAt(i) # Abs
         /\ \E l \in Statements("tmp") : /\ prog.text[l].n = a.n
                                     /\ IF a.k = "fwd" THEN l > i ELSE l < i
    [] OTHER -> a.k = "here" \/ a.n \in 0..(Reach - 1)
Plain ==
  /\ \A i \in Lines : LET st == prog.text[i]
                      IN CASE st.t \in {"label", "global", "tmp", "psect"} -> TRUE
                           [] st.t \in {"jp", "code"} ->
                                \A e \in Exprs(st) : e.op = "one" /\ Found(i, e.a)
                           [] st.t = "defs" -> st.e.op = "one" /\ st.e.a.k = "num" /\ st.e.a.n >= 0
                           [] OTHER -> st.t = "end" /\ i = Len(prog.text)
  /\ \A i, l \in Statements("label") : prog.text[i].s = prog.text[l].s => i = l
  /\ Cardinality(Statements("tmp")) <= MaxTmp

\* A plain program assembles, with and without -J: the passes agree on every location, no
\* jump made into a branch is left out of reach, everything lands, and what is relocated
\* by name is a name that the object file declares.
PlainAssembles ==
  Plain =>
    /\ pc # "failed" /\ numerror = 0
    /\ pc = "done" =>
         /\ NamedLand /\ TemporariesLand
         /\ \A c \in Range(Emitted) : c.rel # None /\ c.rel.kind = "NAME" =>
              \E i \in UNION {r.items : r \in {q \in Range(obj) : q.t = "SYM"}} :
                i.s = c.rel.name /\ i.flags # "local"
=============================================================================
