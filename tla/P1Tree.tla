------------------------------- MODULE P1Tree -------------------------------
(* How p1 makes the tree of an operator and its operands (parseExpr): what  *)
(* the operands are converted to, what is complained of, and the type of    *)
(* the result.  P is the state of the parser: P.errs and P.warns what has   *)
(* been said (a warning with the length of the code at that time), P.syms the symbols, P.fn the function being read; P.x is the  *)
(* tree an operator gives, P.l and P.r the operands on the way to it.       *)
EXTENDS P1Type

prError(P, e) == [P EXCEPT !.errs = Append(@, e)]
prWarning(P, e) == [P EXCEPT !.warns = Append(@, [w |-> e, at |-> Len(P.code)])]
Complain(P, unless, e) == IF unless THEN P ELSE prError(P, e)
Caution(P, unless, e) == IF unless THEN P ELSE prWarning(P, e)
Flag(P, s, f) == [P EXCEPT !.syms[s].fl = @ \cup f]
sub_51cf(P, s) == IF s = 0 THEN P ELSE Flag(P, s, {"used"})

\* A value where an array or a function stands (sub_1e37, sub_1df0).
newAddressOfNode(e) ==
  Tree("&U", <<e>>, [e.at EXCEPT !.ex = <<>>, !.node = "sym", !.ind = @ + 1])
Decayed(e) == IF e.at.node = "expr" THEN newAddressOfNode(e) ELSE e
FunctionAddress(e) ==
  IF e.op # "id" \/ e.at.node # "func" THEN e
  ELSE newAddressOfNode([e EXCEPT !.at = [Plain(DT.complex) EXCEPT !.next = e.sy]])

\* typeAlign: constants are given the type, other trees converted to it.
Implicit(P, e) == e.op = "func" /\ e.kids[1].op = "id" /\ "implicit" \in P.syms[e.kids[1].sy].fl
DeclaredInt(P, e) ==
  IF Implicit(P, e)
  THEN [prWarning(P, "implicit int") EXCEPT !.syms[e.kids[1].sy].fl = @ \ {"implicit"}] ELSE P
\* For comparison: a constant keeps the type it has.
ConvertedButConstants(P, e, a) ==
  IF haveSameDataType(P.syms, e.at, a) \/ e.op = "iconst" THEN e
  ELSE Tree("cv", <<e, newSTypeLeaf(a)>>, a)
Converted(P, e, a) ==
  IF haveSameDataType(P.syms, e.at, a) THEN e
  ELSE IF e.op = "iconst" /\ ~e.fixed THEN [e EXCEPT !.at = a]
  ELSE Tree("cv", <<e, newSTypeLeaf(a)>>, a)
typeAlign(P, e, a) == [DeclaredInt(P, e) EXCEPT !.x = Converted(P, e, a)]
\* sub_1ccc
To(P, e, d) == typeAlign(P, e, Plain(d))

\* sub_1f5d: a value given to an object of type a.
sub_1f5d(P, e, a, unscaled) ==
  LET same == haveSameDataType(P.syms, e.at, a)
      s == e.at
      scaled == ~unscaled /\ (isVarOfType(s, DT.const) \/ isVarOfType(s, DT.uconst))
      said == CASE same -> P
        [] ~same /\ isSimpleType(s) /\ isSimpleType(a) ->
             Caution(P, ~(isIntType(a) /\ isFloatType(s)), "float to integer")
        [] ~same /\ Pointer(a) /\ isIntType(s) -> Caution(P, scaled \/ isZero(e), "integer to pointer")
        [] ~same /\ Pointer(s) /\ isIntType(a) -> prWarning(P, "pointer to integer")
        [] ~same /\ Pointer(s) /\ Pointer(a) -> Caution(P, isVoidStar(s) \/ isVoidStar(a), "pointer types")
        [] OTHER -> prError(P, "illegal conversion")
  IN IF ~same /\ Pointer(a) /\ isIntType(s) /\ scaled THEN [P EXCEPT !.x = e] ELSE typeAlign(said, e, a)

\* sub_1d02: an argument of which nothing is known.
Widened(P, e) ==
  IF e.op \notin {",", ".."} /\ e.at.node = "sym" /\ e.at.ind = 0
  THEN IF e.at.ty < DT.int \/ e.at.ty = DT.enum THEN To(P, e, DT.int)
       ELSE IF e.at.ty = DT.float THEN To(P, e, DT.double) ELSE [P EXCEPT !.x = e]
  ELSE [P EXCEPT !.x = e]

\* For comparison: a result is as wide as the left operand.
getResultDataTypeOfLeft(l, r) ==
  IF Unsigned(r.at.ty) THEN AsUnsigned(l.at.ty) ELSE l.at.ty
getResultDataType(l, r) ==
  LET larger == IF l.at.ty < r.at.ty THEN r.at.ty ELSE l.at.ty
      d == IF larger < DT.int THEN DT.int ELSE larger
      whole == IF d = DT.enum THEN DT.int ELSE d
  IN IF d \in {DT.float, DT.double} THEN DT.double
     ELSE IF Unsigned(l.at.ty) \/ Unsigned(r.at.ty) THEN AsUnsigned(whole) ELSE whole

newNode(op, l, r) ==
  IF op = ".." THEN Tree(op, <<>>, Plain(DT.void))
  ELSE Tree(op, IF IsBinary(op) THEN <<l, r>> ELSE <<l>>, Plain(DT.void))
ResultAttr(P, op, l, r) ==
  CASE opTable[op].result = "left" -> l.at
    [] opTable[op].result = "right" -> r.at
    [] opTable[op].result = "deref" -> delIndirection(P.syms, l.at)
    [] opTable[op].result = "address" -> [l.at EXCEPT !.ind = @ + 1]
    [] opTable[op].result = "int" -> Plain(DT.int)
    [] opTable[op].result = "bool" -> Plain(DT.bool)
    [] OTHER -> Plain(DT.void)
getResultAttr(P, op, l, r) ==
  IF op = "cv" /\ l.op = "iconst" THEN [l EXCEPT !.at = r.at]
  ELSE [newNode(op, l, r) EXCEPT !.at = ResultAttr(P, op, l, r)]

----------------------------------------------------------------------------
(* parseExpr, from the end to the beginning.                                *)
WithL(P) == [P EXCEPT !.l = P.x]
WithR(P) == [P EXCEPT !.r = P.x]
Has(op, f) == f \in opTable[op].flags

RECURSIVE Build(_, _, _, _)
\* sub_1ebd: the size of what a pointer points to.
SizeUnder(P, p) ==
  Build(P, "#", newSTypeLeaf([p.at EXCEPT !.ind = IF @ = 0 THEN 0 ELSE @ - 1]), Null)
makeBool(P, e) ==
  IF ~isLogicalType(e.at) THEN [prError(P, "logical type") EXCEPT !.x = e]
  ELSE IF isVarOfType(e.at, DT.bool) THEN [P EXCEPT !.x = e]
  ELSE LET compare(Q) == Build(Q, "!=", e, Q.x) IN compare(typeAlign(P, eZero, e.at))

\* The difference of two pointers is divided by the size of what is there.
Finish(P, op, divide, p) ==
  LET result(Q) == [Q EXCEPT !.x = getResultAttr(Q, op, Q.l, Q.r)]
      over(Q) == LET by(R) == Build(R, "/", Q.x, R.x) IN by(SizeUnder(Q, p))
  IN IF divide THEN over(result(P)) ELSE result(P)
AssignRight(P, op) ==
  IF Has(op, "assign") THEN WithR(sub_1f5d(P, P.r, P.l.at, ~Has(op, "scale"))) ELSE P
ToBools(P, op) ==
  LET right(Q) == IF Has(op, "rbool") THEN WithR(makeBool(Q, Q.r)) ELSE Q
  IN right(IF Has(op, "lbool") THEN WithL(makeBool(P, P.l)) ELSE P)
\* An integer that goes with a pointer is multiplied by the size of its object.
ScaledBy(P, n, p, unsigned) ==
  LET times(Q) == Build(Q, "*", n, Q.x)
      const(Q) == To(Q, Q.x, IF unsigned THEN DT.uconst ELSE DT.const)
  IN const(times(SizeUnder(P, p)))
Pointers(P, op) ==
  LET both == IsBinary(op)
      checked == ~Has(op, "erel") \/ ~(isVoidStar(P.l.at) \/ isVoidStar(P.r.at))
      differ == both /\ ~haveSameDataType(P.syms, P.l.at, P.r.at)
      p == P.l
  IN IF checked /\ differ THEN Finish(AssignRight(prWarning(P, "pointer type"), op), op, FALSE, p)
     ELSE IF checked /\ op = "-"
     THEN LET right(Q) == WithR(To(Q, Q.r, DT.const)) IN Finish(right(WithL(To(P, P.l, DT.const))), op, TRUE, p)
     ELSE Finish(AssignRight(P, op), op, FALSE, p)
Arithmetic(P, op) ==
  LET right(Q, d) == WithR(To(Q, Q.r, d))
      both(Q, d) == right(WithL(To(Q, Q.l, d)), d)
      done(Q) == Complain(Q, Has(op, "float") \/ (isIntType(Q.l.at) /\ (IsBinary(op) => isIntType(Q.r.at))), "integral type")
  IN done(IF Has(op, "usual") THEN both(P, getResultDataType(P.l, P.r)) ELSE P)
\* A zero compared with a pointer is a pointer.
ZeroPointer(P) ==
  IF isZero(P.l) /\ Pointer(P.r.at) THEN WithL(typeAlign(P, P.l, P.r.at))
  ELSE IF isZero(P.r) /\ Pointer(P.l.at) THEN WithR(typeAlign(P, P.r, P.l.at)) ELSE P
OtherTypes(P, op) ==
  LET void == isVarOfType(P.l.at, DT.void) \/ (IsBinary(op) /\ isVarOfType(P.r.at, DT.void))
      simple == isLogicalType(P.l.at) /\ (IsBinary(op) => isLogicalType(P.r.at))
      compared(Q) == Caution(Q, haveSameDataType(Q.syms, Q.l.at, Q.r.at), "not same type")
  IN IF void THEN prError(P, "void expression")
     ELSE IF ~Has(op, "sep") /\ ~simple THEN prError(P, "simple type")
     ELSE IF Has(op, "arel") THEN compared(IF Has(op, "erel") THEN ZeroPointer(P) ELSE P)
     ELSE P
Numeric(op) == Has(op, "float") \/ Has(op, "int")
Completed(P, op) == Finish(AssignRight(P, op), op, FALSE, Null)
\* For comparison: the sum of an integer and a pointer is left unscaled.
OperandsUnscaled(P, op) ==
  IF Has(op, "lbool") \/ Has(op, "rbool") THEN Completed(ToBools(P, op), op)
  ELSE IF Has(op, "scale") /\ Pointer(P.l.at) /\ isIntType(P.r.at)
  THEN Completed(WithR(ScaledBy(P, P.r, P.l, Unsigned(P.r.at.ty))), op)
  ELSE IF Has(op, "ptrs") /\ Pointer(P.l.at) /\ (IsBinary(op) => Pointer(P.r.at)) THEN Pointers(P, op)
  ELSE IF Numeric(op) /\ isSimpleType(P.l.at) /\ (IsBinary(op) => isSimpleType(P.r.at)) THEN Completed(Arithmetic(P, op), op)
  ELSE Completed(P, op)
Operands(P, op) ==
  IF Has(op, "lbool") \/ Has(op, "rbool") THEN Completed(ToBools(P, op), op)
  ELSE IF Has(op, "scale") /\ Pointer(P.l.at) /\ isIntType(P.r.at)
  THEN Completed(WithR(ScaledBy(P, P.r, P.l, Unsigned(P.r.at.ty))), op)
  ELSE IF op = "+" /\ Pointer(P.r.at) /\ isIntType(P.l.at)
  THEN LET swapped(Q) == [Q EXCEPT !.l = P.r, !.r = Q.x]
       IN Completed(swapped(ScaledBy(P, P.l, P.r, Unsigned(P.r.at.ty))), op)
  ELSE IF Has(op, "ptrs") /\ Pointer(P.l.at) /\ (IsBinary(op) => Pointer(P.r.at)) THEN Pointers(P, op)
  ELSE IF Numeric(op) /\ isSimpleType(P.l.at) /\ (IsBinary(op) => isSimpleType(P.r.at)) THEN Completed(Arithmetic(P, op), op)
  ELSE IF Has(op, "void") THEN Completed(OtherTypes(P, op), op)
  ELSE Completed(Complain(P, Has(op, "sep"), "type conflict"), op)

\* sub_1340: the member of a structure a name stands for.
RECURSIVE Members(_, _, _)
Members(syms, owner, s) == IF s \in {0, owner} THEN <<>> ELSE <<s>> \o Members(syms, owner, syms[s].mem)
findMember(syms, owner, name) ==
  LET found == SelectSeq(Members(syms, owner, syms[owner].mem), LAMBDA s : syms[s].name = name)
  IN IF found = <<>> THEN 0 ELSE Head(found)
MemberId(P, s) == Tree("memid", <<>>, P.syms[s].at)
Member(P) ==
  LET owner == P.l.at.next
      s == IF owner = 0 \/ P.r.op # "id" THEN 0 ELSE findMember(P.syms, owner, P.syms[P.r.sy].name)
  IN IF ~(isVarOfType(P.l.at, DT.struct) \/ isVarOfType(P.l.at, DT.union)) THEN prError(P, "struct required")
     ELSE IF P.r.op # "id" THEN prError(P, "member expected")
     ELSE IF owner = 0 THEN P
     ELSE IF "defined" \notin P.syms[owner].fl THEN prError(P, "undefined struct")
     ELSE IF s = 0 THEN prError(P, "not a member")
     ELSE [sub_51cf(P, s) EXCEPT !.r = [MemberId(P, s) EXCEPT !.v = P.syms[s].mid]]
\* The value a function returns is given its type.
Returned(P) ==
  LET a == [P.syms[P.fn].at EXCEPT !.node = "sym"]
  IN IF isVarOfType(a, DT.void) THEN prError(P, "void function") ELSE WithL(sub_1f5d(P, P.l, a, TRUE))

BuildOn(P, op) ==
  IF op = "root" THEN [P EXCEPT !.x = P.l]
  ELSE Operands(IF op = "." THEN Member(P) ELSE IF op = "ret" THEN Returned(P) ELSE P, op)
BoolsAsInts(P, op) ==
  LET one(Q) == IF isVarOfType(Q.l.at, DT.bool) THEN WithL(To(Q, Q.l, DT.int)) ELSE Q
      two(Q) == IF IsBinary(op) /\ isVarOfType(Q.r.at, DT.bool) THEN WithR(To(Q, Q.r, DT.int)) ELSE Q
  IN IF Has(op, "lbool") \/ Has(op, "rbool") THEN P ELSE two(one(P))
Checked(P, op) ==
  LET target == Has(op, "lvalue") => Assignable(P.syms, P.l)
      array == op = "&U" /\ P.l.op = "&U" /\ P.l.kids[1].at.node = "expr"
      pointed(Q) == Complain(Q, Has(op, "pointer") => Pointer(Q.l.at), "pointer required")
      full(Q) == Complain(Q, op = "&U" => Q.l.at.ind < MaxIndirection, "too much indirection")
  IN IF ~target /\ array THEN [P EXCEPT !.x = P.l]
     ELSE BuildOn(BoolsAsInts(full(pointed(Complain(P, target, "only lvalues"))), op), op)
Values(P, op) ==
  LET left == IF Has(op, "sizeof") THEN P.l ELSE Decayed(P.l)
      right == IF IsBinary(op) THEN FunctionAddress(IF Has(op, "member") THEN P.r ELSE Decayed(P.r)) ELSE P.r
      direct(Q) == [Q EXCEPT !.l = Q.x, !.r = right]
  IN IF op # "func" THEN [P EXCEPT !.l = FunctionAddress(left), !.r = right]
     ELSE IF Pointer(left.at) THEN direct(Build(P, "*U", left, Null))
     ELSE [P EXCEPT !.l = left, !.r = right]
Build(P, op, l, r) ==
  LET register == op = "&U" /\ l.op = "id" /\ "reg" \in P.syms[l.sy].fl
  IN IF l = Null \/ (IsBinary(op) /\ r = Null) THEN [P EXCEPT !.x = Null]
     ELSE [Checked(Values([Complain(P, ~register, "register") EXCEPT !.l = l, !.r = r], op), op)
             EXCEPT !.l = P.l, !.r = P.r]
=============================================================================
