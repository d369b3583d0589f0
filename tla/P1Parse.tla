------------------------------ MODULE P1Parse ------------------------------
(* p1's parser of expressions, by the precedence of the operators, and of   *)
(* types and declarators.                                                   *)
EXTENDS P1Names

(* Expressions, types and declarators are read within each other: Parse is  *)
(* the one operator that recurs, and a job [k, ...] says what is to be read. *)
RECURSIVE Parse(_, _)
NextTok(P) == Parse(P, [k |-> "token"])
Skip(P) == Parse(P, [k |-> "skip"])
Make(P, op, l, r) == Parse(P, [k |-> "tree", op |-> op, l |-> l, r |-> r])
ExprFrom(P, has, base) == Parse(P, [k |-> "expression", has |-> has, base |-> base])
ReduceTop(P) == Parse(P, [k |-> "reduce"])
ConstantOf(P, mode) == Parse(P, [k |-> "constant", mode |-> mode])
Operation(P, op, has, base) == Parse(P, [k |-> "operation", op |-> op, has |-> has, base |-> base])
PassFrom(P, formals, given) == Parse(P, [k |-> "arguments", formals |-> formals, given |-> given])
SpecsFrom(P, allowed, d) == Parse(P, [k |-> "type", allowed |-> allowed, d |-> d])
NoSpecs == [cls |-> "", ty |-> 0, size |-> 0, uns |-> FALSE, fl |-> {}, at |-> Plain(0)]
Specs(P, allowed) == SpecsFrom(NextTok(P), allowed, NoSpecs)
MembersFrom(P, a, in, last) == Parse(P, [k |-> "members", a |-> a, in |-> in, last |-> last])
ConstantsFrom(P, s, value, n) == Parse(P, [k |-> "constants", s |-> s, value |-> value, n |-> n])
Declarator(P, cls, a, fl, owner) == Parse(P, [k |-> "declarator", cls |-> cls, a |-> a, fl |-> fl, owner |-> owner])
parseDeclaration(P, cls) == Parse(P, [k |-> "declaration", cls |-> cls])
SuffixesFrom(P, cls, stars, lent) == Parse(P, [k |-> "suffixes", cls |-> cls, stars |-> stars, lent |-> lent])
Declares(P, s, cls, a, owner) == Parse(P, [k |-> "symbol", s |-> s, cls |-> cls, a |-> a, owner |-> owner])
ArgOf(P, top, d) == Parse(P, [k |-> "argument", top |-> top, d |-> d])

skipStmt(P) ==
  CASE P.tok.k = "eof" -> [fatalErr(P, "unexpected EOF") EXCEPT !.un = <<Eof>>]
    [] P.tok.k \in {";", "}"} -> unget(P)
    [] OTHER -> Skip(NextTok(P))
\* The token read is to be this one; else it is said, and the token given back.
Wants(P, k) == IF P.tok.k = k THEN P ELSE unget(prError(P, "expected"))
expect(P, k) ==
  LET check(Q) == IF Q.tok.k = k THEN Q ELSE Skip(prError(Q, "expected")) IN check(NextTok(P))
skipToSemi(P) ==
  LET found(Q) == IF Q.tok.k = ";" \/ Q.fatal # "" THEN unget(Q)
                  ELSE IF Q.tok.k = "eof" THEN fatalErr(Q, "never ends") ELSE Parse(Q, [k |-> "semi"])
  IN found(NextTok(P))

pushOp(P, op) ==
  IF Len(P.os) = MaxStack THEN fatalErr(P, "too complex")
  ELSE [P EXCEPT !.os = <<[op |-> op, prec |-> opTable[op].prec]>> \o @]
pushExpr(P, e) == IF Len(P.es) = MaxStack THEN fatalErr(P, "too complex") ELSE [P EXCEPT !.es = <<e>> \o @]
\* popExpr: the operand goes to x; none is Null.
popExpr(P) == IF P.es = <<>> THEN [P EXCEPT !.x = Null] ELSE [P EXCEPT !.x = Head(P.es), !.es = Tail(@)]
TopOp(P) == Head(P.os)
TopPrec(P, n) == [P EXCEPT !.os[1].prec = n]
PushTree(P) == [pushExpr(P, P.x) EXCEPT !.bad = FALSE]

----------------------------------------------------------------------------
(* sub_10a8: the operator on the top with its operands.                     *)
Stepping == [o \in {"++U", "U++", "--U", "U--"} |->
               CASE o = "++U" -> "=+" [] o = "--U" -> "=-" [] o = "U++" -> "++" [] OTHER -> "--"]
Built(P, op, l, r) ==
  IF (op = "?") # (r # Null /\ r.op = ":") THEN [P EXCEPT !.bad = TRUE] ELSE PushTree(Make(P, op, l, r))
\* The size of an expression that is no name is that of its type; of an array
\* the size of an element times the dimension.
SizeOf(P, e) ==
  LET type == [e.at EXCEPT !.ex = <<>>, !.node = "sym"]
      dimension(Q) == To(Q, e.at.ex[1], DT.uint)
      array(Q) == LET times(R) == Built(R, "*", Q.x, R.x) IN times(dimension(Q))
      named == e.op \in {"stype", "id"}
  IN CASE e.op = "sconst" -> PushTree([P EXCEPT !.x = newIntLeaf(e.v + 1, DT.uint)])
       [] ~named /\ e.at.node = "expr" -> array(Make(P, "#", newSTypeLeaf(type), Null))
       [] ~named /\ e.at.node # "expr" -> Built(P, "#", newSTypeLeaf(type), Null)
       [] e.op = "stype" /\ e.at.node = "expr" -> array(Make(P, "#", e, Null))
       [] OTHER -> Built(P, "#", e, Null)
Reduced(P, op, l, r) ==
  LET index(Q) == Built(TopPrec(pushOp(Q, "*U"), 100), "+", l, Q.x)
      pointed(Q) == Built(Q, ".", Q.x, r)
      cast(Q) == PushTree(typeAlign(Q, Q.x, l.at))
  IN CASE op = "[]" -> index(IF isValidIndex(r.at) THEN To(P, r, DT.const) ELSE [prError(P, "index") EXCEPT !.x = r])
       [] op \in DOMAIN Stepping -> Built(P, Stepping[op], l, eOne)
       [] op = "->" -> pointed(Make(P, "*U", l, Null))
       [] op = "#" -> SizeOf(P, l)
       [] op = "," -> Built(P, "seq", l, r)
       [] op = "cast" -> cast(Make(P, "root", r, Null))
       [] OTHER -> Built(P, op, l, r)
sub_10a8(P) ==
  LET op == TopOp(P).op
      popped == [P EXCEPT !.os = Tail(@), !.bad = FALSE]
      left(Q, r) == LET with(R) == IF R.x = Null THEN [R EXCEPT !.bad = TRUE] ELSE Reduced(R, op, R.x, r) IN with(popExpr(Q))
      right(Q) == IF Q.x = Null THEN [Q EXCEPT !.bad = TRUE] ELSE left(Q, Q.x)
  IN IF op = "(" THEN popped
     ELSE IF IsBinary(op) THEN right(popExpr(popped)) ELSE left(popped, Null)

----------------------------------------------------------------------------
Expr(P) == [ExprFrom(pushOp(P, "root"), FALSE, Len(P.es)) EXCEPT !.es = P.es, !.os = P.os]
\* parseExpr(T_EROOT, sub_0bfc(), 0), with the mode of sub_07f5.
ExprIn(P, mode) ==
  LET root(Q) == Make([Q EXCEPT !.mode = P.mode], "root", Q.x, Null) IN root(Expr([P EXCEPT !.mode = mode]))
FullExpr(P) == ExprIn(P, P.mode)
parseConstExpr(P, mode) ==
  LET index(Q) == IF mode # 2 THEN Q
                  ELSE IF isValidIndex(Q.x.at) THEN To(Q, Q.x, DT.const) ELSE prError(Q, "array dimension")
      check(Q) == IF Q.x = Null THEN Q
                  ELSE IF isConstExpr(Q.syms, Q.x) THEN index(Q) ELSE prError(Q, "constant expression")
  IN [check(ExprIn(P, mode)) EXCEPT !.mode = 0]

(* sub_0817: the arguments of a call.  What is known of those that are still *)
(* to come is <<their types>>, or <<>>.                                     *)
FunctionOf(P, a) ==
  IF a.node # "func" /\ a.ind = 1 /\ a.ty = DT.complex /\ P.syms[a.next].at.node = "func" THEN P.syms[a.next].at ELSE a
FormalsOf(f) == IF f.node = "func" THEN f.args ELSE <<>>
First(formals, d) == formals # <<>> /\ formals[1] # <<>> /\ Head(formals[1]).ty = d
TakesNothing(formals) == First(formals, DT.void) /\ isVarOfType(Head(formals[1]), DT.void)
ArgList(given) ==
  IF given = <<>> THEN newNode("..", Null, Null)
  ELSE FoldLeft(LAMBDA l, e : newNode(",", l, e), Head(given), Tail(given))
PassEnd(P, formals, given) ==
  LET none == given = <<>> /\ TakesNothing(formals) /\ Len(formals[1]) = 1
      few == formals # <<>> /\ formals[1] # <<>> /\ ~none /\ ~First(formals, DT.vargs)
  IN [Complain(P, ~few, "too few arguments") EXCEPT !.x = ArgList(given)]
PassNext(P, formals, given) ==
  IF P.tok.k = "," THEN PassFrom(P, formals, given) ELSE PassEnd(unget(P), formals, given)
\* For comparison: an argument is passed as it is.
ArgumentAsIs(P, formals, given) ==
  IF formals = <<>> THEN PassNext(NextTok(P), <<>>, Append(given, P.x))
  ELSE PassNext(NextTok(P), <<Tail(formals[1])>>, Append(given, P.x))
Argument(P, formals, given) ==
  LET more(Q, fs) == PassNext(NextTok(Q), fs, Append(given, Q.x))
  IN IF formals = <<>> THEN more(Widened(P, P.x), <<>>)
     ELSE more(sub_1f5d(P, P.x, Head(formals[1]), TRUE), <<Tail(formals[1])>>)
PassArg(P, formals, given) ==
  LET known == IF First(formals, DT.vargs) THEN <<>> ELSE formals
      void == TakesNothing(known)
      got(Q, fs) == IF Q.x = Null \/ Len(given) = MaxArgs THEN PassEnd(Q, fs, given)
                    ELSE IF fs # <<>> /\ fs[1] = <<>> THEN Argument(prError(Q, "too many arguments"), <<>>, given)
                    ELSE Argument(Q, fs, given)
  IN IF P.tok.k = ")" THEN PassEnd(P, known, given)
     ELSE got(ExprIn(Complain(P, ~void, "takes no arguments"), 3), IF void THEN <<>> ELSE known)
PassArgs(P, a) ==
  LET f == FunctionOf(P, a)
      start(Q) == PassFrom(unget(Q), FormalsOf(f), <<>>)
  IN start(NextTok(Complain(P, f.node = "func", "function required")))

(* sub_0bfc: has tells whether an operand has just been read.               *)
Postfix(k, has) == IF has /\ k = "++U" THEN "U++" ELSE IF has /\ k = "--U" THEN "U--" ELSE k
AsUnary(k, has) == IF "alt" \in opTable[k].operand /\ ~has /\ k \in {"*", "&", "-"} THEN k \o "U" ELSE k
PushPrec(op, prec) == IF op \in {"U++", "U--"} THEN 31 ELSE IF op \in {"(", "[]"} THEN 4 ELSE prec
Failed(P) == [Skip(prError(P, "expression syntax")) EXCEPT !.x = Null]
EndPrec(P, op) ==
  IF (P.mode >= 3 /\ op = ",") \/ (P.mode = 1 /\ op = ":" /\ TopOp(P).op # "?") THEN 5 ELSE opTable[op].prec
\* For comparison: operators of one level are taken from the right.
ShiftsEqual(P, op, prec) == TopOp(P).prec < prec \/ (TopOp(P).prec = prec /\ opTable[op].flags # {"sep"})
Shifts(P, op, prec) == TopOp(P).prec < prec \/ (TopOp(P).prec = prec /\ "rtol" \in opTable[op].operand)
\* A token that ends the expression is lost when a parenthesis is still open.
Closing(P, op, close) ==
  IF op = "root" THEN [prError(P, "expected") EXCEPT !.un = <<TokenOf("root", 0, 0, "")>>] ELSE Wants(P, close)
RECURSIVE Settle(_, _, _, _, _)
\* The operator read against those on the stack.
Settle(P, op, prec, has, base) ==
  LET close == CASE TopOp(P).op = "(" -> ")" [] TopOp(P).op = "[]" -> "]" [] OTHER -> ""
      ended(Q) == IF Q.x # Null /\ Len(Q.es) = base THEN Q ELSE Failed(Q)
      matched(Q) == IF Q.bad THEN Failed(Q) ELSE ExprFrom(Q, has, base)
      again(Q) == IF Q.bad THEN Failed(Q) ELSE Settle(Q, op, prec, has, base)
  IN IF P.fatal # "" THEN [P EXCEPT !.x = Null]
     ELSE IF Shifts(P, op, prec) THEN ExprFrom(TopPrec(pushOp(P, op), PushPrec(op, prec)), has, base)
     ELSE CASE TopOp(P).op = "root" -> ended(popExpr(IF op = "root" THEN P ELSE unget(P)))
            [] close # "" -> matched(ReduceTop(Closing(P, op, close)))
            [] OTHER -> again(ReduceTop(P))

\* A name: a variable, a function not yet declared, or one that is not known.
ImplicitFunction(P, s) ==
  LET mark(Q) == emitVar([Flag(Q, s, {"implicit", "used"}) EXCEPT !.syms[s].lvl = 0], s)
  IN mark(Declares(P, s, "extern", [Plain(DT.int) EXCEPT !.node = "func"], 0))
NotKnown(P, s) ==
  [prError(P, "undefined identifier") EXCEPT !.syms[s].cls = "static", !.syms[s].at = Plain(DT.int),
     !.syms[s].fl = {"var", "defined"}]
Variable(P, s) ==
  LET y == P.syms[s]
      undeclared == IF Peek(P, "(") THEN ImplicitFunction(P, s) ELSE NotKnown(P, s)
      known == IF "var" \notin y.fl THEN prError(P, "not a variable")
               ELSE IF y.cls = "extern" /\ "emitted" \notin y.fl THEN emitVar(P, s) ELSE P
  IN sub_51cf(IF y.cls = "" THEN undeclared ELSE known, s)
IdLeaf(P, s) == pushExpr(P, newIdLeaf(P.syms, s))
StringLeaf(P, n) ==
  pushExpr([P EXCEPT !.strs = Append(@, n)], newSConstLeaf(Len(P.strs) + 1, n))
Leaf(P, member) ==
  CASE P.tok.k = "id" -> IdLeaf(IF member THEN P ELSE Variable(P, P.tok.s), P.tok.s)
    [] P.tok.k = "iconst" -> pushExpr(P, newIntLeaf(P.tok.v, DT.int))
    [] P.tok.k = "lconst" -> pushExpr(P, newIntLeaf(P.tok.v, DT.long))
    [] OTHER -> StringLeaf(P, P.tok.v)
\* A type in parentheses: a cast, or the operand of sizeof.
Cast(P, base) ==
  LET type(Q) == IF Q.tok.k # ")" THEN Failed(Q)
                 ELSE IF TopOp(Q).op = "#" THEN ExprFrom(pushExpr(TopPrec(Q, 100), newSTypeLeaf(Q.syms[Q.s].at)), TRUE, base)
                 ELSE Operation(pushExpr(Q, newSTypeLeaf(Q.syms[Q.s].at)), "cast", FALSE, base)
      kept(Q) == LET R == NextTok(sub_51cf(defineArg(Q, Q.s), Q.s)) IN [R EXCEPT !.s = Q.s]
      named(Q) == Declarator(Q, "cast", Q.at, {}, 0)
  IN type(kept(named(Specs(P, FALSE))))
Parenthesis(P, has, base) ==
  LET call(Q) == LET args(R) == Operation(pushExpr(R, R.x), "(", TRUE, base) IN args(PassArgs(Q, Head(Q.es).at))
      inside(Q) == IF StartsType(Q)
                   THEN IF has THEN Failed(Q) ELSE Cast(unget(Q), base)
                   ELSE IF has THEN call(pushOp(unget(Q), "func")) ELSE Operation(unget(Q), "(", FALSE, base)
  IN inside(NextTok(P))
Operator1(P, has, base) ==
  LET k == P.tok.k
      op == AsUnary(k, has)
  IN CASE k = "(" -> Parenthesis(P, has, base)
       [] k = "[" -> IF has THEN Operation(P, "[]", FALSE, base) ELSE Failed(P)
       [] k \in {")", "]"} -> IF has THEN Operation(P, k, TRUE, base) ELSE Failed(P)
       [] k = "root" -> Operation(P, k, has, base)
       [] k \in {"++U", "--U"} -> Operation(P, Postfix(k, has), has, base)
       [] OTHER -> IF IsBinary(op) # has THEN Failed(P) ELSE Operation(P, op, FALSE, base)
Operand(P, has, base) ==
  LET member == TopOp(P).op \in {".", "->"}
      read(Q) == IF P.fatal # "" THEN [P EXCEPT !.x = Null]
                 ELSE IF Q.tok.k = "type" THEN Failed(Q)
                 ELSE IF Q.tok.k \notin DOMAIN opTable THEN Operation(unget(Q), "root", has, base)
                 ELSE IF "leaf" \notin opTable[Q.tok.k].operand THEN Operator1(Q, has, base)
                 ELSE IF has THEN Failed(Q) ELSE ExprFrom(Leaf(Q, member), TRUE, base)
  IN read([NextTok([P EXCEPT !.memb = member]) EXCEPT !.memb = FALSE])

----------------------------------------------------------------------------
(* Types (sub_5dd1): the class goes to cls, register and a class given or   *)
(* assumed ("mem") to fl, the type to at.                                   *)
GivenClass(d, c) ==
  [d EXCEPT !.cls = IF c = "register" \/ @ # "" THEN @ ELSE c,
            !.fl = @ \cup (IF c = "register" THEN {"reg"} ELSE IF c = "extern" THEN {} ELSE {"mem"})]
ClassSaid(P, d, c, allowed) ==
  IF ~allowed THEN prError(P, "class illegal")
  ELSE Complain(Complain(P, c # "auto" \/ P.depth > 0, "bad class"), c = "register" \/ d.cls \in {"", c}, "inconsistent class")
Sized(d) ==
  CASE d.size > 0 /\ d.ty \in {DT.float, DT.int} -> d.ty + 2 [] d.size < 0 /\ d.ty = DT.int -> DT.short [] OTHER -> d.ty
SpecsEnd(P, d) ==
  LET e == [d EXCEPT !.cls = IF @ # "" THEN @ ELSE IF P.depth > 0 THEN P.defc ELSE "extern",
                     !.fl = IF d.cls = "" THEN @ \cup {"mem"} ELSE @, !.ty = IF @ = 0 THEN DT.int ELSE @]
      signed == Sized(e)
      unsigned == d.uns /\ signed < DT.float
      register(Q) == Complain(Q, "reg" \in e.fl => e.cls \in {"auto", "stack", "d15"}, "can't be a register")
      size(Q) == Complain(Q, (e.size > 0 => e.ty \in {DT.float, DT.int}) /\ (e.size < 0 => e.ty = DT.int), "size")
      sign(Q) == Complain(Q, d.uns = unsigned, "can't be unsigned")
  IN [sign(size(register(unget(P)))) EXCEPT !.cls = e.cls, !.fl = e.fl,
        !.at = [e.at EXCEPT !.ty = IF unsigned THEN AsUnsigned(signed) ELSE signed]]

(* sub_60db: the members one after the other, each linked to the next and   *)
(* the last to the structure.  memb is the one before, id the next number.  *)
BitField(P, s) ==
  LET width(Q) == IF Q.tok.k = "iconst" THEN NextTok([Flag(Q, s, {"bits"}) EXCEPT !.syms[s].bw = Q.tok.v])
                  ELSE prError(Q, "constant expected")
      unsigned(Q) == Complain(Q, isVarOfType(Q.syms[s].at, DT.uint), "bad bitfield")
  IN width(NextTok(unsigned([P EXCEPT !.syms[s].at.ty = AsUnsigned(@)])))
MembersEnd(P, s, chained, last) ==
  LET made(Q) == IF "defined" \in Q.syms[s].fl THEN Q ELSE defineArg(Q, s)
      linked(Q) == LET parts == Members(Q.syms, s, Q.syms[s].mem)
                   IN Emit(FoldLeft(LAMBDA R, t : emitDependentVar(R, R.syms[t].at), Q, parts), Item("s", Null, Len(parts), s))
  IN [IF chained THEN linked([made(P) EXCEPT !.syms[last].mem = s]) ELSE made(P) EXCEPT !.s = s]
OneMember(P, a, in, lastId) ==
  LET s == in.s
      chained == in.chained
      last == lastId[1]
      id == lastId[2]
      line(Q) == [Specs([Q EXCEPT !.memb = FALSE], FALSE) EXCEPT !.memb = TRUE]
      next(Q, l, n) ==
        IF Q.fatal # "" \/ Q.tok.k = "eof" THEN [fatalErr(Q, "never ends") EXCEPT !.memb = FALSE, !.s = s]
        ELSE IF Q.tok.k = "," THEN MembersFrom(Q, a, in, <<l, n>>)
        ELSE LET semi(R) == IF R.tok.k = "}" THEN MembersEnd(R, s, chained, l)
                            ELSE LET S == line(unget(R)) IN MembersFrom(S, S.at, in, <<l, n>>)
             IN semi(NextTok([Complain(Q, Q.tok.k = ";", "expected") EXCEPT !.memb = FALSE]))
      bits(Q, t, l, n) == next(IF Q.tok.k = ":" THEN BitField(Q, t) ELSE Q, l, n)
      named(Q, t) ==
        LET value(R) == Complain(R, R.syms[t].at.node # "func", "member function")
            link(R) == [IF chained THEN [R EXCEPT !.syms[last].mem = t] ELSE R EXCEPT !.syms[t].mid = id]
        IN bits(NextTok(link(defineArg(value(Q), t))), t, IF chained THEN t ELSE last, id + 1)
      got(Q) == IF Q.s = 0 THEN next(NextTok(Q), last, id) ELSE named(Q, Q.s)
  IN got(Declarator(P, "member", a, {}, s))
StructOrUnion(P, c) ==
  LET again(Q, s) == "temp" \notin Q.syms[s].fl /\ "defined" \in Q.syms[s].fl
      first(Q, s, chained) ==
        LET R == [Specs(Q, FALSE) EXCEPT !.memb = TRUE] IN MembersFrom(R, R.at, [s |-> s, chained |-> chained], <<s, 0>>)
      body(Q, s) == IF Q.tok.k # "{" THEN [unget(Q) EXCEPT !.s = s]
                    ELSE first(Complain(Q, ~again(Q, s), "redefined"), s, ~again(Q, s))
      tag(Q) == IF Q.syms[Q.tok.s].cls = c THEN [Q EXCEPT !.s = Q.tok.s] ELSE Declares(Q, Q.tok.s, c, Plain(0), 0)
      after(Q) == body(NextTok(Q), Q.s)
      tmp(Q) == Declares(Q, Q.s, c, Plain(0), 0)
      untagged(Q) == LET R == tmp(newTmpSym(Q)) IN body(Complain(R, R.tok.k = "{", "expected"), R.s)
      read(Q) == IF Q.tok.k = "id" THEN after(tag(Q)) ELSE untagged(Q)
  IN read([NextTok([P EXCEPT !.tags = TRUE]) EXCEPT !.tags = FALSE])

(* sub_6360: the constants of an enumeration.  What follows = is read into  *)
(* the leaf that has just been freed, of which the first operand is made.   *)
RECURSIVE Leftmost(_)
Leftmost(e) == IF e.kids = <<>> THEN e ELSE Leftmost(e.kids[1])
Constant(P, s, value, n) ==
  LET a == [Plain(DT.enum) EXCEPT !.next = s]
      end(Q) == [IF Q.tok.k = "}" THEN Q ELSE Skip(prError(Q, "expected")) EXCEPT !.s = s]
      next(Q, v) == IF Q.tok.k = "," THEN ConstantsFrom(NextTok(Q), s, v + 1, n + 1) ELSE end(Q)
      kept(Q, c, v) == next(Emit(defineArg(Q, c), Item("k", Null, v, c)), v)
      valued(Q, c) == kept(NextTok(Q), c, Leftmost(Q.x).v)
      numbered(Q, c) == IF Q.tok.k = "=" THEN valued(ConstantOf(Q, 4), c) ELSE kept(Q, c, value)
      declared(Q) == LET c == Q.s IN numbered(NextTok([Q EXCEPT !.syms[c].mid = n]), c)
  IN IF P.tok.k # "id" THEN end(prError(P, "expected")) ELSE declared(Declares(P, P.tok.s, "const", a, s))
Enum(P) ==
  LET body(Q) == LET R == defineArg(Q, Q.s) IN ConstantsFrom(NextTok(R), R.s, 0, 0)
      open(Q, s) == body(Declares(Q, s, "enum", Plain(0), 0))
      tag(Q, s) == IF Q.tok.k = "{" THEN open(Q, s)
                   ELSE [unget(Complain(Q, "defined" \in Q.syms[s].fl, "undefined enum")) EXCEPT !.s = s]
      tmp(Q) == open(Q, Q.s)
      read(Q) == CASE Q.tok.k = "id" -> tag(NextTok(Q), Q.tok.s) [] Q.tok.k = "{" -> tmp(newTmpSym(Q))
                   [] OTHER -> [prError(Q, "expected") EXCEPT !.s = 0]
  IN read(NextTok(P))

SpecOf(P, allowed, d) ==
  LET c == P.tok.name
      k == P.tok.k
      more(Q, e) == SpecsFrom(NextTok(Q), allowed, e)
      tagged(Q, ty) == more(sub_51cf(Q, Q.s), [d EXCEPT !.ty = ty, !.at = [@ EXCEPT !.next = Q.s]])
      typed(Q, ty) == more(Complain(Q, d.ty = 0, "inconsistent type"), [d EXCEPT !.ty = IF @ = 0 THEN ty ELSE @])
      a == P.syms[P.tok.s].at
      of(e) == more(sub_51cf(P, P.tok.s), e)
  IN IF k = "class" THEN more(ClassSaid(P, d, c, allowed), IF allowed THEN GivenClass(d, c) ELSE d)
     ELSE IF k = "type"
     THEN CASE c = "short" -> more(P, [d EXCEPT !.size = @ - 1]) [] c = "long" -> more(P, [d EXCEPT !.size = @ + 1])
            [] c = "unsigned" -> more(P, [d EXCEPT !.uns = TRUE])
            [] c \in {"struct", "union"} -> tagged(StructOrUnion(P, c), DT[c])
            [] c = "enum" -> tagged(Enum(P), DT.enum)
            [] OTHER -> typed(P, DT[c])
     ELSE IF k = "id" /\ IsTypedef(P) /\ d.ty = 0
     THEN of(IF a.node = "sym" THEN [d EXCEPT !.ty = a.ty, !.at = a]
             ELSE [d EXCEPT !.ty = DT.complex, !.at = [@ EXCEPT !.next = P.tok.s]])
     ELSE SpecsEnd(P, d)

----------------------------------------------------------------------------
(* Declarators.  The one being read is P.d: at its attribute, cur the level *)
(* of it being filled (0, or the symbol of a typedef made for the levels    *)
(* under it, sym2 the last), sym the name, ind the pointers not yet placed. *)
Cur(P) == IF P.d.cur = 0 THEN P.d.at ELSE P.syms[P.d.cur].at
SetCur(P, a) == IF P.d.cur = 0 THEN [P EXCEPT !.d.at = a] ELSE [P EXCEPT !.syms[P.d.cur].at = a]
More(P, n) == [P EXCEPT !.d.bad = @ \/ P.d.ind + n > MaxIndirection,
                        !.d.ind = IF P.d.ind + n > MaxIndirection THEN MaxIndirection ELSE P.d.ind + n]
TypedefOf(P) == [Declares(P, P.d.sym2, "typedef", P.syms[P.d.sym2].at, 0) EXCEPT !.d.sym2 = P.d.sym2]
\* What comes next is the type of a typedef, of which this level is made.
NextLevel(P) ==
  LET over(Q) == SetCur(Q, [Cur(Q) EXCEPT !.ty = DT.complex, !.ind = Q.d.ind, !.next = Q.s])
      under(Q, t) == [IF Q.d.sym2 = 0 THEN Q ELSE TypedefOf(Q) EXCEPT !.d.sym2 = t, !.d.cur = t, !.d.ind = 0]
      made(Q) == under(over(Q), Q.s)
  IN made(newTmpSym(P))
Enclosed(P, k) == IF P.tok.k = k THEN P ELSE Skip(prError(P, "expected"))

(* parseArgs: d holds the types of the arguments, and whether a type or only *)
(* a name has been met.                                                     *)
ArgsEnd(P, d, defc) ==
  LET pointer(a) == IF a.node = "expr" THEN [a EXCEPT !.node = "sym", !.ex = <<>>, !.ind = @ + 1] ELSE a
  IN [Enclosed(P, ")") EXCEPT !.defc = defc, !.at = [Plain(0) EXCEPT !.args = IF d.types = <<>> THEN <<>>
                                                     ELSE <<[k \in DOMAIN d.types |-> pointer(d.types[k])]>>]]
\* An argument that is a function is a pointer to one.
FunctionArg(P, s) ==
  LET type(Q) == [Q EXCEPT !.syms[s].at = [Plain(DT.complex) EXCEPT !.next = Q.s, !.ind = 1]]
      made(Q) == type(Declares(Q, Q.s, "typedef", Q.syms[s].at, 0))
  IN IF P.syms[s].at.node = "func" THEN made(newTmpSym(P)) ELSE P
Listed(P, s, old, d, fl, top) ==
  LET again == P.args # <<>> /\ "argdecl" \in P.syms[s].fl
      flags == fl \cup {"argdecl"} \cup (IF d.proto THEN {"arg", "typed"} ELSE {})
      list(Q) == IF again THEN prError(Q, "redeclared") ELSE Flag([Q EXCEPT !.args = Append(@, s)], s, flags)
  IN IF top /\ ~isVarOfType(P.syms[old].at, DT.void) THEN list(P) ELSE P
Arg(P, top, d) ==
  LET name == P.tok.k = "id" /\ ~IsTypedef(P)
      e == [d EXCEPT !.proto = @ \/ ~name, !.names = @ \/ (name /\ top)]
      both == e.proto /\ e.names
      f == [e EXCEPT !.names = @ /\ ~both]
      said(Q) == Complain(Complain(Q, name => top, "type required"), ~both, "mixed arguments")
      specs(Q) == LET R == Specs(Q, TRUE)
                  IN [Declarator(Complain(R, R.cls \in {"d15", "register"}, "bad class"), IF top THEN "d15" ELSE "d14", R.at,
                                 R.fl \cap {"reg"}, 0) EXCEPT !.fl = R.fl \cap {"reg"}]
      listed(Q, s) ==
        LET g == IF f.proto THEN [f EXCEPT !.types = Append(@, Q.syms[s].at)] ELSE f
            R == Declares(Q, s, "stack", IF f.proto THEN Q.syms[s].at ELSE Plain(DT.int), 0)
            first(S) == IF S.tok.k = "=" THEN Skip(prError(S, "initialiser")) ELSE S
            next(S, k) == IF k \in {"id", "class", "type"} THEN ArgOf(prError(S, "expected"), top, g)
                          ELSE IF k = "," THEN ArgOf(NextTok(S), top, g) ELSE ArgsEnd(S, g, d.defc)
            read(S) == next(first(S), S.tok.k)
        IN read(NextTok(Listed(R, R.s, s, g, Q.fl, top)))
      typed(Q) == listed(FunctionArg(Q, Q.s), Q.s)
      got(Q) == IF Q.s = 0 THEN ArgsEnd(fatalErr(Q, "no argument"), f, d.defc) ELSE typed(Q)
  IN IF P.tok.k = "..." THEN ArgsEnd(NextTok(P), [d EXCEPT !.types = Append(@, Plain(DT.vargs))], d.defc)
     ELSE got(specs(unget(said(P))))
parseArgs(P, top) ==
  ArgOf(NextTok([P EXCEPT !.defc = "d15"]), top, [types |-> <<>>, proto |-> FALSE, names |-> FALSE, defc |-> P.defc])

\* The names of the arguments are gone with a declarator that begins no body.
FunctionSuffix(P) ==
  LET a == Cur(P)
      checked(Q) == Complain(Complain([Q EXCEPT !.d.dim = FALSE], ~Q.d.dim, "array of functions"),
                             a.node = "func" => Q.d.ind > 0, "function returns function")
      level(Q) == IF Q.d.ind > 0 THEN NextLevel(Q) ELSE Q
      scoped(Q, top) == NextTok([SetCur(Q, [Cur(Q) EXCEPT !.node = "func"]) EXCEPT !.top = top, !.depth = @ + (IF top THEN 1 ELSE 2)])
      known(Q) == SetCur(Q, [Cur(Q) EXCEPT !.args = Q.at.args])
      args(Q) == IF Q.tok.k \in {"class", "type", "id"} THEN known(parseArgs(unget(Q), Q.top)) ELSE Enclosed(Q, ")")
      leave(Q, top) == IF top THEN [Q EXCEPT !.top = FALSE, !.depth = @ - 1]
                       ELSE [releaseScopeSym(Q) EXCEPT !.top = FALSE, !.depth = @ - 2]
      top == P.top /\ P.depth = 0
  IN leave(args(scoped(level(checked(P)), top)), top)
ArraySuffix(P) ==
  LET checked(Q) == Complain(Q, Cur(Q).node # "func", "function returns array")
      level(Q) == IF Q.d.uca \/ Q.d.ind > 0 THEN NextLevel([Q EXCEPT !.d.uca = FALSE]) ELSE Q
      empty(Q) == [Complain(Q, ~Q.d.dim, "dimension required") EXCEPT !.x = eZero]
      given(Q) == LET R == ConstantOf(unget(Q), 2)
                  IN [Enclosed(NextTok(R), "]") EXCEPT !.x = R.x]
      size(Q) == IF Q.tok.k = "]" THEN empty(Q) ELSE given(Q)
      sized(Q) == SetCur([Q EXCEPT !.d.uca = TRUE, !.d.dim = TRUE, !.memb = P.memb],
                         [Cur(Q) EXCEPT !.node = "expr", !.ex = IF Q.x = Null THEN <<>> ELSE <<Q.x>>])
  IN sized(size(NextTok([level(checked(P)) EXCEPT !.memb = FALSE])))
\* lent: the name had no class, and has had the declarator's for the while.
Suffix(P, cls, stars, lent) ==
  LET end(Q) == IF stars = 0 THEN Q ELSE More([Q EXCEPT !.d.dim = FALSE], stars)
  IN CASE P.fatal # "" -> P
       [] P.fatal = "" /\ P.tok.k = "(" -> SuffixesFrom(NextTok(FunctionSuffix(P)), cls, stars, lent)
       [] P.fatal = "" /\ P.tok.k = "[" -> SuffixesFrom(NextTok(ArraySuffix(P)), cls, stars, lent)
       [] OTHER -> end(IF lent THEN [unget(P) EXCEPT !.syms[P.d.sym].cls = ""] ELSE unget(P))
RECURSIVE Stars(_, _, _)
Stars(P, cls, n) ==
  LET begin(Q, lent) == SuffixesFrom([Q EXCEPT !.d.ucb = Q.d.sym = 0], cls, n, lent)
      named(Q, s) == begin(NextTok([Q EXCEPT !.d.sym = s, !.top = cls # "d14",
                                         !.syms[s].cls = IF @ = "" THEN cls ELSE @]), Q.syms[s].cls = "")
      close(Q) == begin(NextTok(Complain(Q, Q.tok.k = ")", "expected")), FALSE)
      inner(Q) == close(NextTok(parseDeclaration(Q, cls)))
      paren(Q) == IF Q.tok.k = ")" \/ StartsDecl(Q) THEN begin([unget(Q) EXCEPT !.tok.k = "("], FALSE) ELSE inner(unget(Q))
  IN CASE P.tok.k = "*" -> Stars(NextTok(P), cls, n + 1)
       [] P.tok.k = "id" -> named(P, P.tok.s)
       [] P.tok.k = "(" -> paren(NextTok(P))
       [] OTHER -> begin(P, FALSE)

(* sub_69ca: the symbol declared goes to s, 0 when there is no name.        *)
RECURSIVE Flattened(_)
Flattened(P) ==
  LET a == Cur(P)
      under == P.syms[a.next].at
      again == IF a.node # "sym" \/ a.ty # DT.complex THEN FALSE ELSE P.d.ind = 0 \/ under.node = "sym"
  IN IF again THEN Flattened(SetCur(More(P, under.ind), under)) ELSE P
Checks(P, cls, a) ==
  LET c == Cur(P)
      void == P.d.sym # 0 /\ cls \notin {"typedef", "d14", "d15"} /\ isVarOfType(c, DT.void)
      open == /\ cls # "typedef" /\ c.ind = 0 /\ (isVarOfType(a, DT.struct) \/ isVarOfType(a, DT.union))
              /\ IF a.next = 0 THEN FALSE ELSE "defined" \notin P.syms[a.next].fl
      said(Q) == LET R == sub_51cf(defineArg(TypedefOf(Q), Q.d.sym2), Q.d.sym2)
                 IN IF R.syms[R.d.sym2].at.node # "func" THEN emitVar(R, R.d.sym2) ELSE R
      typedef(Q) == IF Q.d.sym2 = 0 THEN Q ELSE said(Q)
  IN Complain(typedef(Complain(Complain(P, ~P.d.bad, "too complex"), ~void, "only functions may be void")), ~open, "undefined struct")
\* A declaration of an argument named between the parentheses.
OldArgument(P, s, fl) ==
  LET y == P.syms[s]
      double == isVarOfType(P.d.at, DT.float)
      a == IF double THEN [P.d.at EXCEPT !.ty = DT.double] ELSE P.d.at
  IN IF "typed" \in y.fl THEN prError(P, "redeclared") ELSE IF "argdecl" \notin y.fl THEN prError(P, "not an argument")
     ELSE Caution([Flag(P, s, fl \cup {"typed"}) EXCEPT !.syms[s].at = a], ~double, "coerced to double")
Declared(P, cls, fl, owner) ==
  LET s == P.d.sym
      class == IF cls = "auto" /\ P.d.at.node = "func" THEN "extern" ELSE cls
      flagged(Q) == Flag(Q, Q.s, fl)
      own(Q) == [Q EXCEPT !.syms[Q.s].at = P.d.at]
  IN CASE s = 0 -> [P EXCEPT !.s = 0]
       [] s # 0 /\ P.defc = "stack" /\ cls # "member" -> [OldArgument(P, s, fl) EXCEPT !.s = s]
       [] s # 0 /\ P.defc = "d15" ->
            own(IF P.syms[s].cls # "" /\ P.syms[s].lvl # P.depth THEN Declares(P, s, "", P.d.at, 0) ELSE [P EXCEPT !.s = s])
       [] OTHER -> flagged(Declares(P, s, class, P.d.at, owner))
sub_69ca(P, cls, a, fl, owner) ==
  LET nameless(Q) == Q.d.ucb /\ (cls \in {"cast", "d14", "d15"} \/ (cls = "member" /\ Q.tok.k = ":"))
      made(Q) == [Q EXCEPT !.d.sym = Q.s]
      name(Q) == IF nameless(Q) THEN made(newTmpSym(Q)) ELSE Complain(Q, ~Q.d.ucb, "no identifier")
      based(Q) == Flattened(More(SetCur(Q, [Cur(Q) EXCEPT !.ty = a.ty, !.next = a.next]), a.ind))
      pointers(Q) == SetCur(Q, [Cur(Q) EXCEPT !.ind = Q.d.ind])
      class(Q) == IF nameless(Q) /\ cls = "cast" THEN "typedef" ELSE cls
      finish(Q, c) == [Declared(Checks(pointers(based(name(Q))), c, a), c, fl, owner) EXCEPT !.d = P.d]
      all(Q) == finish(Q, class(Q))
      next(Q) == all(unget(NextTok(Q)))
  IN next(parseDeclaration([P EXCEPT !.d = NoDeclarator], cls))

----------------------------------------------------------------------------
Parse(P, j) ==
  CASE j.k = "token" -> yylex(P)
    [] j.k = "skip" -> skipStmt(P)
    [] j.k = "semi" -> skipToSemi(P)
    [] j.k = "expect" -> expect(P, j.t)
    [] j.k = "tree" -> Build(P, j.op, j.l, j.r)
    [] j.k = "expression" -> Operand(P, j.has, j.base)
    [] j.k = "operand" -> Expr(P)
    [] j.k = "value" -> ExprIn(P, j.mode)
    [] j.k = "constant" -> parseConstExpr(P, j.mode)
    [] j.k = "reduce" -> sub_10a8(P)
    [] j.k = "operation" -> Settle(P, j.op, EndPrec(P, j.op), j.has, j.base)
    [] j.k = "arguments" -> PassArg(P, j.formals, j.given)
    [] j.k = "specs" -> Specs(P, TRUE)
    [] j.k = "type" -> SpecOf(P, j.allowed, j.d)
    [] j.k = "members" -> OneMember(P, j.a, j.in, j.last)
    [] j.k = "constants" -> Constant(P, j.s, j.value, j.n)
    [] j.k = "declarator" -> sub_69ca(P, j.cls, j.a, j.fl, j.owner)
    [] j.k = "declaration" -> Stars(NextTok([P EXCEPT !.top = FALSE]), j.cls, 0)
    [] j.k = "suffixes" -> Suffix(P, j.cls, j.stars, j.lent)
    [] j.k = "argument" -> Arg(P, j.top, j.d)
    [] j.k = "symbol" -> Declare(P, j.s, j.cls, j.a, j.owner)
=============================================================================
