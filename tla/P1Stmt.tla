------------------------------- MODULE P1Stmt -------------------------------
(* p1's parser of statements, functions and the declarations of a file, and *)
(* the code it writes for them.                                             *)
(*                                                                          *)
(* The code is a sequence of items [k, x, n, s]: an expression ("e"), a     *)
(* label n ("l"), the entry of function s ("fn"), a variable s ("v"), a     *)
(* scope ("{", "}"), a case of a switch ("of", before its "case"), a        *)
(* structure ("s"), a constant ("k") and the parts of an initialiser.       *)
EXTENDS P1Parse

(* As in P1Parse there is one operator that recurs, given what is to be read. *)
RECURSIVE Stmt(_, _)
Get(P) == Stmt(P, [k |-> "token"])
SkipOver(P) == Stmt(P, [k |-> "skip"])
PastSemi(P) == Stmt(P, [k |-> "semi"])
Await(P, t) == Stmt(P, [k |-> "expect", t |-> t])
Form(P, op, l, r) == Stmt(P, [k |-> "tree", op |-> op, l |-> l, r |-> r])
CondExpr(P) == Stmt(P, [k |-> "operand"])
ValueIn(P, mode) == Stmt(P, [k |-> "value", mode |-> mode])
Full(P) == ValueIn(P, P.mode)
ConstantIn(P, mode) == Stmt(P, [k |-> "constant", mode |-> mode])
TypeSpecs(P) == Stmt(P, [k |-> "specs"])
DeclaratorOf(P, cls, a, fl) == Stmt(P, [k |-> "declarator", cls |-> cls, a |-> a, fl |-> fl, owner |-> 0])
parseInitializer(P, a, whole) == Stmt(P, [k |-> "initialiser", a |-> a, whole |-> whole])
DeclFrom(P, cls, a, fl) == Stmt(P, [k |-> "declarators", cls |-> cls, a |-> a, fl |-> fl])
LocalDecls(P) == Stmt(P, [k |-> "locals"])
parseStmt(P, c) == Stmt(P, [k |-> "statement", c |-> c])
StmtsFrom(P, c) == Stmt(P, [k |-> "statements", c |-> c])
ExternFrom(P, cls, a, fl, first) == Stmt(P, [k |-> "externals", cls |-> cls, a |-> a, fl |-> fl, first |-> first])
\* One declaration of the file, as mainParseLoop has them read.
External(P) == Stmt(P, [k |-> "external"])

RECURSIVE Uncast(_)
Uncast(e) == IF e.op = "cv" THEN Uncast(e.kids[1]) ELSE e
emitCast(P, e) == Emit(P, Item("e", Uncast(e), 0, 0))
Value(P) == emitCast(P, P.x)
LabelDef(P, n) == Emit(P, Item("l", Null, n, 0))
\* sub_4ce8, sub_4d15, sub_4d67: a jump, a jump under a condition, a return.
JumpTo(P, n) == Value(Form(P, "$U", newIConstLeaf(n), Null))
JumpIf(P, n, e, sense) ==
  LET test(Q, c) == Value(Form(Q, "$", c, newIConstLeaf(n)))
      not(Q) == test(Q, Q.x)
  IN IF e = Null THEN P ELSE IF sense THEN test(P, e) ELSE not(Form(P, "!", e, Null))
Return(P, e) == IF e = Null THEN P ELSE Value(Form(P, "ret", e, Null))
\* A token that is to come: given back when it is another, or not.
Wanted(P, k) == Wants(Get(P), k)
Closes(P, k) == LET Q == Get(P) IN Complain(Q, Q.tok.k = k, "expected")

----------------------------------------------------------------------------
(* Initialisers.                                                            *)
RECURSIVE Elements(_, _, _, _), MemberValues(_, _, _, _)
Piece(P, k) == Emit(P, Item(k, Null, 0, 0))
Braced(P) == LET Q == Get(P) IN IF Q.tok.k = "{" THEN [Q EXCEPT !.bad = TRUE] ELSE [unget(Q) EXCEPT !.bad = FALSE]
Unbraced(P, braced) == IF braced THEN Closes(P, "}") ELSE P
\* Items between braces: after the last one, a comma or none.
Elements(P, a, whole, n) ==
  LET after(Q) == IF Q.tok.k = "}" THEN [Q EXCEPT !.n = n + 1] ELSE Elements(unget(Q), a, whole, n + 1)
      comma(Q) == IF Q.tok.k = "," THEN after(Get(Q)) ELSE [Q EXCEPT !.n = n + 1]
      got(Q) == IF Q.n < 0 THEN [Q EXCEPT !.n = n] ELSE comma(Get(Q))
  IN got(parseInitializer(P, a, whole))
ArrayValues(P, a) ==
  LET open == isZero(a.ex[1])
      size(Q) == Q.tok.v + (IF open THEN 1 ELSE 0)
      chars(Q) == Emit([Q EXCEPT !.n = size(Q)], Item("str", Null, size(Q), 0))
      string(Q, braced) == IF braced THEN Get(chars(Q)) ELSE chars(Q)
      one == a.ind = 0 /\ a.ty = DT.complex
      list(Q) == Elements(unget(Q), IF one THEN Q.syms[a.next].at ELSE a, one, 0)
      close(Q, braced) == Piece(IF braced /\ Q.tok.k # "}" THEN [prError(Q, "expected") EXCEPT !.n = -1] ELSE Q, "..")
      body(Q, braced) ==
        IF Q.tok.k = "sconst" /\ a.ind = 0 /\ a.ty \in {DT.char, DT.uchar} THEN close(string(Q, braced), braced)
        ELSE IF ~braced THEN close([prError(Q, "expected") EXCEPT !.n = -1], FALSE) ELSE close(list(Q), TRUE)
      first(Q) == IF Q.tok.k = "{" THEN body(Get(Q), TRUE) ELSE body(Q, FALSE)
  IN first(Get(Piece(P, ":U")))
\* The members, up to the last or the end of the list.
MemberValues(P, s, t, braced) ==
  LET next == P.syms[t].mem
      more(Q) == IF Q.tok.k # "," THEN unget(Q)
                 ELSE IF ~braced THEN MemberValues(Q, s, next, braced)
                 ELSE LET R == unget(Get(Q)) IN IF R.tok.k = "}" THEN R ELSE MemberValues(R, s, next, braced)
      got(Q) == IF Q.n < 0 \/ next = s THEN Q ELSE more(Get(Q))
  IN got(parseInitializer(P, P.syms[t].at, TRUE))
StructValues(P, a, whole) ==
  LET opened == IF whole THEN Piece(Piece(P, ":U"), ":U") ELSE Piece(P, ":U")
      closed(Q) == IF whole THEN Piece(Piece(Q, ".."), "..") ELSE Piece(Q, "..")
      comma(Q) == IF Q.tok.k = "," THEN Get(Q) ELSE Q
      brace(Q) == [Complain(Q, Q.tok.k = "}", "expected") EXCEPT !.n = IF Q.tok.k = "}" THEN 1 ELSE -1]
      end(Q, braced) == IF braced THEN brace(comma(Get(Q))) ELSE [Q EXCEPT !.n = 1]
      members(Q) == end(MemberValues(Q, a.next, Q.syms[a.next].mem, Q.bad), Q.bad)
  IN closed(IF a.next = 0 THEN [opened EXCEPT !.n = -1] ELSE members(Braced(opened)))
ScalarValue(P, a) ==
  LET type == newSTypeLeaf([a EXCEPT !.node = "sym", !.ex = <<>>])
      emit(Q) == IF Q.x = Null THEN Q ELSE Emit(Q, Item("=", Q.x.kids[2], 0, 0))
      value(Q) == LET given(R) == emit(Form(R, "@", type, R.x)) IN given(ConstantIn(Q, 3))
      all(Q) == [Unbraced(value(Q), Q.bad) EXCEPT !.n = 1]
  IN all(Braced(P))
InitialiserOf(P, a, whole) ==
  CASE whole /\ a.node = "expr" /\ a.ex # <<>> -> ArrayValues(P, a)
    [] (~whole \/ a.node # "expr") /\ a.ind = 0 /\ a.ty = DT.struct -> StructValues(P, a, whole)
    [] (whole /\ a.node = "expr" /\ a.ex = <<>>) \/ a.node = "func"
         \/ ((~whole \/ a.node # "expr") /\ a.ind = 0 /\ a.ty >= DT.void /\ a.ty # DT.struct) ->
         [prError(P, "illegal initialisation") EXCEPT !.n = -1]
    [] OTHER -> ScalarValue(P, a)
\* sub_3c7e
Initialised(P, s) ==
  LET a(Q) == Q.syms[s].at
      counted(Q) == IF a(Q).node # "expr" \/ a(Q).ex = <<>> THEN Q
                    ELSE IF isZero(a(Q).ex[1]) THEN [Q EXCEPT !.syms[s].at.ex = <<newIConstLeaf(Q.n)>>] ELSE Q
      end(Q) == Piece(IF Q.n < 0 THEN PastSemi(prError(Q, "initialisation syntax")) ELSE counted(Q), "]")
  IN IF s = 0 THEN PastSemi(P)
     ELSE end(parseInitializer(Emit(P, Item("[i", Null, 0, s)), P.syms[s].at, TRUE))
\* sub_6531
AutoInitialised(P, s) ==
  LET assign(Q) == IF Q.x = Null \/ s = 0 THEN Q ELSE Value(Form(Q, "=", newIdLeaf(Q.syms, s), Q.x))
      all(Q) == Unbraced(assign(ValueIn(Q, 3)), Q.bad)
      aggregate == IF s = 0 THEN FALSE ELSE ~isLogicalType(P.syms[s].at)
  IN IF aggregate THEN PastSemi(prError(P, "auto aggregate")) ELSE all(Braced(P))

----------------------------------------------------------------------------
(* Declarations in a function (sub_5c50), and before them (sub_5c19).       *)
IsFunction(P, s) == IF s = 0 THEN FALSE ELSE "var" \in P.syms[s].fl /\ P.syms[s].at.node = "func"
StaticHere(P, s, cls) == IF s # 0 /\ P.depth > 0 /\ cls = "static" THEN Flag(P, s, {"temp"}) ELSE P
\* What follows a declarator.
Separated(P, next(_), last(_)) ==
  IF P.tok.k \in {"id", "*"} THEN next(unget(prError(P, "expected"))) ELSE IF P.tok.k = "," THEN next(P) ELSE last(P)
DeclEnd(P) == IF P.tok.k = ";" THEN P ELSE SkipOver(prError(P, "expected"))
LocalValue(P, s, cls) ==
  LET wrong == IsFunction(P, s) \/ cls \in {"stack", "extern", "typedef"}
      made == emitVar(StaticHere(defineArg(Complain(P, ~wrong, "illegal initialisation"), s), s, cls), s)
  IN Get(IF cls \in {"static", "extern"} THEN Initialised(made, s) ELSE AutoInitialised(made, s))
sub_5c50(P, cls, a, fl) ==
  LET defined(Q, s) == IF "mem" \in fl /\ ~IsFunction(Q, s) THEN defineArg(Q, s) ELSE Q
      plain(Q, s) == IF cls = "stack" THEN Q ELSE emitVar(StaticHere(defined(Q, s), s, cls), s)
      rest(Q, s) == Separated(IF Q.tok.k = "=" THEN LocalValue(Q, s, cls) ELSE plain(Q, s),
                              LAMBDA R : DeclFrom(R, cls, a, fl), DeclEnd)
      got(Q) == rest(Get(Q), Q.s)
  IN got(DeclaratorOf(P, cls, a, fl \cap {"reg"}))
LocalDecl(P) ==
  LET wrong == P.defc = "stack" /\ P.cls \notin {"stack", "register"}
      cls == IF wrong THEN "stack" ELSE P.cls
      start(Q) == IF Q.tok.k = ";" THEN Q ELSE DeclFrom(unget(Q), cls, P.at, P.fl)
  IN start(Get(Complain(P, ~wrong, "only register")))
sub_5c19(P) ==
  LET next(Q) == IF StartsDecl(Q) THEN LocalDecls(LocalDecl(TypeSpecs(unget(Q)))) ELSE [unget(Q) EXCEPT !.defc = ""]
  IN next(Get(P))

----------------------------------------------------------------------------
(* Statements.  c is where one stands: the labels continue and break go to, *)
(* 0 for none, whether in a switch, and whether a break is to be noted.     *)
Context(cont, brk, sw, noted) == [cont |-> cont, brk |-> brk, sw |-> sw, noted |-> noted]
Reached(P) == [P EXCEPT !.unreachable = FALSE]
\* "(" expression ")"
Parenthesised(P) ==
  LET close(Q) == [Wanted(Q, ")") EXCEPT !.x = Q.x] IN close(CondExpr(Wanted(P, "(")))
Labelled(P) == LabelDef(newTmpLabel(P), P.lab + 1)
StatementsTo(P, c) ==
  IF P.tok.k = "}" \/ P.fatal # "" THEN P ELSE StmtsFrom(Get(parseStmt(unget(P), c)), c)
Compound(P, c) ==
  LET scoped(Q) == Get(LocalDecls([enterScope(unget(Q)) EXCEPT !.defc = "auto"]))
      first(Q) == IF StartsDecl(Q) THEN exitScope(StmtsFrom(scoped(Q), c)) ELSE StmtsFrom(Q, c)
  IN first(Get(P))
While(P, c) ==
  LET cont == P.lab + 1
      loop == P.lab + 2
      begin(Q) == LabelDef(JumpTo([Q EXCEPT !.lab = @ + 2], cont), loop)
      end(Q, e, brk) == Reached(LabelDef(JumpIf(LabelDef(Q, cont), loop, e, TRUE), brk))
      body(Q, e) == end(parseStmt(newTmpLabel(Q), Context(cont, Q.lab + 1, c.sw, FALSE)), e, Q.lab + 1)
      cond(Q) == body(Q, Q.x)
      paren(Q) == cond([Wanted(Q, ")") EXCEPT !.x = Q.x])
  IN paren(CondExpr(begin(Wanted(P, "("))))
Do(P, c) ==
  LET cont == P.lab + 1
      brk == P.lab + 2
      loop == P.lab + 3
      begin == LabelDef([P EXCEPT !.lab = @ + 3], loop)
      end(Q) == Closes(Reached(LabelDef(JumpIf(Q, loop, Q.x, TRUE), brk)), ";")
      paren(Q) == end([Await(Q, ")") EXCEPT !.x = Q.x])
      cond(Q) == IF Q.tok.k \in {"while", "for"} THEN paren(CondExpr(Wanted(Q, "(")))
                 ELSE IF Q.tok.k # "(" THEN SkipOver(Q) ELSE paren(CondExpr(Q))
      keyword(Q) == cond(Complain(Q, Q.tok.k = "while", "expected"))
  IN keyword(Get(LabelDef(parseStmt(begin, Context(cont, brk, c.sw, FALSE)), cont)))
IfStmt(P, c) ==
  LET then(Q, no) == parseStmt(JumpIf(Q, no, Q.x, FALSE), c)
      else(Q, no) ==
        LET yes == Q.lab + 1
            end(R) == LabelDef([R EXCEPT !.unreachable = @ /\ Q.unreachable], yes)
        IN end(parseStmt(LabelDef(JumpTo(newTmpLabel(Reached(Q)), yes), no), c))
      rest(Q, no) == IF Q.tok.k = "else" THEN else(Q, no) ELSE LabelDef(Reached(unget(Q)), no)
      all(Q, no) == rest(Get(then(newTmpLabel(Q), no)), no)
      cond(Q) == all(Q, Q.lab + 1)
  IN cond(Parenthesised(P))
Switch(P, c) ==
  LET typed(Q) == Complain(Q, isVarOfType(Q.x.at, DT.enum) \/ (isIntType(Q.x.at) /\ Q.x.at.ty < DT.long), "switch type")
      given(Q) == IF Q.x = Null THEN Q ELSE typed(Q)
      cases(Q) == FoldLeft(LAMBDA R, o : Emit(R, Item("of", o.x, o.n, 0)), Q, Q.sw.cases)
      end(Q, out, test) ==
        LET def == IF Q.sw.def = 0 THEN out ELSE Q.sw.def
            broken == Q.sw.def = 0 \/ Q.brk
            table == Emit(cases(LabelDef(JumpTo(Q, out), test)), Item("case", Q.sw.x, def, 0))
        IN [LabelDef(table, out) EXCEPT !.unreachable = ~broken, !.sw = P.sw, !.brk = P.brk]
      body(Q, out) ==
        end(parseStmt([JumpTo([Q EXCEPT !.lab = @ + 2], out + 1) EXCEPT !.unreachable = TRUE, !.brk = FALSE,
                         !.sw = [NoSwitch EXCEPT !.x = Q.x]], Context(c.cont, out, TRUE, TRUE)), out, out + 1)
      close(Q) == LET R == [Wanted(Q, ")") EXCEPT !.x = Q.x] IN body(R, R.lab + 1)
  IN close(given(Full(Wanted(P, "("))))
For(P, c) ==
  LET first(Q) == IF Q.tok.k = ";" THEN Q ELSE Await(Value(Full(unget(Q))), ";")
      second(Q) == IF Q.tok.k = ";" THEN [Q EXCEPT !.x = Null, !.bad = FALSE]
                   ELSE LET R == CondExpr(unget(Q)) IN [Await(R, ";") EXCEPT !.x = R.x, !.bad = TRUE]
      third(Q) == IF Q.tok.k = ")" THEN [Q EXCEPT !.x = Null]
                  ELSE LET R == Full(unget(Q)) IN [Wanted(R, ")") EXCEPT !.x = R.x]
      begin(Q, cond) == LabelDef(IF cond = Null THEN [Q EXCEPT !.lab = @ + 3]
                                 ELSE JumpTo([Q EXCEPT !.lab = @ + 4], Q.lab + 4), Q.lab + 1)
      step(Q, s) == IF s = Null THEN Q ELSE emitCast(Q, s)
      again(Q, cond, l) == IF cond = Null THEN JumpTo(Q, l + 1) ELSE JumpIf(LabelDef(Q, l + 4), l + 1, cond, TRUE)
      end(Q, cond, s, l) ==
        [LabelDef(again(step(LabelDef(Q, l + 3), s), cond, l), l + 2) EXCEPT !.unreachable = ~Q.brk, !.brk = P.brk]
      body(Q, cond, s, has) ==
        end(parseStmt([begin(Q, cond) EXCEPT !.brk = has], Context(Q.lab + 3, Q.lab + 2, c.sw, TRUE)), cond, s, Q.lab)
      steps(Q, cond, has) == LET R == third(Q) IN body(R, cond, R.x, has)
      conds(Q) == LET R == second(Q) IN steps(Get(R), R.x, R.bad)
  IN conds(Get(first(Get(Closes(P, "(")))))
JumpStmt(P, label) ==
  Closes(IF label = 0 THEN prError(P, "inappropriate") ELSE [JumpTo(P, label) EXCEPT !.unreachable = TRUE], ";")
DefaultStmt(P, c) ==
  LET label(Q) == CASE ~c.sw -> prError(Q, "not in switch") [] c.sw /\ Q.sw.def # 0 -> prError(Q, "redefined")
                    [] OTHER -> [Labelled(Q) EXCEPT !.sw.def = Q.lab + 1]
  IN parseStmt(Reached(label(Closes(P, ":"))), c)
MaxCases == 255
Case(P, c) ==
  LET kept(Q, e) == [Q EXCEPT !.sw.cases = Append(@, [x |-> e, n |-> Q.lab])]
      given(Q, e) == LET R == Form(Q, "@", newSTypeLeaf(Q.sw.x.at), e) IN kept(R, R.x.kids[2])
      listed(Q, e) == IF ~c.sw THEN prError(Q, "not in switch")
                      ELSE IF Len(Q.sw.cases) = MaxCases THEN fatalErr(Q, "too many cases")
                      ELSE IF e = Null \/ Q.sw.x = Null THEN kept(Q, Null) ELSE given(Q, e)
      value(Q) == Reached(listed(Labelled(Wanted(Q, ":")), Q.x))
  IN parseStmt(value(ConstantIn(P, 1)), c)
\* The token given back for a missing ; is the first of the expression.
ReturnStmt(P) ==
  LET leave(Q) == [JumpTo(Q, Q.ret) EXCEPT !.unreachable = TRUE]
      end(Q, first) == leave(IF Q.tok.k = ";" THEN Q ELSE [prError(Q, "expected") EXCEPT !.un = <<first>>])
      value(Q) == LET R == Full(unget(Q)) IN end(Get(Return(R, R.x)), Q.tok)
      read(Q) == IF Q.tok.k = ";" THEN leave(Caution(Q, Q.void, "returns no value")) ELSE value(Q)
  IN read(Get(P))
\* sub_4ca4
GotoLabel(P, s) ==
  IF P.syms[s].cls = "label" THEN [P EXCEPT !.s = s]
  ELSE IF P.syms[s].cls # "" THEN [prError(P, "not a label") EXCEPT !.s = 0]
  ELSE [Declare(P, s, "label", Plain(0), 0) EXCEPT !.syms[s].lvl = 1]
GotoStmt(P) ==
  LET jump(Q) == IF Q.s = 0 THEN Q ELSE sub_51cf(JumpTo(Q, Q.syms[Q.s].at.next), Q.s)
      to(Q) == IF Q.tok.k = "id" THEN Closes([jump(GotoLabel(Q, Q.tok.s)) EXCEPT !.unreachable = TRUE], ";") ELSE prError(Q, "expected")
  IN to(Get(P))
LabelStmt(P, s, c) ==
  LET def(Q) == IF Q.s = 0 THEN Q ELSE Flag(LabelDef(Q, Q.syms[Q.s].at.next), Q.s, {"defined"})
  IN parseStmt(Reached(def(GotoLabel(Get(P), s))), c)
AsmStmt(P) ==
  LET string(Q) == IF Q.tok.k = "sconst" THEN Q ELSE unget(prError(Q, "expected"))
  IN Await(Wanted(string(Get(Wanted(P, "("))), ")"), ";")
Warned(P) ==
  LET label == P.tok.k \in {"case", "default"} \/ (P.tok.k = "id" /\ Peek(P, ":"))
  IN IF ~P.unreachable \/ P.tok.k \in {";", "{"} THEN P ELSE Reached(Caution(P, label, "unreachable"))
\* asm is followed by what while is.
StmtOf(P, c) ==
  CASE P.tok.k = ";" -> P
    [] P.tok.k = "{" -> Compound(P, c)
    [] P.tok.k = "asm" -> While(AsmStmt(P), c)
    [] P.tok.k = "while" -> While(P, c)
    [] P.tok.k = "do" -> Do(P, c)
    [] P.tok.k = "for" -> For(P, c)
    [] P.tok.k = "if" -> IfStmt(P, c)
    [] P.tok.k = "switch" -> Switch(P, c)
    [] P.tok.k = "case" -> Case(P, c)
    [] P.tok.k = "default" -> DefaultStmt(P, c)
    [] P.tok.k = "break" -> JumpStmt([P EXCEPT !.brk = @ \/ c.noted], c.brk)
    [] P.tok.k = "continue" -> JumpStmt(P, c.cont)
    [] P.tok.k = "return" -> ReturnStmt(P)
    [] P.tok.k = "goto" -> GotoStmt(P)
    [] P.tok.k = "else" -> prError(P, "inappropriate else")
    [] P.tok.k = "id" /\ Peek(P, ":") -> LabelStmt(P, P.tok.s, c)
    [] OTHER -> Await(Value(Full(unget(P))), ";")
StatementOf(P, c) == LET Q == Get(P) IN StmtOf(Warned(Q), c)

----------------------------------------------------------------------------
(* Functions and the declarations of a file.                                *)
\* defineFuncSig: the arguments of a definition against those known of it.
Formal(P, s) ==
  LET a == P.syms[s].at
      pointer == IF a.node = "expr" THEN [a EXCEPT !.node = "sym", !.ex = <<>>, !.ind = @ + 1] ELSE a
      known == IF P.syms[P.fn].at.args # <<>> THEN {"arg"} ELSE {}
  IN emitVar(defineArg([P EXCEPT !.syms[s].at = pointer, !.syms[s].fl = (@ \ {"argdecl", "typed"}) \cup known], s), s)
defineFuncSig(P) ==
  LET known == P.syms[P.fn].at.args
      made == FoldLeft(Formal, P, P.args)
      types == [k \in DOMAIN P.args |-> made.syms[P.args[k]].at]
      open == Len(known[1]) > 0 /\ Last(known[1]).ty = DT.vargs
      n == Len(known[1]) - (IF open THEN 1 ELSE 0)
      agree == /\ IF open THEN Len(types) >= n ELSE Len(types) = n
               /\ \A k \in 1 .. n : haveSameDataType(made.syms, known[1][k], types[k])
      none == Len(known[1]) = 1 /\ isVarOfType(known[1][1], DT.void) /\ P.args = <<>>
  IN IF known = <<>> THEN made ELSE Complain(made, none \/ agree, "conflicts with prototype")
parseFunction(P) ==
  LET opened == [enterScope(P) EXCEPT !.defc = "stack"]
      brace(Q) == IF Q.tok.k = "{" THEN Q ELSE SkipOver(prError(Q, "expected"))
      entry(Q) == LocalDecls([Reached(Emit(Q, Item("fn", Null, 0, Q.fn))) EXCEPT !.defc = "auto"])
      body(Q) == StmtsFrom(Get([newTmpLabel(Q) EXCEPT !.ret = Q.lab + 1]), Context(0, 0, FALSE, FALSE))
      end(Q) == exitScope(LabelDef(Caution(Q, Q.unreachable \/ Q.void, "implicit return"), Q.ret))
  IN end(body(entry(brace(Get(defineFuncSig(LocalDecls(opened)))))))
\* sub_3adf
RECURSIVE PastStmt(_)
PastStmt(P) == IF P.tok.k \in {"eof", ";", "}"} THEN P ELSE PastStmt(Get(P))
Begins(P, cls, first) == first /\ P.tok.k \notin {",", ";"} /\ cls # "typedef"
FunctionBody(P, s) ==
  LET a == P.syms[s].at
      void == a.ind = 0 /\ a.ty \in {DT.void, DT.int}
  IN parseFunction([emitVar(defineArg(unget(P), s), s) EXCEPT !.void = void, !.fn = s])
FunctionDecl(P, s) ==
  LET typed == P.args # <<>> => "typed" \in P.syms[P.args[1]].fl
      out(Q) == [Q EXCEPT !.depth = @ - 1]
  IN emitVar(out(releaseScopeSym([Complain(P, typed, "function body expected") EXCEPT !.depth = @ + 1])), s)
ExternOf(P, cls, a, fl, first) ==
  LET value(Q, s) == Get(Initialised(emitVar(defineArg(Complain(Q, cls # "typedef", "illegal initialisation"), s), s), s))
      plain(Q, s) == IF s = 0 THEN Q
                     ELSE IF "mem" \in fl \/ Q.syms[s].cls # "extern" THEN emitVar(defineArg(Q, s), s)
                     ELSE emitDependentVar(Q, Q.syms[s].at)
      last(Q) == IF Q.tok.k = ";" THEN Q ELSE PastStmt(prError(Q, "expected"))
      rest(Q) == Separated(Q, LAMBDA R : ExternFrom(R, cls, a, fl, FALSE), last)
      read(Q, s) == CASE IsFunction(Q, s) /\ Begins(Q, cls, first) -> FunctionBody(Q, s)
                      [] IsFunction(Q, s) /\ ~Begins(Q, cls, first) -> rest(FunctionDecl(Q, s))
                      [] ~IsFunction(Q, s) /\ Q.tok.k = "=" -> rest(value(Q, s))
                      [] OTHER -> rest(plain(Q, s))
      got(Q) == read(Get(Q), Q.s)
  IN got(DeclaratorOf([P EXCEPT !.args = <<>>], cls, a, fl \cap {"reg"}))
sub_3adf(P) ==
  LET start(Q, cls, a, fl) == IF Q.tok.k = ";" THEN Q ELSE ExternFrom(unget(Q), cls, a, fl, TRUE)
      specs(Q) == start(Get(Q), Q.cls, Q.at, Q.fl)
  IN specs(TypeSpecs(P))
Stmt(P, j) ==
  CASE j.k = "initialiser" -> InitialiserOf(P, j.a, j.whole)
    [] j.k = "declarators" -> sub_5c50(P, j.cls, j.a, j.fl)
    [] j.k = "locals" -> sub_5c19(P)
    [] j.k = "statement" -> StatementOf(P, j.c)
    [] j.k = "statements" -> StatementsTo(P, j.c)
    [] j.k = "externals" -> ExternOf(P, j.cls, j.a, j.fl, j.first)
    [] j.k = "external" -> sub_3adf(P)
    [] OTHER -> Parse(P, j)
=============================================================================
