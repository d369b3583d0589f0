------------------------------- MODULE P1Book -------------------------------
(* Programs of C as trees, how they are written and what they mean, said as *)
(* the book on the language says it (unsigned is preserved, as was usual).   *)
(* Nothing here is a translation of p1: it is what p1 is compared with.      *)
(*                                                                          *)
(* A type is a sequence of [c, n, as], the outermost constructor first:     *)
(* "*", "[]" of n, "()" with <<the types of the arguments>> or <<>>, and a  *)
(* base type last; a "struct" has the types of its members in as.           *)
(*                                                                          *)
(* A program is [consts, members, decls, formals, proto, ret, locals, body]: *)
(* the constants of an enumeration and the members of a structure s, when   *)
(* there are any, declarations [name, t, w, cls, init], and the function f   *)
(* with its formals, as a prototype or not, and the types of its locals.     *)
EXTENDS CppScan

KCon(c) == [c |-> c, n |-> 0, as |-> <<>>]
KType(c) == <<KCon(c)>>
KPointer(t) == <<KCon("*")>> \o t
KArray(n, t) == <<[KCon("[]") EXCEPT !.n = n]>> \o t
KFunction(as, t) == <<[KCon("()") EXCEPT !.as = as]>> \o t
KStruct(as) == <<[KCon("struct") EXCEPT !.as = as]>>
KMember == <<"x", "y", "z">>
KUnsigned == {"uchar", "uint", "ulong", "uconst"}
KWide == [char |-> 4, uchar |-> 4, int |-> 6, uint |-> 6, enum |-> 6, bool |-> 6, long |-> 9, ulong |-> 9,
          const |-> 14, uconst |-> 14, ptr |-> 14]
KBytes == [char |-> 1, uchar |-> 1, int |-> 2, uint |-> 2, enum |-> 2, bool |-> 2, long |-> 4, ulong |-> 4,
           const |-> 2, uconst |-> 2]
KIs(t, c) == t[1].c = c
KWhole(t) == t[1].c \in DOMAIN KBytes
KScalar(t) == KWhole(t) \/ KIs(t, "*")
RECURSIVE KSize(_)
KSize(t) == CASE KIs(t, "*") -> 2 [] KIs(t, "[]") -> t[1].n * KSize(Tail(t))
              [] KIs(t, "struct") -> FoldLeft(LAMBDA n, m : n + KSize(m), 0, t[1].as)
              [] KWhole(t) -> KBytes[t[1].c] [] OTHER -> 0
KOffset(t, m) == KSize(KStruct(SubSeq(t[1].as, 1, m - 1)))
\* The scalars the part of an object at a is made of: <<where, the type>>;
\* of an array or a structure from the part n on.
RECURSIVE KScalars(_, _, _)
KScalars(t, a, n) ==
  LET size == IF KIs(t, "[]") THEN t[1].n ELSE Len(t[1].as)
      part == IF KIs(t, "[]") THEN Tail(t) ELSE t[1].as[n]
      off == IF KIs(t, "[]") THEN (n - 1) * KSize(part) ELSE KOffset(t, n)
  IN IF KScalar(t) THEN <<<<a, t>>>>
     ELSE IF t[1].c \notin {"[]", "struct"} \/ n > size THEN <<>> ELSE KScalars(part, a + off, 1) \o KScalars(t, a, n + 1)
KSlots(t) == KScalars(t, 0, 1)
KFit(t, v) ==
  LET c == IF KIs(t, "*") THEN "ptr" ELSE t[1].c
      m == 2 ^ KWide[c]
  IN IF c \in KUnsigned \/ v % m < m \div 2 THEN v % m ELSE (v % m) - m

----------------------------------------------------------------------------
(* Operators on values of one type.  Undefined is a value of its own.       *)
KUndefined == [is |-> FALSE, v |-> 0]
KSome(v) == [is |-> TRUE, v |-> v]
KTrue(b) == KSome(IF b THEN 1 ELSE 0)
KQuot(a, b) == LET q == (IF a < 0 THEN -a ELSE a) \div (IF b < 0 THEN -b ELSE b) IN IF (a < 0) = (b < 0) THEN q ELSE -q
\* Bit by bit: which(i, j) of the bits of a and b, which are of w bits.
RECURSIVE KBits(_, _, _, _)
KBits(w, a, b, which) ==
  IF w = 0 THEN 0
  ELSE (IF <<a % 2, b % 2>> \in which THEN 1 ELSE 0) + 2 * KBits(w - 1, a \div 2, b \div 2, which)
KBitwise(o) == CASE o = "&" -> {<<1, 1>>} [] o = "|" -> {<<1, 1>>, <<1, 0>>, <<0, 1>>} [] OTHER -> {<<1, 0>>, <<0, 1>>}
KCompares == {"<", ">", "<=", ">=", "==", "!="}
KDoes(o, t, a, b) ==
  CASE o = "+" -> KSome(a + b) [] o = "-" -> KSome(a - b) [] o = "*" -> KSome(a * b)
    [] o \in {"/", "%"} /\ b = 0 -> KUndefined
    [] o = "/" /\ b # 0 -> KSome(KQuot(a, b)) [] o = "%" /\ b # 0 -> KSome(a - b * KQuot(a, b))
    [] o \in {"<<", ">>"} /\ b \notin 0 .. KWide[t[1].c] - 1 -> KUndefined
    [] o = "<<" /\ b \in 0 .. KWide[t[1].c] - 1 -> KSome(a * 2 ^ b)
    [] o = ">>" /\ b \in 0 .. KWide[t[1].c] - 1 -> KSome(a \div 2 ^ b)
    [] o \in {"&", "|", "^"} -> KSome(KBits(12, a, b, KBitwise(o)))
    [] o = "<" -> KTrue(a < b) [] o = ">" -> KTrue(a > b) [] o = "<=" -> KTrue(a <= b) [] o = ">=" -> KTrue(a >= b)
    [] o = "==" -> KTrue(a = b) [] OTHER -> KTrue(a # b)

----------------------------------------------------------------------------
(* Trees [k, o, n, s, t, kids] of expressions and statements.               *)
KNode(k, o, kids) == [k |-> k, o |-> o, n |-> 0, s |-> "", t |-> KType("int"), kids |-> kids]
KNum(n) == [KNode("num", "", <<>>) EXCEPT !.n = n]
KConst(s, n) == [KNode("const", "", <<>>) EXCEPT !.s = s, !.n = n]
KVar(s) == [KNode("var", "", <<>>) EXCEPT !.s = s]
KBin(o, a, b) == KNode("bin", o, <<a, b>>)
KUn(o, a) == KNode("un", o, <<a>>)
KSet(o, a, b) == KNode("set", o, <<a, b>>)
KCall(s, as) == KNode("call", "", <<KVar(s)>> \o as)
KCast(t, a) == [KNode("cast", "", <<a>>) EXCEPT !.t = t]
KDot(a, m) == [KNode("dot", "", <<a>>) EXCEPT !.n = m]
KExpr(a) == KNode("expr", "", <<a>>)
KBlock(ss) == KNode("block", "", ss)
KJump(k, s) == [KNode(k, "", <<>>) EXCEPT !.s = s]
KLabel(s, a) == [KNode("label", "", <<a>>) EXCEPT !.s = s]
KCase(n, a) == [KNode("case", "", <<a>>) EXCEPT !.n = n]
\* The local variable n of a program.
KLocal(n, name, t) == [KNode("local", "", <<>>) EXCEPT !.s = name, !.t = t, !.n = n]
KBraces(es) == KNode("braces", "", es)

\* How tightly an expression binds, and its operands have to.
KLevels == << {","}, {"set"}, {"cond"}, {"||"}, {"&&"}, {"|"}, {"^"}, {"&"}, {"==", "!="}, {"<", ">", "<=", ">="},
              {"<<", ">>"}, {"+", "-"}, {"*", "/", "%"}, {"un", "cast", "size", "pre"}, {"call", "at", "dot", "arrow", "post"} >>
KLevel(e) ==
  LET name == IF e.k = "bin" THEN e.o ELSE e.k
      in == {n \in DOMAIN KLevels : name \in KLevels[n]}
  IN IF in = {} THEN 16 ELSE CHOOSE n \in in : TRUE
KWord(s) == Token("id", s, 0)
KBetween(a, ts, b) == <<Op(a)>> \o ts \o <<Op(b)>>
KBase(t) ==
  CASE t.c = "uchar" -> <<KWord("unsigned"), KWord("char")>> [] t.c = "uint" -> <<KWord("unsigned"), KWord("int")>>
    [] t.c = "ulong" -> <<KWord("unsigned"), KWord("long")>> [] t.c = "struct" -> <<KWord("struct"), KWord("s")>>
    [] t.c = "..." -> <<Op("...")>>
    [] OTHER -> <<KWord(t.c)>>
\* A declarator, from the name outwards.
RECURSIVE KDeclare(_, _, _)
KDeclare(in, t, starred) ==
  LET held == IF starred THEN KBetween("(", in, ")") ELSE in
      dim == IF t[1].n = 0 THEN <<>> ELSE <<Token("num", "", t[1].n)>>
      comma(k) == IF k = 1 THEN <<>> ELSE <<Op(",")>>
      args == IF t[1].as = <<>> THEN <<>>
              ELSE FlattenSeq([k \in DOMAIN t[1].as[1] |-> comma(k) \o KDeclare(<<>>, t[1].as[1][k], FALSE)])
  IN CASE t[1].c = "*" -> KDeclare(<<Op("*")>> \o in, Tail(t), TRUE)
       [] t[1].c = "[]" -> KDeclare(held \o KBetween("[", dim, "]"), Tail(t), FALSE)
       [] t[1].c = "()" -> KDeclare(held \o KBetween("(", args, ")"), Tail(t), FALSE)
       [] OTHER -> KBase(t[1]) \o in
RECURSIVE KText(_, _)
KListed(es) == FlattenSeq([k \in DOMAIN es |-> (IF k = 1 THEN <<>> ELSE <<Op(",")>>) \o KText(es[k], 2)])
KText(e, least) ==
  LET l == KLevel(e)
      a(n) == KText(e.kids[1], n)
      b(n) == KText(e.kids[2], n)
      text == CASE e.k = "num" -> <<Token("num", "", e.n)>> [] e.k \in {"var", "const"} -> <<KWord(e.s)>>
                [] e.k = "bin" -> a(l) \o <<Op(e.o)>> \o b(l + 1)
                [] e.k \in {"un", "pre"} -> <<Op(e.o)>> \o a(l)
                [] e.k = "post" -> a(l) \o <<Op(e.o)>>
                [] e.k = "set" -> a(l + 1) \o (IF e.o = "" THEN <<>> ELSE <<Op(e.o)>>) \o <<Op("=")>> \o b(l)
                [] e.k = "cond" -> a(l + 1) \o KBetween("?", b(l), ":") \o KText(e.kids[3], l)
                [] e.k = "call" -> a(l) \o KBetween("(", KListed(Tail(e.kids)), ")")
                [] e.k = "at" -> a(l) \o KBetween("[", b(1), "]")
                [] e.k = "dot" -> a(l) \o <<Op("."), KWord(KMember[e.n])>>
                [] e.k = "arrow" -> a(l) \o <<Op("->"), KWord(KMember[e.n])>>
                [] e.k = "cast" -> KBetween("(", KDeclare(<<>>, e.t, FALSE), ")") \o a(l)
                [] e.k = "braces" -> KBetween("{", KListed(e.kids), "}")
                [] e.k = "size" /\ e.kids = <<>> -> <<KWord("sizeof")>> \o KBetween("(", KDeclare(<<>>, e.t, FALSE), ")")
                [] OTHER -> <<KWord("sizeof")>> \o a(l)
  IN IF l < least THEN KBetween("(", text, ")") ELSE text
KParen(e) == KBetween("(", KText(e, 1), ")")
KDecl(d) == (IF d.cls = "" THEN <<>> ELSE <<KWord(d.cls)>>) \o KDeclare(<<KWord(d.name)>>, d.w, FALSE)
            \o (IF d.init = <<>> THEN <<>> ELSE <<Op("=")>> \o KText(d.init[1], 2))
\* t is the type, w how it is written: it may end with the name of another.
KDeclares(name, t, cls, init) == [name |-> name, t |-> t, w |-> t, cls |-> cls, init |-> init]
Semi == <<Op(";")>>
RECURSIVE KStmt(_)
KStmt(s) ==
  LET last == KStmt(s.kids[Len(s.kids)])
      part(k) == IF s.kids[k] = KNode("none", "", <<>>) THEN <<>> ELSE KText(s.kids[k], 1)
      then == IF Len(s.kids) = 3 /\ s.kids[2].k = "if" THEN KBetween("{", KStmt(s.kids[2]), "}") ELSE KStmt(s.kids[2])
  IN CASE s.k = "expr" -> KText(s.kids[1], 1) \o Semi
       [] s.k = "block" -> KBetween("{", FlattenSeq([k \in DOMAIN s.kids |-> KStmt(s.kids[k])]), "}")
       [] s.k = "local" -> KDecl(KDeclares(s.s, s.t, s.o, s.kids)) \o Semi
       [] s.k \in {"while", "switch"} -> <<KWord(s.k)>> \o KParen(s.kids[1]) \o last
       [] s.k = "if" -> <<KWord("if")>> \o KParen(s.kids[1]) \o then
                          \o (IF Len(s.kids) = 3 THEN <<KWord("else")>> \o last ELSE <<>>)
       [] s.k = "do" -> <<KWord("do")>> \o last \o <<KWord("while")>> \o KParen(s.kids[1]) \o Semi
       [] s.k = "for" -> <<KWord("for")>> \o KBetween("(", part(1) \o Semi \o part(2) \o Semi \o part(3), ")") \o last
       [] s.k = "case" -> <<KWord("case"), Token("num", "", s.n), Op(":")>> \o last
       [] s.k = "default" -> <<KWord("default"), Op(":")>> \o last
       [] s.k = "label" -> <<KWord(s.s), Op(":")>> \o last
       [] s.k = "return" -> <<KWord("return")>> \o part(1) \o Semi
       [] s.k = "goto" -> <<KWord("goto"), KWord(s.s)>> \o Semi
       [] s.k = "empty" -> Semi
       [] OTHER -> <<KWord(s.k)>> \o Semi
KMembers(t) == FlattenSeq([m \in DOMAIN t[1].as |-> KDeclare(<<KWord(KMember[m])>>, t[1].as[m], FALSE) \o Semi])
KProgram(g) ==
  LET named(d) == <<KWord(d.name)>>
      comma(k) == IF k = 1 THEN <<>> ELSE <<Op(",")>>
      list(of(_)) == FlattenSeq([k \in DOMAIN g.formals |-> comma(k) \o of(g.formals[k])])
      heads == IF g.proto THEN <<list(KDecl), <<>>>>
               ELSE <<list(named), FlattenSeq([k \in DOMAIN g.formals |-> KDecl(g.formals[k]) \o Semi])>>
      tagged == IF g.members = <<>> THEN <<>>
                ELSE <<KWord("struct"), KWord("s")>> \o KBetween("{", KMembers(KStruct(g.members)), "}") \o Semi
      constant(k) == LET c == g.consts[k] IN comma(k) \o <<KWord(c.s)>> \o (IF c.said THEN <<Op("="), Token("num", "", c.n)>> ELSE <<>>)
      listed == IF g.consts = <<>> THEN <<>>
                ELSE <<KWord("enum")>> \o KBetween("{", FlattenSeq([k \in DOMAIN g.consts |-> constant(k)]), "}") \o Semi
  IN tagged \o listed \o FlattenSeq([k \in DOMAIN g.decls |-> KDecl(g.decls[k]) \o Semi])
       \o KDeclare(<<KWord("f"), Op("(")>> \o heads[1] \o <<Op(")")>>, g.ret, FALSE) \o heads[2] \o KStmt(g.body)

----------------------------------------------------------------------------
(* What is said of an expression in the scope env: its type, whether it is  *)
(* an object, and whether it is fine (0), doubtful (1) or wrong (2).        *)
KJudged(t, lv, v) == [t |-> t, lv |-> lv, v |-> v]
KWorst(a, b) == IF a > b THEN a ELSE b
KWrongUnless(b) == IF b THEN 0 ELSE 2
KOddUnless(b) == IF b THEN 0 ELSE 1
KInt == KType("int")
KPromoted(t) == IF t[1].c \in {"char", "enum", "bool"} THEN KInt ELSE IF KIs(t, "uchar") THEN KType("uint") ELSE t
KUsual(s, t) ==
  LET long == {s[1].c, t[1].c} \cap {"long", "ulong"} # {}
      unsigned == {s[1].c, t[1].c} \cap KUnsigned # {}
  IN KType(IF long THEN (IF unsigned THEN "ulong" ELSE "long") ELSE IF unsigned THEN "uint" ELSE "int")
KDecay(t) == IF KIs(t, "[]") THEN KPointer(Tail(t)) ELSE IF KIs(t, "()") THEN KPointer(t) ELSE t
KZero(e) == e.k = "num" /\ e.n = 0
KVoidPointer(t) == KIs(t, "*") /\ KIs(Tail(t), "void")
\* e, of type s, given to an object of type t.
KGiven(t, s, e) ==
  CASE KWhole(t) /\ KWhole(s) -> 0
    [] KIs(t, "*") /\ KWhole(s) -> KOddUnless(KZero(e))
    [] KWhole(t) /\ KIs(s, "*") -> 1
    [] KIs(t, "*") /\ KIs(s, "*") -> KOddUnless(s = t \/ KVoidPointer(s) \/ KVoidPointer(t))
    [] OTHER -> KWrongUnless(s = t)
KBinary(o, a, b, s, t) ==
  LET whole == KWhole(s) /\ KWhole(t)
      pointers == KIs(s, "*") /\ KIs(t, "*")
      known == o \in {"==", "!="}
      alike == s = t \/ (known /\ (KVoidPointer(s) \/ KVoidPointer(t)))
      zero == known /\ ((KIs(s, "*") /\ KZero(b)) \/ (KIs(t, "*") /\ KZero(a)))
  IN CASE o = "," -> KJudged(t, FALSE, 0)
       [] o \in {"&&", "||"} -> KJudged(KInt, FALSE, KWrongUnless(KScalar(s) /\ KScalar(t)))
       [] o \in KCompares -> KJudged(KInt, FALSE, IF whole \/ zero THEN 0 ELSE IF KScalar(s) /\ KScalar(t) THEN KOddUnless(pointers /\ alike) ELSE 2)
       [] o \in {"+", "-"} /\ KIs(s, "*") /\ KWhole(t) -> KJudged(s, FALSE, 0)
       [] o = "+" /\ KWhole(s) /\ KIs(t, "*") -> KJudged(t, FALSE, 0)
       [] o = "-" /\ pointers -> KJudged(KInt, FALSE, KOddUnless(s = t))
       [] whole -> KJudged(KUsual(s, t), FALSE, 0)
       [] OTHER -> KJudged(KInt, FALSE, 2)
KPassed(as, ss, es) ==
  LET more == as # <<>> /\ as[Len(as)] = KType("...")
      known == IF more THEN Len(as) - 1 ELSE Len(as)
      void == as = <<KType("void")>>
      given == FoldLeft(LAMBDA v, k : IF k > known THEN v ELSE KWorst(v, KGiven(as[k], ss[k], es[k])), 0, [k \in DOMAIN ss |-> k])
  IN IF void THEN KWrongUnless(ss = <<>>)
     ELSE IF Len(ss) < known \/ (Len(ss) > known /\ ~more) THEN 2 ELSE given
RECURSIVE KJudge(_, _)
\* js is what is said of its parts, ts their types as they are used.
KJudgedOf(env, e, js, ts) ==
  LET worst == FoldLeft(LAMBDA v, j : KWorst(v, j.v), 0, js)
      so(j) == [j EXCEPT !.v = KWorst(@, worst)]
      s == ts[1]
      under == IF KIs(s, "*") THEN Tail(s) ELSE KInt
      pointer == KIs(s, "*")
      target == IF js[1].lv /\ KScalar(js[1].t) THEN 0 ELSE 2
      member(t) == KIs(t, "struct") /\ e.n <= Len(t[1].as)
  IN CASE e.k = "num" -> KJudged(KInt, FALSE, 0)
       [] e.k = "const" -> KJudged(KType("enum"), FALSE, 0)
       [] e.k = "var" -> IF e.s \in DOMAIN env THEN KJudged(env[e.s].t, ~KIs(env[e.s].t, "()"), 0) ELSE KJudged(KInt, TRUE, 2)
       [] e.k = "bin" -> so(KBinary(e.o, e.kids[1], e.kids[2], s, ts[2]))
       [] e.k = "un" /\ e.o = "*" -> so(KJudged(under, TRUE, KWrongUnless(pointer)))
       [] e.k = "un" /\ e.o = "&" -> so(KJudged(KPointer(IF KIs(js[1].t, "[]") THEN Tail(js[1].t) ELSE js[1].t), FALSE, KWrongUnless(js[1].lv)))
       [] e.k = "un" /\ e.o = "!" -> so(KJudged(KInt, FALSE, KWrongUnless(KScalar(s))))
       [] e.k = "un" /\ e.o \in {"-", "~"} -> so(KJudged(KPromoted(s), FALSE, KWrongUnless(KWhole(s))))
       [] e.k \in {"pre", "post"} -> so(KJudged(s, FALSE, target))
       [] e.k = "set" /\ e.o = "" -> so(KJudged(s, FALSE, KWorst(KWrongUnless(js[1].lv /\ ~KIs(js[1].t, "[]")), KGiven(s, ts[2], e.kids[2]))))
       [] e.k = "set" /\ e.o # "" ->
            so(KJudged(s, FALSE, KWorst(target, KWrongUnless(KWhole(ts[2]) /\ (pointer => e.o \in {"+", "-"})))))
       [] e.k = "cond" -> LET r == KBinary("<", e.kids[2], e.kids[3], ts[2], ts[3])
                          IN so(KJudged(IF KWhole(ts[2]) /\ KWhole(ts[3]) THEN KUsual(ts[2], ts[3]) ELSE ts[2], FALSE,
                                        KWorst(KWrongUnless(KScalar(s)), IF ts[2] = ts[3] THEN 0 ELSE r.v)))
       [] e.k = "call" -> IF ~KIs(under, "()") THEN so(KJudged(KInt, FALSE, 2))
                          ELSE so(KJudged(Tail(under), FALSE, IF under[1].as = <<>> THEN 0 ELSE KPassed(under[1].as[1], Tail(ts), Tail(e.kids))))
       [] e.k = "at" -> so(KJudged(under, TRUE, KWrongUnless(pointer /\ KWhole(ts[2]))))
       [] e.k = "dot" -> IF member(js[1].t) THEN so(KJudged(js[1].t[1].as[e.n], js[1].lv, 0)) ELSE so(KJudged(KInt, TRUE, 2))
       [] e.k = "arrow" -> IF member(under) THEN so(KJudged(under[1].as[e.n], TRUE, 0)) ELSE so(KJudged(KInt, TRUE, 2))
       [] e.k = "cast" -> so(KJudged(e.t, FALSE, KWrongUnless(KIs(e.t, "void") \/ (KScalar(s) /\ KScalar(e.t)))))
       [] OTHER -> so(KJudged(KInt, FALSE, 0))
KJudge(env, e) ==
  LET of(js) == KJudgedOf(env, e, js, <<>> \o [k \in DOMAIN js |-> KDecay(js[k].t)])
  IN of(<<>> \o [k \in DOMAIN e.kids |-> KJudge(env, e.kids[k])])

----------------------------------------------------------------------------
(* What a program does.  Objects have numbers, and lie 100 apart.  Of the    *)
(* state S: mem the values stored, lay the sizes of all scalars, fns the    *)
(* names of the functions at addresses, env what a name is ([n, t]); tr the *)
(* calls made, q the values those still to come give back; stop when there  *)
(* is none, bad when what is done has no meaning; fuel; v and t the value   *)
(* or the address got and its type; m the way statements are left, ret what *)
(* is returned.                                                             *)
KApart == 100
KMaxCalls == 6
RECURSIVE KCells(_, _, _)
\* The scalars of objects of the types ts at places, from the object k on.
KCells(places, ts, k) == IF k > Len(ts) THEN <<>> ELSE KScalars(ts[k], KApart * places[k], 1) \o KCells(places, ts, k + 1)
KSizes(cells) == [a \in {cells[j][1] : j \in DOMAIN cells} |-> KSize((CHOOSE c \in {cells[j] : j \in DOMAIN cells} : c[1] = a)[2])]
KState(lay, fns, env, mem, q, fuel) ==
  [mem |-> mem, lay |-> lay, fns |-> fns, env |-> env, tr |-> <<>>, q |-> q, stop |-> FALSE, bad |-> FALSE,
   fuel |-> fuel, v |-> 0, t |-> KInt, top |-> env, rt |-> KInt, m |-> [k |-> "run", s |-> "", n |-> 0], ret |-> <<>>]
KBad(S) == [S EXCEPT !.bad = TRUE]
KOver(S) == S.bad \/ S.stop
KGot(S, v, t) == [S EXCEPT !.v = IF KScalar(t) THEN KFit(t, v) ELSE 0, !.t = t]
\* A value told: of an address only where in its object it is.
KTold(t, v) == <<KSize(t), IF KIs(t, "*") /\ v # 0 THEN 1 + (v % KApart) ELSE v>>
\* What a function gives back: of a structure only that it does.
KBack(S) == <<IF KScalar(S.rt) THEN KTold(S.rt, KFit(S.rt, S.v)) ELSE <<>>>>
KHolds(S, a, t) == IF a \in DOMAIN S.lay THEN S.lay[a] = KSize(t) ELSE FALSE
\* The value of the object at S.v: of a structure its address.
KLoad(S) ==
  CASE KScalar(S.t) -> IF KHolds(S, S.v, S.t) /\ S.v \in DOMAIN S.mem THEN KGot(S, S.mem[S.v], S.t) ELSE KBad(S)
    [] KIs(S.t, "[]") -> [S EXCEPT !.t = KPointer(Tail(@))]
    [] KIs(S.t, "()") -> [S EXCEPT !.t = KPointer(@)]
    [] OTHER -> S
KCopied(S, a, t) ==
  LET slots == {KSlots(t)[k][1] : k \in DOMAIN KSlots(t)}
  IN [S EXCEPT !.mem = [x \in {a + o : o \in {p \in slots : S.v + p \in DOMAIN S.mem}} |-> S.mem[S.v + x - a]] @@ @]
KStore(S, a, t) ==
  IF KIs(t, "struct") THEN KCopied(S, a, t)
  ELSE IF KHolds(S, a, t) THEN [KGot(S, S.v, t) EXCEPT !.mem = (a :> KFit(t, S.v)) @@ @] ELSE KBad(S)
\* A call of the function at a, that returns a t, with <<size, value>> of each argument.
KCalled(S, a, t, args) ==
  LET told == [S EXCEPT !.tr = Append(@, <<S.fns[a], args>>), !.v = 0, !.t = t]
      void == KIs(t, "void")
  IN IF KOver(S) THEN S ELSE IF a \notin DOMAIN S.fns THEN KBad(S)
     ELSE IF Len(S.tr) = KMaxCalls \/ (S.q = <<>> /\ ~void) THEN [told EXCEPT !.stop = TRUE]
     ELSE IF void THEN told ELSE [told EXCEPT !.v = KFit(t, Head(S.q)), !.q = Tail(@)]
KPiece(S) == KTold(S.t, S.v)

\* The address a, of type t, moved by n: by no more than an int holds.
KMoved(S, a, n, t) == IF KFit(KInt, n) = n THEN KGot(S, a + n, t) ELSE [KBad(S) EXCEPT !.t = t]
\* The operator o on a of type s and b of type t.
KResult(S, r, t) == IF r.is THEN KGot(S, r.v, t) ELSE KBad(S)
KCombineAs(S, o, a, s, b, t, u) ==
  LET whole == KWhole(s) /\ KWhole(t)
      size(p) == KSize(Tail(p))
      distance == ~whole /\ o = "-" /\ KIs(t, "*")
      fit(v) == IF whole THEN KFit(u, v) ELSE v
  IN IF whole \/ o \in KCompares \/ distance
     THEN KResult(S, KDoes(IF distance THEN "/" ELSE o, u, IF distance THEN a - b ELSE fit(a), IF distance THEN size(s) ELSE fit(b)),
                  IF o \in KCompares \/ distance THEN KInt ELSE u)
     ELSE IF KWhole(s) THEN KMoved(S, b, a * size(t), t)
     ELSE KMoved(S, a, IF o = "+" THEN b * size(s) ELSE -(b * size(s)), s)
KCombine(S, o, a, s, b, t) == KCombineAs(S, o, a, s, b, t, KUsual(s, t))
RECURSIVE KV(_, _), KL(_, _), KArgs(_, _, _, _)
\* Where the object e is.
KL(S, e) ==
  LET under(Q) == [Q EXCEPT !.t = Tail(@)]
      member(Q) == [Q EXCEPT !.v = @ + KOffset(Q.t, e.n), !.t = @[1].as[e.n]]
  IN CASE e.k = "var" -> [S EXCEPT !.v = KApart * S.env[e.s].n, !.t = S.env[e.s].t]
       [] e.k = "un" -> under(KV(S, e.kids[1]))
       [] e.k = "at" -> under(KV(S, KBin("+", e.kids[1], e.kids[2])))
       [] e.k = "arrow" -> member(under(KV(S, e.kids[1])))
       [] OTHER -> member(KL(S, e.kids[1]))
\* The arguments es, of a function of which the types as are known.
KArgs(S, as, es, got) ==
  LET known == as # <<>> /\ KScalar(Head(as))
      passed(Q) == IF known THEN KGot(Q, Q.v, Head(as)) ELSE KGot(Q, Q.v, KPromoted(Q.t))
      next(Q) == KArgs(Q, IF known THEN Tail(as) ELSE <<>>, Tail(es), Append(got, KPiece(Q)))
  IN IF es = <<>> THEN [to |-> S, args |-> got] ELSE next(passed(KV(S, Head(es))))
\* A value to store where Q is, with what is there before.
KAfter(R, old, before) == IF before THEN KGot(R, old, R.t) ELSE R
KPut(Q, old, o, R, before) ==
  KAfter(KStore(IF o = "" THEN R ELSE KCombine(R, o, old.v, Q.t, R.v, R.t), Q.v, Q.t), old.v, before)
KAssignTo(Q, old, o, value, before) == KPut(Q, old, o, KV(old, value), before)
KAssignAt(Q, o, value, before) == KAssignTo(Q, IF o = "" THEN Q ELSE KLoad(Q), o, value, before)
KAssign(S, o, e, value, before) == KAssignAt(KL(S, e), o, value, before)
\* What is chosen has the usual type of both.
KUsualOf(env, a, b) == KUsual(KJudge(env, a).t, KJudge(env, b).t)
KAs(Q, t) == IF KWhole(Q.t) THEN KGot(Q, Q.v, t) ELSE Q
KChosen(Q, a, b) == IF KOver(Q) THEN Q ELSE KAs(KV(Q, IF Q.v # 0 THEN a ELSE b), KUsualOf(Q.env, a, b))
KBoth(P, o, Q) == KCombine(Q, o, P.v, P.t, Q.v, Q.t)
KRight(P, o, b) == KBoth(P, o, KV(P, b))
KCallOf(A, f) == KCalled(A.to, f.v, Tail(f.t), A.args)
KCallAt(f, es) == KCallOf(KArgs(f, IF f.t[1].as = <<>> THEN <<>> ELSE f.t[1].as[1], es, <<>>), f)
KV(S, e) ==
  LET a == e.kids[1]
      b == e.kids[2]
      truth(Q) == KGot(Q, IF Q.v # 0 THEN 1 ELSE 0, KInt)
      untrue(Q) == KGot(Q, IF Q.v = 0 THEN 1 ELSE 0, KInt)
      shortly(Q) == IF KOver(Q) \/ (Q.v # 0) = (e.o = "||") THEN Q ELSE truth(KV(Q, b))
      signed(Q) == KGot(Q, IF e.o = "-" THEN -Q.v ELSE -Q.v - 1, KPromoted(Q.t))
      address(Q) == [Q EXCEPT !.t = KPointer(IF KIs(@, "[]") THEN Tail(@) ELSE @)]
      function(Q) == IF KIs(Q.t, "*") THEN [Q EXCEPT !.t = Tail(@)] ELSE Q
  IN CASE e.k = "num" -> KGot(S, e.n, KInt)
       [] e.k = "const" -> KGot(S, e.n, KType("enum"))
       [] e.k \in {"var", "at", "dot", "arrow"} \/ (e.k = "un" /\ e.o = "*") -> KLoad(KL(S, e))
       [] e.k = "un" /\ e.o = "&" -> address(KL(S, a))
       [] e.k = "un" /\ e.o = "!" -> untrue(KV(S, a))
       [] e.k = "un" /\ e.o \in {"-", "~"} -> signed(KV(S, a))
       [] e.k = "bin" /\ e.o = "," -> KV(KV(S, a), b)
       [] e.k = "bin" /\ e.o \in {"&&", "||"} -> shortly(truth(KV(S, a)))
       [] e.k = "bin" /\ e.o \notin {",", "&&", "||"} -> KRight(KV(S, a), e.o, b)
       [] e.k = "cond" -> KChosen(KV(S, a), b, e.kids[3])
       [] e.k \in {"set", "pre", "post"} -> KAssign(S, IF e.k = "set" THEN e.o ELSE IF e.o = "++" THEN "+" ELSE "-", a,
                                                    IF e.k = "set" THEN b ELSE KNum(1), e.k = "post")
       [] e.k = "call" -> KCallAt(function(KV(S, a)), Tail(e.kids))
       [] e.k = "cast" -> LET Q == KV(S, a) IN KGot(Q, Q.v, e.t)
       [] OTHER -> KGot(S, KSize(IF e.kids = <<>> THEN e.t ELSE KJudge(S.env, a).t), KInt)

(* Statements.  The mode m is "run"; "break", "continue", "return" or "goto" *)
(* when what follows is passed by; "seek" a label s, "pick" the case n, or   *)
(* "default" when what comes before is.                                      *)
KMode(S, k) == [S EXCEPT !.m.k = k]
KRuns(S) == S.m.k = "run" /\ ~KOver(S)
KSeeks(S) == S.m.k \in {"seek", "pick", "default"}
RECURSIVE KX(_, _), KDone(_, _, _, _), KLoop(_, _, _, _), KAgain(_, _, _)
\* A loop, before its test (or its body) and, after a body, before its step.
KAgain(Q, s, step) ==
  LET on == KMode(Q, "run")
  IN CASE KOver(Q) \/ KSeeks(Q) -> Q [] ~KOver(Q) /\ Q.m.k = "break" -> on
       [] ~KOver(Q) /\ Q.m.k \in {"run", "continue"} -> KLoop(IF step = <<>> THEN on ELSE KX(on, KExpr(step[1])), s, TRUE, step)
       [] OTHER -> Q
KTested(Q, s, free, step) ==
  IF ~free /\ (KOver(Q) \/ Q.v = 0) THEN Q ELSE KAgain(KX([Q EXCEPT !.fuel = @ - 1], s.kids[Len(s.kids)]), s, step)
KLoop(S, s, test, step) ==
  LET cond == IF s.k = "for" THEN s.kids[2] ELSE s.kids[1]
      free == ~test \/ KSeeks(S) \/ cond.k = "none"
  IN IF S.fuel = 0 THEN KBad(S) ELSE KTested(IF free THEN S ELSE KX(S, KExpr(cond)), s, free, step)
\* V is what the expression a, if that is reached in state S, comes to.
KDone(S, s, a, V) ==
  LET last == s.kids[Len(s.kids)]
      runs == S.m.k = "run"
      scoped(Q) == [Q EXCEPT !.env = S.env]
      broken(Q) == IF Q.m.k = "break" THEN KMode(Q, "run") ELSE Q
      defaulted(Q) == IF Q.m.k = "pick" /\ runs THEN KX(KMode(Q, "default"), last) ELSE Q
      through(Q) == IF Q.m.k = "default" /\ runs THEN KMode(Q, "run") ELSE broken(Q)
      picked(Q) == IF KOver(Q) THEN Q ELSE through(defaulted(KX([Q EXCEPT !.m = [k |-> "pick", s |-> "", n |-> Q.v]], last)))
      inner(Q) == IF S.m.k \in {"pick", "default"} THEN S ELSE broken(KX(S, last))
      else(Q) == IF Len(s.kids) = 3 /\ KSeeks(Q) THEN KX(Q, s.kids[3]) ELSE Q
      branch(Q) == IF KOver(Q) THEN Q ELSE IF Q.v # 0 THEN KX(Q, s.kids[2]) ELSE IF Len(s.kids) = 3 THEN KX(Q, s.kids[3]) ELSE Q
      here == CASE s.k = "case" -> S.m.k = "pick" /\ S.m.n = s.n [] s.k = "default" -> S.m.k = "default"
                [] OTHER -> S.m.k = "seek" /\ S.m.s = s.s
      result(Q) == KMode([Q EXCEPT !.ret = KBack(Q)], "return")
  IN CASE s.k = "block" -> scoped(FoldLeft(KX, S, s.kids))
       [] s.k = "local" -> IF s.kids = <<>> \/ ~runs \/ s.o = "static" THEN S ELSE V
       [] s.k = "expr" -> IF runs THEN V ELSE S
       [] s.k = "if" -> IF runs THEN branch(V) ELSE else(KX(S, s.kids[2]))
       [] s.k \in {"while", "do", "for"} -> KLoop(IF runs /\ s.k = "for" /\ a.k # "none" THEN V ELSE S, s, s.k # "do",
                                                IF s.k = "for" /\ s.kids[3].k # "none" THEN <<s.kids[3]>> ELSE <<>>)
       [] s.k = "switch" -> IF runs THEN picked(V) ELSE inner(S)
       [] s.k \in {"case", "default", "label"} -> KX(IF here THEN KMode(S, "run") ELSE S, s.kids[1])
       [] s.k = "empty" \/ ~runs -> S
       [] s.k \in {"break", "continue"} /\ runs -> KMode(S, s.k)
       [] s.k = "goto" /\ runs -> [S EXCEPT !.m = [k |-> "goto", s |-> s.s, n |-> 0]]
       [] s.k = "return" /\ runs -> IF a.k = "none" THEN KMode(S, "return") ELSE result(V)
KReached(S, s) ==
  IF s.k # "local" THEN S
  ELSE [S EXCEPT !.env = (s.s :> IF s.o = "extern" THEN S.top[s.s] ELSE [n |-> s.n, t |-> s.t]) @@ @]
KFirst(s) == IF s.k = "local" /\ s.kids # <<>> THEN KSet("", KVar(s.s), s.kids[1]) ELSE IF s.kids = <<>> THEN s ELSE s.kids[1]
KX(S, s) ==
  IF KOver(S) \/ ~(S.m.k = "run" \/ KSeeks(S)) THEN S ELSE KDone(KReached(S, s), s, KFirst(s), KV(KReached(S, s), KFirst(s)))

(* The whole function, called when the variables have some values.          *)
RECURSIVE KFrom(_, _), KGives(_, _, _)
KFrom(S, body) ==
  LET again(Q) == IF Q.m.k # "goto" THEN Q
                  ELSE IF Q.fuel = 0 THEN KBad(Q) ELSE KFrom(KMode([Q EXCEPT !.fuel = @ - 1], "seek"), body)
  IN again(KX(S, body))
\* What objects hold first: <<where, value>> of those an initialiser names.
KGives(t, e, base) ==
  LET u(k) == IF KIs(t, "[]") THEN Tail(t) ELSE IF KIs(t, "struct") THEN t[1].as[k] ELSE t
      off(k) == IF KIs(t, "[]") THEN (k - 1) * KSize(Tail(t)) ELSE IF KIs(t, "struct") THEN KOffset(t, k) ELSE 0
  IN IF e.k = "braces" THEN FlattenSeq([k \in DOMAIN e.kids |-> KGives(u(k), e.kids[k], base + off(k))])
     ELSE <<<<base, KFit(t, KV(KState(<<>>, <<>>, <<>>, <<>>, <<>>, 0), e).v)>>>>
\* The cells hold the values vals, one after the other, and the pointers
\* point to the first object of their type.
KTargets(places, ts, cells) ==
  LET all == [k \in DOMAIN ts |-> <<KApart * places[k], ts[k]>>] \o cells
      types == {all[k][2] : k \in DOMAIN all}
  IN [t \in types |-> all[SelectInSeq(all, LAMBDA c : c[2] = t)][1]]
KFill(cells, targets, vals) ==
  LET target(u) == IF u \in DOMAIN targets THEN targets[u] ELSE 0
      value(j) == IF KIs(cells[j][2], "*") THEN target(Tail(cells[j][2])) ELSE KFit(cells[j][2], vals[1 + (j % Len(vals))])
      n(a) == CHOOSE j \in DOMAIN cells : cells[j][1] = a
  IN [a \in {cells[j][1] : j \in DOMAIN cells} |-> value(n(a))]
\* An array takes its size from its initialiser, an argument is no array.
KWholeType(d) == IF KIs(d.t, "[]") /\ d.t[1].n = 0 /\ d.init # <<>> THEN [d.t EXCEPT ![1].n = Len(d.init[1].kids)] ELSE d.t
KFormal(d) == IF KIs(d.t, "()") THEN KPointer(d.t) ELSE KDecay(d.t)
KOuter(g) == SelectSeq(g.decls, LAMBDA d : d.cls # "typedef")
KNames(g) == [k \in DOMAIN KOuter(g) |-> KOuter(g)[k].name] \o [k \in DOMAIN g.formals |-> g.formals[k].name]
KTypes(g) == [k \in DOMAIN KOuter(g) |-> KWholeType(KOuter(g)[k])] \o [k \in DOMAIN g.formals |-> KFormal(g.formals[k])]
\* What is left of an object that has an initialiser is 0.
KZeros(t, base) == [j \in DOMAIN KSlots(t) |-> <<base + KSlots(t)[j][1], 0>>]
KChanged(mem, gives) == FoldLeft(LAMBDA f, p : (p[1] :> p[2]) @@ f, mem, gives)
\* Where all is: objs the types of all objects, of which those a caller can
\* see are at places, with the types ts and the names names; env what the
\* names are and gives what the initialisers do.
KPlaces(objs, places, ts, names, env, gives) ==
  LET cells == KCells(places, ts, 1)
  IN [places |-> places, ts |-> ts, cells |-> cells, env |-> env, gives |-> gives,
      lay |-> KSizes(KCells([n \in DOMAIN objs |-> n], objs, 1)), targets |-> KTargets(places, ts, cells),
      fns |-> [a \in {KApart * places[k] : k \in {j \in DOMAIN ts : KIs(ts[j], "()")}} |-> names[SelectInSeq(places, LAMBDA p : KApart * p = a)]]]
KStart(W, vals, q, fuel, rt) ==
  [KState(W.lay, W.fns, W.env, KChanged(KFill(W.cells, W.targets, vals), W.gives), q, fuel) EXCEPT !.rt = rt]
\* What a caller sees of a run that ends in E.
KOutcome(E, W) ==
  LET cell(c) == IF c[1] \in DOMAIN E.mem THEN KTold(c[2], KFit(c[2], E.mem[c[1]])) ELSE <<>>
  IN [bad |-> E.bad, stop |-> E.stop, tr |-> E.tr, ret |-> IF E.stop THEN <<>> ELSE E.ret,
      held |-> IF E.stop THEN <<>> ELSE [j \in DOMAIN W.cells |-> cell(W.cells[j])]]
\* What the k-th object, at a, holds when nothing is done yet.
KHeld(g, t, k, a) ==
  LET init == IF k > Len(KOuter(g)) THEN <<>> ELSE KOuter(g)[k].init
  IN IF init = <<>> THEN <<>> ELSE KZeros(t, a) \o KGives(t, init[1], a)
KWorldOf(g, names, ts) ==
  LET n == Len(g.locals)
      env == FoldLeft(LAMBDA f, k : (names[k] :> [n |-> n + k, t |-> ts[k]]) @@ f, <<>>, [k \in DOMAIN ts |-> k])
  IN KPlaces(g.locals \o ts, [k \in DOMAIN ts |-> n + k], ts, names, env,
             FlattenSeq([k \in DOMAIN ts |-> KHeld(g, ts[k], k, KApart * (n + k))]))
KWorld(g) == KWorldOf(g, KNames(g), KTypes(g))
KRun(W, g, vals, q, fuel) == KOutcome(KFrom(KStart(W, vals, q, fuel, g.ret), g.body), W)

----------------------------------------------------------------------------
(* What is said of a program: fine, doubtful or wrong.  C tells where one   *)
(* stands: the names known (env) and those of this scope (here), whether in *)
(* a loop or a switch, the labels of the function, what it returns; v the   *)
(* worst said so far.                                                       *)
RECURSIVE KTypeFits(_), KLabels(_), KSay(_, _)
KTypeFits(t) ==
  CASE KIs(t, "()") -> KTypeFits(Tail(t)) /\ ~KIs(Tail(t), "[]") /\ ~KIs(Tail(t), "()")
    [] KIs(t, "[]") -> KTypeFits(Tail(t)) /\ ~KIs(Tail(t), "()") /\ ~KIs(Tail(t), "void") /\ (KIs(Tail(t), "[]") => t[2].n > 0)
    [] KIs(t, "*") -> KTypeFits(Tail(t)) [] OTHER -> TRUE
KObjectFits(t) == KTypeFits(t) /\ ~KIs(t, "void")
KLabels(s) ==
  IF s.k \in {"expr", "return", "local"} THEN <<>>
  ELSE (IF s.k = "label" THEN <<s.s>> ELSE <<>>) \o FlattenSeq([k \in DOMAIN s.kids |-> KLabels(s.kids[k])])
KSaid(C, v) == [C EXCEPT !.v = KWorst(@, v)]
\* j is what is said of its expression, if it has one.
KSayOf(C, s, j) ==
  LET a == s.kids[1]
      last == s.kids[Len(s.kids)]
      t == KDecay(j.t)
      said(v) == IF a.k = "none" THEN C ELSE KSaid(C, KWorst(j.v, v))
      scalar == KWrongUnless(KScalar(t))
      in(D) == [KSay([D EXCEPT !.loop = TRUE], last) EXCEPT !.loop = C.loop]
      switch(D) == [KSay([D EXCEPT !.sw = TRUE, !.def = FALSE], last) EXCEPT !.sw = C.sw, !.def = C.def]
  IN CASE s.k = "expr" -> said(0)
       [] s.k = "block" -> [FoldLeft(KSay, [C EXCEPT !.here = {}], s.kids) EXCEPT !.env = C.env, !.here = C.here]
       [] s.k = "local" -> IF s.kids = <<>> THEN C ELSE said(KGiven(s.t, t, a))
       [] s.k = "if" -> FoldLeft(KSay, said(scalar), Tail(s.kids))
       [] s.k \in {"while", "do"} -> in(said(scalar))
       [] s.k = "for" -> in(FoldLeft(KSay, said(0), <<KNode("if", "", <<s.kids[2]>>), KExpr(s.kids[3])>>))
       [] s.k = "switch" -> switch(said(KWrongUnless(KWhole(t) /\ t[1].c \notin {"long", "ulong"})))
       [] s.k = "case" -> KSay(KSaid(C, KWrongUnless(C.sw)), a)
       [] s.k = "default" -> KSay([KSaid(C, KWrongUnless(C.sw /\ ~C.def)) EXCEPT !.def = TRUE], a)
       [] s.k = "label" -> KSay(C, a)
       [] s.k = "return" -> said(IF KIs(C.ret, "void") THEN 2 ELSE KGiven(C.ret, t, a))
       [] s.k = "goto" -> KSaid(C, KWrongUnless(\E k \in DOMAIN C.labels : C.labels[k] = s.s))
       [] s.k = "break" -> KSaid(C, KWrongUnless(C.loop \/ C.sw))
       [] s.k = "continue" -> KSaid(C, KWrongUnless(C.loop))
       [] OTHER -> C
\* A local variable is known in its own initialiser.
KNamed(C, s) ==
  IF s.k # "local" THEN C
  ELSE KSaid([C EXCEPT !.env = (s.s :> [n |-> 0, t |-> s.t]) @@ @, !.here = @ \cup {s.s}],
             KWrongUnless(s.s \notin C.here /\ KObjectFits(s.t)))
KSay(C, s) == KSayOf(KNamed(C, s), s, KJudge(KNamed(C, s).env, s.kids[1]))
KSays(g) ==
  LET outer == KOuter(g)
      names == KNames(g)
      ts == KTypes(g)
      env == FoldLeft(LAMBDA f, k : (names[k] :> [n |-> 0, t |-> ts[k]]) @@ f, <<>>, [k \in DOMAIN ts |-> k])
      here == {g.formals[k].name : k \in DOMAIN g.formals}
      start == [v |-> 0, env |-> env, here |-> here, loop |-> FALSE, sw |-> FALSE, def |-> FALSE, labels |-> KLabels(g.body), ret |-> g.ret]
      fit == /\ \A k \in DOMAIN g.decls : KTypeFits(g.decls[k].t) /\ (g.decls[k].cls # "typedef" => ~KIs(g.decls[k].t, "void"))
             /\ \A k \in DOMAIN g.formals : KTypeFits(g.formals[k].t) /\ KObjectFits(KFormal(g.formals[k]))
             /\ \A k \in DOMAIN g.members : KObjectFits(g.members[k]) /\ ~KIs(g.members[k], "()")
             /\ KTypeFits(KFunction(<<>>, g.ret))
             /\ \A j, k \in DOMAIN outer : outer[j].name = outer[k].name => outer[j].t = outer[k].t /\ (j = k \/ "extern" \in {outer[j].cls, outer[k].cls})
             /\ Cardinality(here) = Len(g.formals)
  IN FoldLeft(KSay, KSaid(start, KWrongUnless(fit)), g.body.kids).v
=============================================================================
