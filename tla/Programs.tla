------------------------------ MODULE Programs ------------------------------
(* Programs of C for p1, in families: operators on values of two types and   *)
(* on operands of every kind, what is reached through pointers, control, all *)
(* declarators of four constructors, scopes, initialisers and calls.  Where  *)
(* p1 is known to part from the language a comment says what is left out.    *)
EXTENDS P1Book

KT(c) == KType(c)
KChar == KT("char")
KLong == KT("long")
KVoid == KT("void")
KNone == KNode("none", "", <<>>)
KWhile(c, s) == KNode("while", "", <<c, s>>)
KDo(s, c) == KNode("do", "", <<c, s>>)
KFor(a, b, c, s) == KNode("for", "", <<a, b, c, s>>)
KIf(c, s) == KNode("if", "", <<c, s>>)
KIfElse(c, s, e) == KNode("if", "", <<c, s, e>>)
KSwitch(c, s) == KNode("switch", "", <<c, s>>)
KReturn(e) == KNode("return", "", <<e>>)
KAlone(k) == KNode(k, "", <<>>)
KDefault(s) == KNode("default", "", <<s>>)
KAt(a, i) == KNode("at", "", <<a, i>>)
KCond(a, b, c) == KNode("cond", "", <<a, b, c>>)
KStep(k, o, a) == KNode(k, o, <<a>>)
KArrow(a, m) == [KNode("arrow", "", <<a>>) EXCEPT !.n = m]
KSizeof(a) == KNode("size", "", <<a>>)
KSizeOfType(t) == [KNode("size", "", <<>>) EXCEPT !.t = t]
Va == KVar("a")
Vb == KVar("b")
Vc == KVar("c")
KVars(name, t) == KDeclares(name, t, "", <<>>)
KBody(decls, ss) ==
  [consts |-> <<>>, members |-> <<>>, decls |-> decls, formals |-> <<>>, proto |-> FALSE, ret |-> KT("void"),
   locals |-> <<>>, body |-> KBlock(ss)]
\* Values the variables have, and what calls give back.
Stores == <<<<6, 2, 1, 9>>, <<-5, 3, 2, -32>>, <<31, 1, 5, 17>>>>
Oracles == <<<<1, 0, 2, 0>>, <<0, 1, 1, 0, 1>>, <<2, 1, 1, 1, 0>>>>

----------------------------------------------------------------------------
(* Values of two types under every operator, each result told as a long.    *)
Numbers == {"char", "uchar", "int", "uint", "long", "ulong"}
Binaries == <<"+", "-", "*", "/", "%", "&", "|", "^", "<", ">", "<=", ">=", "==", "!=", "&&", "||", "<<", ">>", ",">>
InRow(decls, es) ==
  KBody(decls \o <<KVars("r", KFunction(<<<<KLong>>>>, KVoid))>>, <<>> \o [k \in DOMAIN es |-> KExpr(KCall("r", <<es[k]>>))])
\* Rows of seven at most.
InRows(decls, es) ==
  {InRow(decls, SubSeq(es, k, IF k + 6 > Len(es) THEN Len(es) ELSE k + 6)) : k \in {1, 8, 15} \cap DOMAIN es}
Two(s, t) == <<KVars("a", KT(s)), KVars("b", KT(t))>>
Widths(o, s, t) == o \in {"<<", ">>"} => KWide[t] <= KWide[s]
Pairs == UNION {InRows(Two(s, t), <<>> \o [k \in DOMAIN Binaries |-> KBin(IF Widths(Binaries[k], s, t) THEN Binaries[k] ELSE "+", Va, Vb)]) :
            s \in Numbers, t \in Numbers}
\* p1 makes the right operand of a compound assignment what the left one is.
Compounds(s, t) ==
  SelectSeq(<<"+", "-", "*", "&", "|", "^", "/", "%", "<<", ">>">>, LAMBDA o : o \in {"/", "%", "<<", ">>"} => s = t /\ s \notin {"char", "uchar"})
Assigned == {KBody(<<KVars("a", KT(s)), KVars("b", KT(t))>>, <<KExpr(KSet(Compounds(s, t)[k], Va, Vb))>>) :
               <<s, t, k>> \in {x \in Numbers \X Numbers \X (1 .. 10) : x[3] <= Len(Compounds(x[1], x[2]))}}
            \cup {KBody(Two(s, t), <<KExpr(KSet("", Va, Vb))>>) : s \in Numbers, t \in Numbers}
(* Two operators, grouped both ways.                                        *)
Three == <<KVars("a", KInt), KVars("b", KInt), KVars("c", KInt)>>
Partial == {"/", "%", "<<", ">>"}
LeftFirst(o) == InRows(Three, <<>> \o [k \in DOMAIN Binaries |-> KBin(Binaries[k], KBin(o, Va, Vb), Vc)])
RightFirst(o, n) == KBin(Binaries[n], Va, KBin(o, Vb, Vc))
Grouped == UNION {
   LeftFirst(o) \cup InRows(Three, <<>> \o [k \in DOMAIN Binaries |-> IF Binaries[k] \in Partial THEN Va ELSE RightFirst(o, k)])
     \cup {InRow(Three, <<RightFirst(o, k)>>) : k \in {n \in DOMAIN Binaries : Binaries[n] \in Partial}}
     \cup InRows(Three, <<KCond(Va, KBin(o, Vb, Vc), Vb), KCond(KBin(o, Va, Vb), Vb, Vc), KBin(o, KCond(Va, Vb, Vc), Vb),
                          KUn("-", KBin(o, Va, Vb)), KBin(o, KUn("~", Va), KBin("+", KUn("!", Vb), KNum(1))), KBin(o, KCast(KChar, Va), Vb),
                          KCast(KChar, KBin(o, Va, Vb)), KSet("", Va, KBin(o, Vb, Vc)), KBin(o, Va, KSet("", Vb, Vc)),
                          KCond(Va, Vb, KCond(Vb, Vc, Va)), KCond(KCond(Va, Vb, Vc), Va, Vb), KBin(o, Va, KStep("post", "++", Vc)),
                          KBin(o, KStep("pre", "--", Va), Vb), KSet("+", Va, KSet("-", Vb, Vc)), KSet("", Va, KSet("", Vb, Vc))>>) :
   o \in {Binaries[k] : k \in DOMAIN Binaries}}

(* Pointers, structures, arrays and calls.                                  *)
MemberTypes == <<KChar, KPointer(KInt), KLong>>
Struct == KStruct(MemberTypes)
Many == <<KVars("a", KInt), KVars("b", KLong), KVars("c", KChar), KVars("i", KInt), KVars("v", KArray(3, KInt)), KVars("p", KPointer(KInt)),
          KVars("w", KArray(2, KStruct(MemberTypes))), KVars("u", Struct), KVars("sp", KPointer(Struct)),
          KVars("m", KArray(2, KArray(3, KChar))), KVars("pp", KPointer(KPointer(KInt))), KVars("q", KFunction(<<>>, KInt)),
          KVars("fp", KPointer(KFunction(<<>>, KInt)))>>
Vp == KVar("p")
Vv == KVar("v")
Vsp == KVar("sp")
K1 == KNum(1)
K0 == KNum(0)
Star(e) == KUn("*", e)
AnyValue == {
  KAt(Vv, K1), Star(KBin("+", K1, Vv)), Star(KStep("post", "++", Vp)), KStep("post", "++", Star(Vp)), Star(KStep("pre", "++", Vp)),
  KUn("&", Va), Star(KUn("&", Va)), KBin("-", KUn("&", KAt(Vv, KNum(2))), Vv), KBin("==", Vp, K0), KUn("!", Vp),
  KDot(KVar("u"), 3), KArrow(Vsp, 1), KUn("&", KArrow(Vsp, 3)), KDot(KAt(KVar("w"), K1), 1), KArrow(KBin("+", KVar("w"), K1), 2),
  KDot(Star(Vsp), 2), Star(KDot(KVar("u"), 2)), Star(Star(KVar("pp"))), KAt(KAt(KVar("m"), K1), KNum(2)), KAt(KVar("m"), K1),
  KSizeof(KVar("m")), KSizeof(KVar("u")), KSizeof(KArrow(Vsp, 2)), KSizeOfType(KArray(3, KPointer(KLong))), KSizeof(KBin("+", Va, Vb)),
  KBin("&&", Vp, Va), KBin("||", KUn("!", Va), Vp), KCond(Vp, Star(Vp), K0), KCast(KT("uint"), Vc), KCast(KPointer(KChar), Vp),
  KBin(">", KCast(KT("uint"), KUn("-", K1)), Va), KBin(",", KStep("post", "++", Va), Va), KBin("+", Va, KConst("A", 0)),
  KBin("<", KConst("B", 5), Vb), KBin("-", KBin("+", Vp, KNum(2)), Vp), KBin("<", Vv, KBin("+", Vv, Va)), KAt(Vv, KBin("-", KNum(2), K1)),
  KBin("-", Vp, Vc), Star(KBin("+", KVar("sp"), K0))}
CallsOfAny == {KCall("q", <<>>), KCall("q", <<Va, Vb, Vc>>), KCall("q", <<KUn("&", Va), Vp, Vv>>), KCall("q", <<KCall("q", <<Vc>>)>>),
           KCall("q", <<KBin(",", Va, Vb), KSet("", Va, Vc)>>), KNode("call", "", <<Star(KVar("fp")), Vc>>), KNode("call", "", <<KVar("fp"), KConst("C", 6)>>)}
Stored == {KSet("", KVar("i"), e) : e \in {x \in AnyValue : KScalar(KDecay(KJudge([n \in {Many[k].name : k \in DOMAIN Many} |->
             [n |-> 0, t |-> (CHOOSE d \in {Many[k] : k \in DOMAIN Many} : d.name = n).t]], x).t))} \cup CallsOfAny}
  \cup {KSet("", Vp, KBin("+", Vv, K1)), KSet("+", Vp, K1), KSet("-", Vp, Vc), KStep("pre", "--", Vp), KStep("post", "--", Star(Vp)),
        KSet("", KVar("u"), Star(Vsp)), KSet("", KAt(KVar("w"), K1), KAt(KVar("w"), K0)), KSet("", KArrow(Vsp, 1), Vb),
        KSet("", KDot(KVar("u"), 2), KUn("&", Va)), KSet("", Star(KDot(KVar("u"), 2)), Vc), KSet("+", KDot(KAt(KVar("w"), K1), 3), Vb),
        KSet("", KAt(KAt(KVar("m"), K1), K0), Va), KSet("", Vp, K0), KSet("", Star(KVar("pp")), Vv), KSet("", Vsp, KVar("w")),
        KSet("", Vsp, KBin("+", KVar("w"), K1)), KStep("post", "++", Vsp), KStep("pre", "++", KDot(KVar("u"), 1)), KSet("+", Vc, K1)}
Enumerated == <<[s |-> "A", n |-> 0, said |-> FALSE], [s |-> "B", n |-> 5, said |-> TRUE], [s |-> "C", n |-> 6, said |-> FALSE]>>
Objects == {[KBody(Many, <<KExpr(e)>>) EXCEPT !.members = MemberTypes, !.consts = Enumerated] : e \in AnyValue \cup CallsOfAny \cup Stored}

(* K1 operator on operands of every kind: is it fine, doubtful or wrong?   *)
PairMembers == <<KInt, KChar>>
Pair == KStruct(PairMembers)
Kinds == <<KVars("a", KInt), KVars("c", KChar), KVars("b", KLong), KVars("p", KPointer(KInt)), KVars("s1", KPointer(KChar)),
           KVars("vp", KPointer(KVoid)), KVars("v", KArray(2, KInt)), KVars("u", Pair), KVars("sp", KPointer(Pair)),
           KVars("q", KFunction(<<>>, KInt))>>
KindNames == {KVar(Kinds[k].name) : k \in DOMAIN Kinds}
OperandsOfAll == (KindNames \ {KVar("q")}) \cup {K0, K1}
Alone(e) == [KBody(Kinds, <<e>>) EXCEPT !.members = PairMembers]
Mixed == {
   {Alone(KExpr(KBin(o, x, y))) : o \in {"+", "-", "*", "<<"}, x \in OperandsOfAll, y \in OperandsOfAll},
   {Alone(KExpr(KBin(o, x, y))) : o \in {"<", "==", "&&", ","}, x \in OperandsOfAll \cup KindNames, y \in OperandsOfAll \cup KindNames},
   {Alone(KExpr(KSet(o, x, y))) : o \in {"", "+", "*"}, x \in KindNames \cup {K0}, y \in OperandsOfAll},
   \* Of a structure and something else p1 makes the first.
   {Alone(KExpr(KCond(Va, x, y))) : <<x, y>> \in {z \in (OperandsOfAll \cup KindNames) \X OperandsOfAll : (z[1] = KVar("u")) = (z[2] = KVar("u"))}}}
Casts == {KInt, KChar, KLong, KPointer(KInt), KPointer(KChar)}
Tests(e) == {KIf(e, KAlone("empty")), KWhile(e, KAlone("break")), KDo(KAlone("break"), e), KFor(KNone, e, KNone, KAlone("break")),
             KSwitch(e, KAlone("break")), KFor(e, Va, e, KAlone("break"))}
\* A structure may be cast, and the address of the address of an array taken.
Single(e) == {KStep("pre", "++", e), KStep("post", "--", e), KUn("&", e), KUn("!", e), KCond(e, Va, Vb), KUn("&", Star(e)),
              KDot(e, 1), KArrow(e, 1), KNode("call", "", <<e>>), KNode("call", "", <<e, Va>>), KCast(KVoid, e), KVar("absent")}
SingleObject(e) == Single(e) \cup {KDot(e, 3), Star(e), KUn("-", e), KUn("~", e), KSizeof(e), KAt(e, Va), KAt(e, KVar("p")), Star(KAt(e, K1)),
                                   KSet("", KBin("+", e, K1), K1)}
                   \cup (IF e = KVar("u") THEN {} ELSE {KCast(t, e) : t \in Casts}) \cup (IF e = Vv THEN {} ELSE {KUn("&", KUn("&", e))})
OneOperand == {Alone(KExpr(e)) : e \in UNION {SingleObject(x) : x \in OperandsOfAll} \cup Single(KVar("q"))}
              \cup UNION {{Alone(s) : s \in Tests(x)} : x \in OperandsOfAll \cup KindNames}

(* Control: calls of t tell where it goes, those of q decide.               *)
Flow == <<KVars("a", KInt), KVars("c", KChar), KVars("p", KPointer(KInt)), KVars("q", KFunction(<<>>, KInt)), KVars("t", KFunction(<<>>, KVoid))>>
Tell(n) == KExpr(KCall("t", <<KNum(n)>>))
Ask == KCall("q", <<>>)
Steps == {Tell(2), KAlone("break"), KAlone("continue"), KReturn(KNone), KJump("goto", "x"), KIf(Ask, KAlone("break")),
          KIf(Ask, KBlock(<<Tell(3), KAlone("continue")>>)), KIfElse(Ask, Tell(3), KJump("goto", "y")), KAlone("empty")}
Lasts == {Tell(4), KIf(Ask, KAlone("continue")), KJump("goto", "y"), KIfElse(Ask, KReturn(KNone), KAlone("break"))}
Forms(x, y) == {KWhile(Ask, KBlock(<<x, y>>)), KDo(KBlock(<<x, y>>), Ask), KFor(KCall("t", <<KNum(5)>>), Ask, KCall("t", <<KNum(6)>>), KBlock(<<x, y>>)),
                KFor(KNone, KNone, KNone, KBlock(<<x, Tell(7), y>>)), KWhile(Ask, KIfElse(Ask, x, y)), KIfElse(Ask, x, y),
                KSwitch(Ask, KBlock(<<KCase(0, x), KCase(1, y), Tell(5), KCase(2, KAlone("break")), KDefault(Tell(6))>>)),
                KDo(KSwitch(Ask, KBlock(<<KDefault(x), KCase(2, Tell(7)), KCase(1, y)>>)), Ask)}
Flowing(s) == KBody(Flow, <<Tell(1), KLabel("x", s), KLabel("y", Tell(8)), KIf(Ask, KJump("goto", "x")), Tell(9)>>)
Flows == {Flowing(s) : s \in UNION {Forms(x, y) : x \in Steps, y \in Lasts}}
Askings == {K0, K1, KUn("!", Ask), KBin("&&", Ask, Ask), KBin("||", Ask, Ask), KCond(Ask, Ask, Ask), KBin(",", Ask, Ask), KSet("", Va, Ask),
               KStep("post", "--", Va), KStep("pre", "++", KVar("c")), KBin("<", Va, Ask), KVar("p"), KBin("==", KVar("p"), K0),
               KBin("&&", Ask, KBin("||", Ask, Ask)), KUn("!", KBin("&&", Ask, Va)), KBin("&", Va, Ask), KUn("!", KUn("!", KVar("c"))),
               KCond(KUn("!", Ask), KBin("<", Va, K1), KBin("||", Va, Ask)), KBin("&&", K0, Ask), KBin("||", K1, Ask), KUn("-", Ask)}
Tested == {Flowing(s) : s \in UNION {{KIf(c, Tell(2)), KIfElse(c, Tell(2), Tell(3)), KWhile(c, Tell(2)), KDo(Tell(2), c),
                                     KFor(KNone, c, KSet("+", Va, K1), Tell(2)), KExpr(c), KExpr(KSet("", Va, c)),
                                     KWhile(K1, KIf(c, KAlone("break")))} : c \in Askings \cup {Ask}}}
Cases == {KSwitch(e, KBlock(<<KCase(6, Tell(2)), KCase(0, KCase(1, KBlock(<<Tell(3), KAlone("break")>>))), KCase(31, Tell(4))>>)) :
             e \in {Va, KVar("c"), Ask, KCast(KT("uint"), Va), KBin("+", Va, K1)}}
  \cup {KSwitch(Ask, KWhile(Ask, KBlock(<<KCase(1, Tell(2)), KIf(Ask, KCase(0, Tell(3))), KDefault(Tell(4))>>))),
        KSwitch(Ask, KBlock(<<KCase(1, KSwitch(Ask, KBlock(<<KCase(1, Tell(2)), KDefault(KAlone("break"))>>))), KCase(0, Tell(3))>>)),
        KSwitch(Ask, KBlock(<<Tell(2), KDefault(Tell(3)), KCase(1, Tell(4))>>)), KSwitch(Ask, KCase(1, Tell(2))), KSwitch(Ask, Tell(2)),
        KCase(1, Tell(2)), KDefault(Tell(2)), KSwitch(Ask, KBlock(<<KDefault(Tell(2)), KDefault(Tell(3))>>)), KSwitch(Ask, KAlone("continue")),
        KJump("goto", "absent"), KWhile(Ask, KBlock(<<KLabel("z", Tell(2)), KIf(Ask, KJump("goto", "z")), KDo(KJump("goto", "y"), Ask)>>))}
Controls == {Flows, Tested, {Flowing(s) : s \in Cases}}

(* Declarators: of an object, an argument, a local variable, and of a name  *)
(* for a type that another goes on from.                                    *)
RECURSIVE Constructed(_, _)
Constructed(n, base) == IF n = 0 THEN {KT(base)} ELSE LET ts == Constructed(n - 1, base) IN {KPointer(t) : t \in ts} \cup {KArray(2, t) : t \in ts} \cup {KFunction(<<>>, t) : t \in ts}
\* A pointer to an array p1 lets no function return.
Constructeds(n, base) ==
  LET tree == UNION {Constructed(k, base) : k \in 0 .. n}
      returned(t) == \E j, k \in DOMAIN t : j + 1 < k /\ t[j].c = "()" /\ t[k].c = "[]" /\ \A i \in j + 1 .. k - 1 : t[i].c = "*"
  IN {t \in tree : ~returned(t)}
Vx == KVar("x")
Outside(t) == KBody(<<KVars("x", t)>>, <<KExpr(Vx)>>)
AsArgument(t, proto) == [KBody(<<>>, <<KExpr(Vx)>>) EXCEPT !.formals = <<KVars("a", KInt), KVars("x", t)>>, !.proto = proto]
Inside(t) == [KBody(<<>>, <<KLocal(1, "x", t), KExpr(Vx)>>) EXCEPT !.locals = <<t>>]
Renamed(s, t) == KBody(<<KDeclares("y", t, "typedef", <<>>), [KVars("x", s \o t) EXCEPT !.w = s \o KT("y")]>>, <<KExpr(Vx)>>)
\* An argument declared as a function is none, the elements of an array may
\* be void, and of what a name stands for p1 says nothing.
Declarators == {Outside(t) : t \in Constructeds(4, "int") \cup {u \in Constructeds(2, "void") : \A k \in DOMAIN u : u[k].c # "[]"}}
             \cup UNION {{AsArgument(t, TRUE), Inside(t)} : t \in Constructeds(3, "char")}
             \cup {AsArgument(t, FALSE) : t \in {u \in Constructeds(3, "char") : u[1].c # "()"}}
             \cup {Renamed(<<KCon(c)>>, t) : <<c, t>> \in {x \in {"*", "[]", "()"} \X Constructeds(2, "int") : x[1] = "*" \/ x[2][1].c \in {"int", "*"}}}

(* Scopes: an x in each of three, of different sizes, or not.               *)
LocalClasses == {"none", "", "static", "register", "auto"}
Scoped(n, cls, t) == IF cls = "none" THEN <<>> ELSE <<[KLocal(n, "x", t) EXCEPT !.o = cls]>>
Put(n) == <<KExpr(KSet("", Vx, KNum(n))), KExpr(KCall("t", <<Vx, KSizeof(Vx)>>))>>
Nest(c1, c2, c3, formal) ==
  [KBody(<<KVars("t", KFunction(<<>>, KVoid)), KVars("x", KInt)>>,
         Scoped(1, c1, KChar) \o Put(1)
           \o <<KBlock(Scoped(2, c2, KLong) \o Put(2) \o <<KBlock(Scoped(3, c3, IF c3 = "extern" THEN KInt ELSE KT("uchar")) \o Put(3))>> \o Put(4)
                       \o <<KBlock(Scoped(4, c3, KInt) \o Put(5))>>)>> \o Put(6))
     EXCEPT !.locals = <<KChar, KLong, KT("uchar"), KInt>>, !.formals = formal]
InScopes == {Nest(c1, c2, c3, <<>>) : c1 \in LocalClasses, c2 \in LocalClasses, c3 \in LocalClasses \cup {"extern"}}
           \cup {Nest(c1, c2, "none", <<KVars("x", KT("ulong"))>>) : c1 \in LocalClasses, c2 \in LocalClasses}

(* What objects hold first; members.                                        *)
Holding(t, e) == [KBody(<<KDeclares("x", t, "", <<e>>), KVars("a", KInt)>>, <<KExpr(KSet("", Va, KSizeof(Vx)))>>) EXCEPT !.members = PairMembers]
OneToN(n) == KBraces([k \in 1 .. n |-> KNum(k)])
ConstantValues == {KNum(7), KUn("-", K1), KBin("+", KNum(2), KNum(3)), KBin("*", KNum(4), KSizeOfType(KLong)), KCast(KChar, KNum(5)), KBin("<", K1, KNum(2)),
           KCond(K1, KNum(2), KNum(3)), KUn("~", KNum(5)), KBin("<<", K1, KNum(3)), KBin("-", KNum(3), KNum(9)), KBin("%", KNum(29), KNum(8))}
HoldingAny == {Holding(KT(c), e) : c \in Numbers, e \in {KNum(9), KUn("-", KNum(2))}} \cup {Holding(KInt, e) : e \in ConstantValues}
  \cup {Holding(KArray(n, KT(c)), OneToN(m)) : <<n, m, c>> \in {x \in {0, 1, 3} \X (1 .. 3) \X {"char", "int", "long"} : x[1] >= x[2] \/ x[1] = 0}}
  \cup {Holding(Pair, OneToN(n)) : n \in 1 .. 2} \cup {Holding(KArray(n, Pair), KBraces(<<OneToN(2), OneToN(1)>>)) : n \in {0, 2, 3}}
  \cup {Holding(KArray(n, KArray(3, KChar)), KBraces(<<OneToN(3), OneToN(2)>>)) : n \in {0, 2, 3}}
  \cup {Holding(KPointer(KInt), K0), Holding(KArray(2, KPointer(KChar)), KBraces(<<K0, K0>>))}
WithMember(t) == [KBody(<<KVars("x", KStruct(<<KChar, t>>)), KVars("a", KInt)>>, <<KExpr(KSet("", Va, KSizeof(KDot(Vx, 2)))), KExpr(KSet("", Va, KSizeof(Vx)))>>)
                EXCEPT !.members = <<KChar, t>>]
Membered == {WithMember(t) : t \in Constructeds(3, "long")}

(* Calls of functions whose arguments are known, and what is returned.      *)
Prototypes == {<<KVoid>>, <<KInt>>, <<KChar>>, <<KLong>>, <<KPointer(KInt)>>, <<KPointer(KVoid)>>, <<KInt, KLong>>, <<KT("uint"), KT("...")>>}
Arguments == {<<>>, <<Va>>, <<KVar("c")>>, <<Vb>>, <<Vp>>, <<K0>>, <<KVar("u")>>, <<Vv>>, <<Va, Vb>>, <<KVar("c"), KVar("c"), Vb>>}
Calling(as, es) ==
  [KBody(<<KVars("h", KFunction(<<as>>, KT("uint")))>> \o Kinds, <<KExpr(KSet("", Vb, KCall("h", es)))>>) EXCEPT !.members = PairMembers]
Returning(t, e) == [KBody(Kinds, <<KReturn(e)>>) EXCEPT !.members = PairMembers, !.ret = t]
Prototyped == {Calling(as, es) : as \in Prototypes, es \in Arguments}
           \cup {Returning(t, e) : t \in {KVoid, KInt, KChar, KLong, KPointer(KInt), KPointer(KVoid), KT("ulong")},
                                e \in {Va, KVar("c"), Vb, Vp, K0, KVar("u"), Vv, KVar("vp"), KNone, KUn("-", K1)}}
           \cup {Returning(Pair, KVar("u"))}

FrontPrograms == {Pairs, Assigned, Grouped, Objects, OneOperand, Declarators, InScopes, HoldingAny, Membered, Prototyped} \cup Mixed \cup Controls
FrontRuns == {[vals |-> Stores[k], q |-> Oracles[k]] : k \in DOMAIN Stores}
=============================================================================
