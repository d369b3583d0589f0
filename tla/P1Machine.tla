------------------------------ MODULE P1Machine ------------------------------
(* The meaning of the code p1 writes, as the code generator has to take it: *)
(* names are what the last variable written in an open scope says, operands *)
(* have one type, conditions are truth values, a jump goes to its label.    *)
(* Nothing here is a translation of p1 either.                              *)
EXTENDS P1Stmt, P1Book

----------------------------------------------------------------------------
(* Types and names.                                                         *)
DTName(d) == CHOOSE n \in DOMAIN DT : DT[n] = d
RECURSIVE Expand(_, _), DimensionOf(_, _)
Expand(P, a) ==
  LET under == [a EXCEPT !.node = "sym", !.ex = <<>>, !.args = <<>>]
  IN CASE a.node = "func" -> KFunction(IF a.args = <<>> THEN <<>> ELSE <<[k \in DOMAIN a.args[1] |-> Expand(P, a.args[1][k])]>>, Expand(P, under))
       [] a.node = "expr" -> KArray(IF a.ex = <<>> THEN 0 ELSE DimensionOf(P, a.ex[1]), Expand(P, under))
       [] a.node = "sym" /\ a.ind > 0 -> KPointer(Expand(P, [a EXCEPT !.ind = @ - 1]))
       [] a.node = "sym" /\ a.ind = 0 /\ a.ty = DT.complex -> Expand(P, P.syms[a.next].at)
       [] a.node = "sym" /\ a.ind = 0 /\ a.ty \in {DT.struct, DT.union} ->
            LET ms == IF a.next = 0 THEN <<>> ELSE Members(P.syms, a.next, P.syms[a.next].mem)
            IN KStruct([k \in DOMAIN ms |-> Expand(P, P.syms[ms[k]].at)])
       [] OTHER -> KType(DTName(a.ty))
\* The arguments of a function are not written.
MBare(t) == [k \in DOMAIN t |-> IF t[k].c = "()" THEN KCon("()") ELSE t[k]]
MSame(s, t) == MBare(s) = MBare(t)
MName(P, s) == IF "temp" \in P.syms[s].fl THEN <<"", s>> ELSE <<P.syms[s].name, 0>>

\* The object a variable written at k is: the one written first.
MObject(P, k) ==
  LET s == P.code[k].s
      outer(j) == P.syms[j].cls = "extern" /\ P.syms[s].cls = "extern" /\ P.syms[j].name = P.syms[s].name
  IN SelectInSeq(P.code, LAMBDA i : i.k = "v" /\ (i.s = s \/ outer(i.s)))
\* What the names are at each place of the code: scopes begin and end.
MScopes(P, ts) ==
  LET entry(k) == LET n == MObject(P, k) IN MName(P, P.code[k].s) :> [n |-> n, t |-> ts[n]]
      next(C, k) == CASE P.code[k].k = "{" -> <<Head(C)>> \o C [] P.code[k].k = "}" -> Tail(C)
                      [] P.code[k].k = "v" -> <<entry(k) @@ Head(C)>> \o Tail(C) [] OTHER -> C
      step(A, k) == LET C == next(A.open, k) IN [open |-> C, at |-> Append(A.at, Head(C))]
  IN FoldLeft(step, [open |-> << <<>> >>, at |-> <<>>], [k \in DOMAIN P.code |-> k]).at
MConstant(P, s) == P.code[SelectInSeq(P.code, LAMBDA i : i.k = "k" /\ i.s = s)].n

----------------------------------------------------------------------------
(* Trees.  What has no meaning is bad.                                      *)
MAssigns == ("=" :> "") @@ ("=+" :> "+") @@ ("=-" :> "-") @@ ("=*" :> "*") @@ ("=/" :> "/") @@ ("=%" :> "%") @@ ("=&" :> "&")
            @@ ("=|" :> "|") @@ ("=^" :> "^") @@ ("=<<" :> "<<") @@ ("=>>" :> ">>") @@ ("++" :> "+") @@ ("--" :> "-")
MBool == KType("bool")
MUnless(S, b) == IF b \/ S.stop THEN S ELSE KBad(S)
MCombine(S, o, a, s, b, t) ==
  CASE o \in KCompares /\ (MSame(s, t) \/ (KIs(s, "*") /\ KIs(t, "*") /\ (KVoidPointer(s) \/ KVoidPointer(t)))) -> KResult(S, KDoes(o, s, a, b), MBool)
    [] MSame(s, t) /\ KWhole(s) /\ o \notin KCompares -> KResult(S, KDoes(o, s, a, b), s)
    [] KIs(s, "*") /\ KIs(t, "const") /\ o \in {"+", "-"} -> KGot(S, IF o = "+" THEN a + b ELSE a - b, s)
    [] KIs(s, "*") /\ KIs(t, "uconst") /\ o \in {"+", "-"} -> KGot(S, IF o = "+" THEN a + b ELSE a - b, s)
    [] o \in {"<<", ">>"} /\ KWhole(s) /\ KWhole(t) -> KResult(S, KDoes(o, s, a, b), s)
    [] OTHER -> KBad(S)
RECURSIVE MV(_, _, _), ML(_, _, _), MList(_, _, _)
ML(P, S, e) ==
  LET under(Q) == IF KIs(Q.t, "*") THEN [Q EXCEPT !.t = Tail(@)] ELSE KBad(Q)
      n == e.kids[2].v + 1
      member(Q) == IF KIs(Q.t, "struct") THEN [Q EXCEPT !.v = @ + KOffset(Q.t, n), !.t = @[1].as[n]] ELSE KBad(Q)
      name == MName(P, e.sy)
  IN CASE e.op = "id" -> IF name \in DOMAIN S.env THEN [S EXCEPT !.v = KApart * S.env[name].n, !.t = S.env[name].t] ELSE KBad(S)
       [] e.op = "*U" -> under(MV(P, S, e.kids[1]))
       [] e.op = "." -> member(ML(P, S, e.kids[1]))
       [] OTHER -> KBad(S)
\* The arguments, in a list that goes on to the left.
MList(P, S, e) ==
  LET one(A, Q) == [to |-> Q, args |-> Append(A.args, KPiece(Q))]
      last(A) == one(A, MV(P, A.to, e.kids[2]))
  IN CASE e.op = ".." -> [to |-> S, args |-> <<>>] [] e.op = "," -> last(MList(P, S, e.kids[1]))
       [] OTHER -> one([to |-> S, args |-> <<>>], MV(P, S, e))
\* A value for an object of type t: one of its type, or any with an operator.
MFit(Q, o, t) == MUnless(Q, IF o = "" THEN MSame(Q.t, t) ELSE KScalar(t))
MPut(Q, old, o, R, before) ==
  KAfter(KStore(IF o = "" \/ KOver(R) THEN MFit(R, o, Q.t) ELSE MCombine(R, o, old.v, Q.t, R.v, R.t), Q.v, Q.t), old.v, before)
MAssignTo(P, Q, old, o, value, before) == MPut(Q, old, o, MV(P, old, value), before)
MAssignAt(P, Q, o, e) ==
  IF KOver(Q) THEN Q ELSE MAssignTo(P, Q, IF o = "" THEN Q ELSE KLoad(Q), o, e.kids[2], e.op \in {"++", "--"})
MAssign(P, S, e) == MAssignAt(P, ML(P, S, e.kids[1]), MAssigns[e.op], e)
MBoth(L, o, R) == IF KOver(R) THEN R ELSE MCombine(R, o, L.v, L.t, R.v, R.t)
MRight(P, L, o, b) == MBoth(L, o, MV(P, L, b))
MConverted(Q, to) == MUnless(KGot(Q, Q.v, to), KIs(to, "void") \/ KScalar(Q.t))
MCalledAt(P, Q, b) == IF KOver(Q) THEN Q ELSE IF KIs(Q.t, "()") THEN KCallOf(MList(P, Q, b), Q) ELSE KBad(Q)
MV(P, S, e) ==
  LET a == e.kids[1]
      b == e.kids[2]
      load(Q) == MUnless(KLoad(Q), ~KIs(Q.t, "[]") /\ ~KIs(Q.t, "()"))
      address(Q) == [Q EXCEPT !.t = KPointer(IF KIs(@, "[]") THEN Tail(@) ELSE @)]
      bool(Q) == MUnless(Q, Q.t = MBool)
      shortly(Q) == IF KOver(Q) \/ (Q.v # 0) = (e.op = "||") THEN Q ELSE bool(MV(P, Q, b))
      chosen(Q) == IF KOver(Q) THEN Q ELSE MV(P, Q, b.kids[IF Q.v # 0 THEN 1 ELSE 2])
      signed(Q) == MUnless(KGot(Q, IF e.op = "-U" THEN -Q.v ELSE -Q.v - 1, Q.t), KWhole(Q.t))
      \* A type is written without its dimension.
      size == IF a.op = "stype" THEN KSize(Expand(P, [a.at EXCEPT !.node = "sym"])) ELSE KSize(ML(P, S, a).t)
  IN CASE KOver(S) -> S
       [] e.op \in {"iconst", "lconst"} -> KGot(S, e.v, Expand(P, e.at))
       [] e.op = "id" /\ P.syms[e.sy].cls = "const" -> KGot(S, MConstant(P, e.sy), KType("enum"))
       [] e.op \in {"*U", "."} \/ (e.op = "id" /\ P.syms[e.sy].cls # "const") -> load(ML(P, S, e))
       [] e.op = "&U" -> address(ML(P, S, a))
       [] e.op = "!" -> LET Q == bool(MV(P, S, a)) IN [Q EXCEPT !.v = 1 - @]
       [] e.op \in {"-U", "~"} -> signed(MV(P, S, a))
       [] e.op = "cv" -> MConverted(MV(P, S, a), Expand(P, b.at))
       [] e.op = "#" -> KGot(S, size, KInt)
       [] e.op = "seq" -> MV(P, MV(P, S, a), b)
       [] e.op \in {"&&", "||"} -> shortly(bool(MV(P, S, a)))
       [] e.op = "?" -> chosen(bool(MV(P, S, a)))
       [] e.op = "func" -> MCalledAt(P, ML(P, S, a), b)
       [] e.op \in DOMAIN MAssigns -> MAssign(P, S, e)
       [] e.op \in {"null", "sconst", "fconst", "stype", "memid", ":", "..", ","} -> KBad(S)
       [] OTHER -> MRight(P, MV(P, S, a), e.op, b)
MEmpty == KState(<<>>, <<>>, <<>>, <<>>, <<>>, 0)
DimensionOf(P, e) == MV(P, MEmpty, e).v

----------------------------------------------------------------------------
(* Running it, from item i on.                                              *)
LabelAt(P, n) == SelectInSeq(P.code, LAMBDA i : i.k = "l" /\ i.n = n)
\* The cases of the switch that ends at i.
CasesOf(P, i) ==
  LET first == 1 + SelectLastInSubSeq(P.code, 1, i - 1, LAMBDA x : x.k # "of") IN [k \in 1 .. i - first |-> P.code[first + k - 1]]
RECURSIVE MRun(_, _, _, _)
\* A jump to label n, or on when that is 0.
MOn(P, scopes, S, i, n) ==
  IF n = 0 THEN MRun(P, scopes, S, i + 1) ELSE IF LabelAt(P, n) = 0 THEN KBad(S) ELSE MRun(P, scopes, S, LabelAt(P, n))
MPicked(P, S, i) == SelectInSeq(CasesOf(P, i), LAMBDA c : LET V == MV(P, S, c.x) IN V.v = S.v /\ V.t = S.t)
\* Where it goes after an item whose expression came to Q.
MGoes(P, i, Q) ==
  LET e == P.code[i].x
      to(n) == IF n = 0 THEN P.code[i].n ELSE CasesOf(P, i)[n].n
  IN IF P.code[i].k = "case" THEN IF KOver(Q) THEN 0 ELSE to(MPicked(P, Q, i))
     ELSE IF P.code[i].k # "e" THEN 0
     ELSE IF e.op = "$U" THEN e.kids[1].v ELSE IF e.op = "$" /\ Q.v = 1 THEN e.kids[2].v ELSE 0
\* What it leaves.
MLeaves(P, S, i, Q) ==
  LET e == P.code[i].x
  IN IF P.code[i].k \notin {"e", "case"} THEN S
     ELSE IF P.code[i].k = "case" THEN Q
     ELSE CASE e.op = "$U" -> S
            [] e.op = "$" -> MUnless(Q, Q.t = MBool)
            [] e.op = "ret" -> MUnless([Q EXCEPT !.ret = KBack(Q)], MSame(Q.t, S.rt))
            [] OTHER -> Q
MNext(P, scopes, i, Q) == IF KOver(Q) THEN Q ELSE MOn(P, scopes, Q, i, MGoes(P, i, Q))
MAt(P, scopes, S, i) ==
  LET x(e) == IF e.op \in {"$", "ret"} THEN e.kids[1] ELSE e
  IN MNext(P, scopes, i, MLeaves(P, S, i, MV(P, S, x(P.code[i].x))))
MRun(P, scopes, S, i) ==
  IF KOver(S) \/ i > Len(P.code) THEN S
  ELSE IF S.fuel = 0 THEN KBad(S) ELSE MAt(P, scopes, [S EXCEPT !.env = scopes[i], !.fuel = @ - 1], i)
\* The values an initialiser gives: those of the object of type t from item i on.
RECURSIVE MGives(_, _, _, _, _), MParts(_, _, _, _, _, _)
MParts(P, i, t, base, k, w) ==
  LET part == IF KIs(t, "[]") THEN Tail(t) ELSE t[1].as[k]
      off == IF KIs(t, "[]") THEN (k - 1) * KSize(part) ELSE KOffset(t, k)
      next(G) == MParts(P, G.i, t, base, k + 1, w \o G.w)
  IN IF P.code[i].k = ".." THEN [i |-> i + 1, w |-> w, n |-> k - 1] ELSE next(MGives(P, i, part, base + off, KIs(t, "struct")))
MGives(P, i, t, base, whole) ==
  LET twice == KIs(t, "struct") /\ whole
      inner == MParts(P, IF twice THEN i + 2 ELSE i + 1, t, base, 1, <<>>)
  IN IF KScalar(t) THEN [i |-> i + 1, n |-> 1, w |-> <<<<base, KFit(t, MV(P, MEmpty, P.code[i].x).v)>>>>]
     ELSE IF twice THEN [inner EXCEPT !.i = @ + 1] ELSE inner
\* The types of the variables written, at their places: an array of no
\* length has that of its initialiser.
MSized(P, t, i) == IF KIs(t, "[]") /\ t[1].n = 0 /\ i > 0 THEN KArray(MGives(P, i + 1, t, 0, TRUE).n, Tail(t)) ELSE t
MTypes(P) ==
  LET held(s) == SelectInSeq(P.code, LAMBDA i : i.k = "[i" /\ i.s = s)
  IN [k \in DOMAIN P.code |-> IF P.code[k].k = "v" /\ MObject(P, k) = k
                               THEN MSized(P, Expand(P, P.syms[P.code[k].s].at), held(P.code[k].s)) ELSE KType("void")]
\* What the initialiser at k gives the object n, of type t.
MHeld(P, k, n, t) == KZeros(t, KApart * n) \o MGives(P, k + 1, t, KApart * n, TRUE).w
MInitials(P, ts) ==
  LET starts == SelectSeq([k \in DOMAIN P.code |-> k], LAMBDA k : P.code[k].k = "[i")
      object(k) == SelectInSeq(P.code, LAMBDA v : v.k = "v" /\ v.s = P.code[k].s)
  IN FlattenSeq([n \in DOMAIN starts |-> MHeld(P, starts[n], object(starts[n]), ts[object(starts[n])])])

MStart(P) == SelectInSeq(P.code, LAMBDA i : i.k = "fn")
\* What the function in P's code does when it is called as the book's is:
\* own are the types of the variables written, ts those of the book.
MPlaced(P, own, scopes, names, ts, places) ==
  KPlaces(own \o ts, places, ts, names, <<>>, MInitials(P, own))
    @@ [scopes |-> scopes,
        \* A variable not written is not used.
        agree |-> \A k \in DOMAIN ts : places[k] <= Len(P.code) => MSame(own[places[k]], ts[k])]
MWorldOf(P, g, own, scopes, names, ts) ==
  LET in(k) == scopes[IF k > Len(KOuter(g)) THEN MStart(P) ELSE Len(P.code)]
      place(C, name, k) == IF name \in DOMAIN C THEN C[name].n ELSE Len(P.code) + k
  IN MPlaced(P, own, scopes, names, ts, [k \in DOMAIN ts |-> place(in(k), <<names[k], 0>>, k)])
MWorldIn(P, g, own) == MWorldOf(P, g, own, MScopes(P, own), KNames(g), KTypes(g))
MWorld(P, g) == MWorldIn(P, g, MTypes(P))
MRunIn(P, W, g, vals, q, fuel) == KOutcome(MRun(P, W.scopes, KStart(W, vals, q, fuel, g.ret), MStart(P)), W)
=============================================================================
