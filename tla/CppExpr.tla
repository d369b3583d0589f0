------------------------------ MODULE CppExpr ------------------------------
(* The expressions of #if and #elif: the parser that yacc made of cpy.y,    *)
(* with its tables and its actions, and the scanner it calls (yylex).       *)
EXTENDS CppScan

YYLAST == 363
YYFLAG == -1000
YYMAXDEPTH == 150
yyexca == <<-1, 1, 0, -1, -2, 0, -1, 44, 262, 0, 263, 0, 60, 0, 62, 0, -2, 9, -1, 45, 262, 0, 263, 0, 60, 0, 62,
  0, -2, 10, -1, 46, 262, 0, 263, 0, 60, 0, 62, 0, -2, 11, -1, 47, 262, 0, 263, 0, 60, 0, 62, 0, -2, 12, -1, 48,
  260, 0, 261, 0, -2, 13, -1, 49, 260, 0, 261, 0, -2, 14>>
yyact == <<13, 24, 35, 58, 13, 11, 14, 30, 15, 11, 12, 60, 13, 24, 12, 1, 57, 11, 14, 30, 15, 59, 12, 18, 13,
  19, 29, 0, 0, 11, 14, 0, 15, 0, 12, 18, 3, 19, 29, 13, 24, 31, 32, 33, 11, 14, 30, 15, 0, 12, 13, 24, 0, 0, 0,
  11, 14, 25, 15, 5, 12, 0, 18, 0, 19, 29, 7, 0, 0, 25, 0, 4, 0, 18, 0, 19, 29, 0, 13, 24, 0, 0, 0, 11, 14, 0,
  15, 26, 12, 0, 0, 0, 13, 24, 0, 0, 25, 11, 14, 26, 15, 18, 12, 19, 13, 24, 0, 25, 0, 11, 14, 0, 15, 13, 12,
  18, 0, 19, 11, 14, 0, 15, 0, 12, 0, 0, 26, 18, 0, 19, 0, 0, 0, 0, 13, 25, 18, 26, 19, 11, 14, 0, 15, 0, 12,
  13, 0, 0, 0, 25, 11, 14, 6, 15, 0, 12, 0, 18, 0, 19, 0, 0, 0, 0, 0, 26, 0, 0, 0, 0, 0, 0, 2, 0, 0, 0, 0, 0, 0,
  26, 34, 0, 0, 0, 37, 38, 39, 40, 41, 42, 43, 44, 45, 46, 47, 48, 49, 50, 51, 52, 53, 54, 55, 56, 0, 0, 0, 0,
  0, 0, 0, 0, 0, 0, 0, 0, 0, 0, 0, 36, 0, 0, 0, 22, 23, 20, 21, 16, 17, 27, 28, 0, 61, 0, 0, 22, 23, 20, 21, 16,
  17, 27, 28, 0, 0, 0, 0, 0, 0, 0, 0, 16, 17, 0, 0, 0, 0, 0, 0, 0, 10, 0, 22, 23, 20, 21, 16, 17, 27, 28, 0, 0,
  0, 22, 23, 20, 21, 16, 17, 27, 28, 0, 0, 9, 0, 8, 0, 0, 0, 0, 0, 0, 0, 0, 0, 0, 0, 0, 0, 0, 0, 22, 23, 20, 21,
  16, 17, 27, 0, 0, 0, 0, 0, 0, 0, 22, 23, 20, 21, 16, 17, 0, 0, 0, 0, 0, 0, 22, 23, 20, 21, 16, 17, 0, 0, 0,
  22, 23, 20, 21, 16, 17, 0, 0, 0, 0, 0, 0, 0, 0, 0, 0, 0, 0, 0, 0, 0, 0, 0, 20, 21, 16, 17>>
yypact == <<26, -1000, 2, -1000, 26, 26, 26, 26, -38, -1000, -1000, 26, 26, 26, 26, 26, 26, 26, 26, 26, 26, 26,
  26, 26, 26, 26, 26, 26, 26, 26, 26, -1000, -1000, -1000, -25, -254, -1000, -1000, -1000, -1000, -33, -33, 108,
  108, -13, -13, -13, -13, 97, 97, 76, 67, 67, 55, 41, -37, 13, -1000, -30, 26, -1000, 13>>
yypgo == <<0, 15, 172, 36>>
yyr1 == <<0, 1, 2, 2, 2, 2, 2, 2, 2, 2, 2, 2, 2, 2, 2, 2, 2, 2, 2, 2, 2, 2, 2, 3, 3, 3, 3, 3, 3, 3>>
yyr2 == <<0, 2, 3, 3, 3, 3, 3, 3, 3, 3, 3, 3, 3, 3, 3, 3, 3, 3, 3, 3, 5, 3, 1, 2, 2, 2, 3, 4, 2, 1>>
yychk == <<-1000, -1, -2, -3, 45, 33, 126, 40, 259, 257, 258, 42, 47, 37, 43, 45, 264, 265, 60, 62, 262, 263,
  260, 261, 38, 94, 124, 266, 267, 63, 44, -3, -3, -3, -2, 40, 257, -2, -2, -2, -2, -2, -2, -2, -2, -2, -2, -2,
  -2, -2, -2, -2, -2, -2, -2, -2, -2, 41, 257, 58, 41, -2>>
yydef == <<0, -2, 0, 22, 0, 0, 0, 0, 0, 29, 1, 0, 0, 0, 0, 0, 0, 0, 0, 0, 0, 0, 0, 0, 0, 0, 0, 0, 0, 0, 0, 23,
  24, 25, 0, 0, 28, 2, 3, 4, 5, 6, 7, 8, -2, -2, -2, -2, -2, -2, 15, 16, 17, 18, 19, 0, 21, 26, 0, 0, 27, 20>>
At(table, k) == table[k + 1]

\* What the scanner tells the parser: the kind of token, and its value.
number == 257
stop == 258
DEFINED == 259
Codes ==
  [s \in {"("} |-> 40] @@ (")" :> 41) @@ ("!" :> 33) @@ ("%" :> 37) @@ ("&" :> 38) @@ ("*" :> 42)
    @@ ("+" :> 43) @@ ("," :> 44) @@ ("-" :> 45) @@ ("/" :> 47) @@ (":" :> 58) @@ ("<" :> 60)
    @@ (">" :> 62) @@ ("?" :> 63) @@ ("^" :> 94) @@ ("|" :> 124) @@ ("~" :> 126) @@ ("==" :> 260)
    @@ ("!=" :> 261) @@ ("<=" :> 262) @@ (">=" :> 263) @@ ("<<" :> 264) @@ (">>" :> 265)
    @@ ("&&" :> 266) @@ ("||" :> 267)
Lexed(S, code, val) == [S |-> [S EXCEPT !.pend = <<>>, !.tok = <<>>], code |-> code, val |-> val]
\* After defined the next name is taken as it is: flslvl is one more till then.
AsItIs(S) == IF S.ifdef THEN [Lower(S) EXCEPT !.ifdef = FALSE] ELSE S
Name(S, x) == Lexed(AsItIs(S), number, IF Defined(S, x) THEN 1 ELSE 0)
RECURSIVE Yylex(_, _)
Lexeme(S, x, lval) ==
  CASE S.over \/ x.t = "nl" -> [S |-> S, code |-> stop, val |-> lval]
    [] x.t = "op" /\ x.s \in DOMAIN Codes -> Lexed(S, Codes[x.s], lval)
    [] x.t = "num" -> Lexed(S, number, x.v)
    [] x.t = "id" /\ x.s = "defined" -> Lexed([Raise(S) EXCEPT !.ifdef = TRUE], DEFINED, lval)
    [] x.t = "id" /\ x.s # "defined" -> Name(S, x)
    [] x.t = "esc" -> Yylex(S, lval)
    [] OTHER -> Yylex(Error(S, "Illegal character"), lval)
LexemeOf(S, lval) == Lexeme(S, IF S.over THEN Nl ELSE Head(S.tok), lval)
Yylex(S, lval) == LexemeOf(Skipbl(S), lval)

\* Integers on which the operators on bits work: those of one byte.
Byte == 256
Signed(n) == IF n % Byte >= Byte \div 2 THEN (n % Byte) - Byte ELSE n % Byte
Bitwise(op(_, _), x, y) ==
  LET bit(n, k) == (n \div 2 ^ k) % 2
      f[k \in 0 .. 8] == IF k = 8 THEN 0 ELSE 2 ^ k * op(bit(x % Byte, k), bit(y % Byte, k)) + f[k + 1]
  IN Signed(f[0])
Truth(b) == IF b THEN 1 ELSE 0
Abs(n) == IF n < 0 THEN -n ELSE n
Quotient(x, y) == IF (x < 0) = (y < 0) THEN Abs(x) \div Abs(y) ELSE -(Abs(x) \div Abs(y))
DivideByZero(n, v) == n \in {3, 4} /\ v[3] = 0
\* For comparison: subtraction takes its operands the wrong way round.
ActionSwapped(n, v) == IF n = 6 THEN v[3] - v[1] ELSE IF Len(v) = 0 THEN 0 ELSE v[Len(v)]
\* The action of rule n, with the values of its right side.
Action(n, v) ==
  CASE n \in {3, 4} /\ v[3] = 0 -> 0
    [] n = 2 -> v[1] * v[3]
    [] n = 3 /\ v[3] # 0 -> Quotient(v[1], v[3])
    [] n = 4 /\ v[3] # 0 -> v[1] - v[3] * Quotient(v[1], v[3])
    [] n = 5 -> v[1] + v[3]
    [] n = 6 -> v[1] - v[3]
    [] n = 7 -> v[1] * 2 ^ v[3]
    [] n = 8 -> v[1] \div 2 ^ v[3]
    [] n = 9 -> Truth(v[1] < v[3])
    [] n = 10 -> Truth(v[1] > v[3])
    [] n = 11 -> Truth(v[1] <= v[3])
    [] n = 12 -> Truth(v[1] >= v[3])
    [] n = 13 -> Truth(v[1] = v[3])
    [] n = 14 -> Truth(v[1] # v[3])
    [] n = 15 -> Bitwise(LAMBDA a, b : a * b, v[1], v[3])
    [] n = 16 -> Bitwise(LAMBDA a, b : (a + b) % 2, v[1], v[3])
    [] n = 17 -> Bitwise(LAMBDA a, b : Truth(a + b > 0), v[1], v[3])
    [] n = 18 -> Truth(v[1] # 0 /\ v[3] # 0)
    [] n = 19 -> Truth(v[1] # 0 \/ v[3] # 0)
    [] n = 20 -> IF v[1] # 0 THEN v[3] ELSE v[5]
    [] n = 21 -> v[3]
    [] n = 22 -> v[1]
    [] n = 23 -> -v[2]
    [] n = 24 -> Truth(v[2] = 0)
    [] n = 25 -> -v[2] - 1
    [] n = 26 -> v[2]
    [] n = 27 -> v[3]
    [] n = 28 -> v[2]
    [] n = 29 -> v[1]

(* yyparse: states and their values on a stack; ch is the token looked at,  *)
(* -1 when there is none.  There is no rule for errors: the first one ends  *)
(* the parse with 1, which control takes for a condition that holds.        *)
Result(y, v) == [S |-> y.S, v |-> v]
Push1(y, state, val) == [y EXCEPT !.states = Append(@, state), !.vals = Append(@, val)]
Looked(y, l) == [y EXCEPT !.S = l.S, !.ch = l.code, !.lval = l.val]
Look(y) == IF y.ch >= 0 THEN y ELSE Looked(y, Yylex(y.S, y.lval))
Shifted(n, ch) == IF n >= 0 /\ n < YYLAST /\ At(yychk, At(yyact, n)) = ch THEN At(yyact, n) ELSE -1
ShiftAt(state, ch) == IF At(yypact, state) > YYFLAG THEN Shifted(At(yypact, state) + ch, ch) ELSE -1
ExceptionAt(start, ch) ==
  LET stops == {k \in start + 2 .. Len(yyexca) : k % 2 = 1 /\ (yyexca[k] < 0 \/ yyexca[k] = ch)}
  IN yyexca[(CHOOSE k \in stops : \A j \in stops : k <= j) + 1]
Exception(state, ch) ==
  ExceptionAt(CHOOSE k \in DOMAIN yyexca : k % 2 = 1 /\ yyexca[k] = -1 /\ yyexca[k + 1] = state, ch)
Default(n, state, ch) == IF n = -2 THEN Exception(state, ch) ELSE n
GotoAt(j, go, nonterminal) ==
  IF j >= YYLAST \/ At(yychk, At(yyact, j)) # -nonterminal THEN At(yyact, go) ELSE At(yyact, j)
Goto(nonterminal, state) ==
  GotoAt(At(yypgo, nonterminal) + state + 1, At(yypgo, nonterminal), nonterminal)
RECURSIVE Yynewstate(_)
Popped(y, size) == [y EXCEPT !.states = SubSeq(@, 1, Len(@) - size), !.vals = SubSeq(@, 1, Len(@) - size)]
Divided(y, n, v) == IF DivideByZero(n, v) THEN [y EXCEPT !.S = Error(@, "division by zero")] ELSE y
ReduceBy(y, n, v) ==
  IF n = 1 THEN Result(y, v[1])
  ELSE Yynewstate(Push1(y, Goto(At(yyr1, n), Last(y.states)), Action(n, v)))
Reduce(y, n, v) == ReduceBy(Popped(Divided(y, n, v), Len(v)), n, v)
Act(y, next, n) ==
  IF next >= 0 THEN Yynewstate([Push1(y, next, y.lval) EXCEPT !.ch = -1])
  ELSE IF n < 0 THEN Result(y, 0)
  ELSE IF n = 0 THEN Result([y EXCEPT !.S = Error(@, "syntax error")], 1)
  ELSE Reduce(y, n, SubSeq(y.vals, Len(y.vals) - At(yyr2, n) + 1, Len(y.vals)))
Decide(y, state) == Act(y, ShiftAt(state, y.ch), Default(At(yydef, state), state, y.ch))
Yynewstate(y) ==
  LET state == Last(y.states)
      looks == At(yypact, state) > YYFLAG \/ At(yydef, state) = -2
  IN IF Len(y.states) > YYMAXDEPTH THEN Result([y EXCEPT !.S = Error(@, "yacc stack overflow")], 1)
     ELSE Decide(IF looks THEN Look(y) ELSE y, state)
Yyparse(S) == Yynewstate([S |-> S, states |-> <<0>>, vals |-> <<0>>, ch |-> -1, lval |-> 0])
=============================================================================
