------------------------------ MODULE CppBook ------------------------------
(* What the preprocessor is to make of a source, said as the books on C say *)
(* it: conditionals by a stack, macros by expanding the actuals and then    *)
(* the body, expressions by the precedence of their operators.  Nothing     *)
(* here is a translation of the program: it is what the program is compared *)
(* with.                                                                    *)
EXTENDS CppExpr

BLine(ts) == LET n == SelectInSeq(ts, LAMBDA x : x.t = "nl") IN SubSeq(ts, 1, n - 1)
BAfter(ts) == SubSeq(ts, SelectInSeq(ts, LAMBDA x : x.t = "nl") + 1, Len(ts))
BWords(ts) == SelectSeq(ts, LAMBDA x : x.t \notin {"sp", "com", "esc", "nl"})
\* Up to the next control line.
BText(ts) ==
  LET ends == {k \in DOMAIN ts : ts[k].t = "#" /\ (k = 1 \/ ts[k - 1].t = "nl")}
  IN IF ends = {} THEN ts ELSE SubSeq(ts, 1, (CHOOSE k \in ends : \A j \in ends : k <= j) - 1)

(* Macros.  hide: the names being expanded; meeting one is a loop.          *)
BClose(ts) ==
  LET depth(k) == Cardinality({j \in 1 .. k : Is(ts[j], "(")}) - Cardinality({j \in 1 .. k : Is(ts[j], ")")})
  IN CHOOSE k \in DOMAIN ts : depth(k) = 0 /\ \A j \in 1 .. k - 1 : depth(j) # 0
BActuals(ts) ==
  LET depth(k) == Cardinality({j \in 1 .. k : Is(ts[j], "(")}) - Cardinality({j \in 1 .. k : Is(ts[j], ")")})
      cuts == SetToSortSeq({k \in DOMAIN ts : Is(ts[k], ",") /\ depth(k) = 0} \cup {0, Len(ts) + 1}, <)
  IN [k \in 1 .. Len(cuts) - 1 |-> SubSeq(ts, cuts[k] + 1, cuts[k + 1] - 1)]
\* In a string a formal is the actual as it is written.
BFill(body, ready, written) ==
  FlattenSeq([k \in DOMAIN body |->
    IF body[k].t = "par" THEN ready[body[k].v]
    ELSE <<[body[k] EXCEPT !.in = FlattenSeq([j \in DOMAIN @ |-> IF @[j].t = "par" THEN written[@[j].v] ELSE <<@[j]>>])]>>])
RECURSIVE BExpand(_, _, _)
BExpand(ts, defs, hide) ==
  IF ts = <<>> THEN <<>>
  ELSE LET x == Head(ts)
           after == Tail(ts)
       IN IF x.t # "id" \/ x.s \notin DOMAIN defs THEN <<x>> \o BExpand(after, defs, hide)
          ELSE IF x.s \in hide THEN <<Token("loop", x.s, 0)>>
          ELSE IF x.s = "__LINE__" THEN <<Token("num", "", x.at[2])>> \o BExpand(after, defs, hide)
          ELSE IF x.s = "__FILE__" THEN <<Token("str", x.at[1], 0)>> \o BExpand(after, defs, hide)
          ELSE IF defs[x.s].ps = 0
          THEN BExpand(defs[x.s].body, defs, hide \cup {x.s}) \o BExpand(after, defs, hide)
          ELSE LET n == BClose(after)
                   actuals == BActuals(SubSeq(after, 2, n - 1))
                   ready == [k \in DOMAIN actuals |-> BExpand(actuals[k], defs, hide)]
                   wrong == IF Len(actuals) # (IF defs[x.s].ps = -1 THEN 1 ELSE defs[x.s].ps)
                            THEN <<Token("mismatch", x.s, 0)>> ELSE <<>>
               IN IF wrong # <<>> THEN wrong
                  ELSE BExpand(BFill(defs[x.s].body, ready, actuals), defs, hide \cup {x.s})
                       \o BExpand(SubSeq(after, n + 1, Len(after)), defs, hide)

(* Expressions, each operator with how tightly it binds.                    *)
BTight ==
  [s \in {"*", "/", "%"} |-> 11] @@ [s \in {"+", "-"} |-> 10] @@ [s \in {"<<", ">>"} |-> 9]
    @@ [s \in {"<", ">", "<=", ">="} |-> 8] @@ [s \in {"==", "!="} |-> 7] @@ ("&" :> 6) @@ ("^" :> 5)
    @@ ("|" :> 4) @@ ("&&" :> 3) @@ ("||" :> 2) @@ ("?" :> 1) @@ ("," :> 0)
BApply(s, a, b) ==
  CASE s = "*" -> a * b
    [] s = "/" -> IF b = 0 THEN 0 ELSE Quotient(a, b)
    [] s = "%" -> IF b = 0 THEN 0 ELSE a - b * Quotient(a, b)
    [] s = "+" -> a + b
    [] s = "-" -> a - b
    [] s = "<<" -> IF b < 0 THEN 0 ELSE a * 2 ^ b
    [] s = ">>" -> IF b < 0 THEN 0 ELSE a \div 2 ^ b
    [] s = "<" -> Truth(a < b)
    [] s = ">" -> Truth(a > b)
    [] s = "<=" -> Truth(a <= b)
    [] s = ">=" -> Truth(a >= b)
    [] s = "==" -> Truth(a = b)
    [] s = "!=" -> Truth(a # b)
    [] s \in {"&", "^", "|"} ->
         Bitwise(LAMBDA p, q : CASE s = "&" -> p * q [] s = "^" -> (p + q) % 2 [] s = "|" -> p + q - p * q, a, b)
    [] s = "&&" -> Truth(a # 0 /\ b # 0)
    [] s = "||" -> Truth(a # 0 \/ b # 0)
    [] s = "," -> b
\* A value, what follows it, and what went wrong on the way.
BValue(v, after, bad) == [v |-> v, after |-> after, bad |-> bad]
BWrong(after) == BValue(0, after, {"syntax"})
RECURSIVE BUnary(_, _), BRest(_, _, _), BExpr(_, _, _)
BUnary(ts, names) ==
  IF ts = <<>> THEN BWrong(ts)
  ELSE LET x == Head(ts)
           u == BUnary(Tail(ts), names)
           e == BExpr(Tail(ts), names, 0)
       IN CASE x.t = "num" -> BValue(x.v, Tail(ts), {})
            [] x.t = "id" /\ x.s = "defined" ->
                 IF Len(ts) > 3 /\ Is(ts[2], "(")
                 THEN BValue(Truth(ts[3].s \in names), SubSeq(ts, 5, Len(ts)), {})
                 ELSE IF Len(ts) > 1 THEN BValue(Truth(ts[2].s \in names), SubSeq(ts, 3, Len(ts)), {}) ELSE BWrong(<<>>)
            [] x.t = "id" /\ x.s # "defined" -> BValue(0, Tail(ts), {})
            [] Is(x, "!") -> [u EXCEPT !.v = Truth(@ = 0)]
            [] Is(x, "-") -> [u EXCEPT !.v = -@]
            [] Is(x, "~") -> [u EXCEPT !.v = -@ - 1]
            [] Is(x, "(") -> IF e.after # <<>> /\ Is(Head(e.after), ")") THEN [e EXCEPT !.after = Tail(@)] ELSE BWrong(<<>>)
            [] OTHER -> BWrong(ts)
BRest(l, names, min) ==
  LET s == Head(l.after).s
      r == BExpr(Tail(l.after), names, BTight[s] + 1)
      a == BExpr(Tail(l.after), names, 1)
      b == BExpr(Tail(a.after), names, 1)
      bad == (IF s \in {"/", "%"} /\ r.v = 0 THEN {"zero"} ELSE {}) \cup
             (IF s \in {"<<", ">>"} /\ (r.v < 0 \/ l.v < 0) THEN {"shift"} ELSE {})
  IN IF l.after = <<>> \/ Head(l.after).t # "op" THEN l
     ELSE IF s \notin DOMAIN BTight THEN l
     ELSE IF BTight[s] < min THEN l
     ELSE IF s # "?" THEN BRest(BValue(BApply(s, l.v, r.v), r.after, l.bad \cup r.bad \cup bad), names, min)
     ELSE IF a.after = <<>> THEN BWrong(<<>>)
     ELSE IF ~Is(Head(a.after), ":") THEN BWrong(<<>>)
     ELSE BRest(BValue(IF l.v # 0 THEN a.v ELSE b.v, b.after, l.bad \cup a.bad \cup b.bad), names, min)
BExpr(ts, names, min) == BRest(BUnary(ts, names), names, min)
BCondition(ts, defs) ==
  LET after(k) == k > 1 /\ (ts[k - 1].s = "defined" \/ (k > 2 /\ ts[k - 2].s = "defined"))
      shield == [k \in DOMAIN ts |-> IF after(k) THEN [ts[k] EXCEPT !.t = IF @ = "id" THEN "name" ELSE @] ELSE ts[k]]
      whole(e) == IF e.after = <<>> THEN e ELSE BWrong(<<>>)
  IN whole(BExpr(BExpand(shield, defs, {}), DOMAIN defs, 0))

(* A source, line by line.  stack: of each open conditional whether the text *)
(* around it is taken, whether a part was, whether this part is, and whether *)
(* #else has come.                                                           *)
BOn(b) == b.stack = <<>> \/ Last(b.stack).on
BFault(b, f) == [b EXCEPT !.faults = @ \cup f]
BWarned(b, w) == [b EXCEPT !.warned = @ \cup w]
BOpen(b, yes) ==
  [b EXCEPT !.stack = Append(@, [up |-> BOn(b), done |-> yes, on |-> BOn(b) /\ yes, last |-> FALSE])]
BPart(b, yes, last) ==
  LET c == Last(b.stack)
  IN IF b.stack = <<>> THEN BFault(b, {"no if"})
     ELSE [BFault(b, IF c.last THEN {"late"} ELSE {}) EXCEPT
             !.stack = Append(Front(@), [up |-> c.up, done |-> c.done \/ yes, on |-> c.up /\ ~c.done /\ yes,
                                         last |-> last])]
BTest(b, ts) == BCondition(ts, b.defs)
BNeeded(b) == b.stack # <<>> /\ Last(b.stack).up /\ ~Last(b.stack).done
BDefine(b, line) ==
  LET n == SelectInSeq(line, LAMBDA x : x.t = "id" /\ x.s # "define")
      call == n < Len(line) /\ Is(line[n + 1], "(")
      end == IF call THEN n + SelectInSeq(SubSeq(line, n + 1, Len(line)), LAMBDA x : Is(x, ")")) ELSE n
      names == SelectSeq(SubSeq(line, n + 1, end), LAMBDA x : x.t = "id")
      par(x) == LET k == SelectInSeq(names, LAMBDA y : y.s = x.s)
                IN IF x.t = "id" /\ k # 0 THEN Token("par", "", k) ELSE [x EXCEPT !.at = <<>>]
      body == [k \in DOMAIN BWords(SubSeq(line, end + 1, Len(line))) |->
                 LET x == BWords(SubSeq(line, end + 1, Len(line)))[k]
                 IN [par(x) EXCEPT !.in = [j \in DOMAIN x.in |-> par(x.in[j])]]]
      def == [ps |-> IF call /\ names = <<>> THEN -1 ELSE Len(names), body |-> body]
      other == n # 0 /\ line[n].s \in DOMAIN b.defs /\ b.defs[line[n].s] # def
  IN IF n = 0 THEN BFault(b, {"undefinable"})
     ELSE [BWarned(b, IF other THEN {"redefined"} ELSE {}) EXCEPT !.defs = (line[n].s :> def) @@ @]
BTaken(b, got) ==
  LET loops == \E k \in DOMAIN got : got[k].t = "loop"
      wrong == \E k \in DOMAIN got : got[k].t = "mismatch"
  IN [BFault(b, (IF loops THEN {"loop"} ELSE {}) \cup (IF wrong THEN {"mismatch"} ELSE {})) EXCEPT
        !.out = IF b.asms THEN @ ELSE @ \o got, !.asm = IF b.asms THEN @ \o got ELSE @]
BTake(b, ts) == IF BOn(b) THEN BTaken(b, BExpand(BWords(ts), b.defs, {})) ELSE b
RECURSIVE BRun(_, _, _)
BInclude(b, s, w, dir) ==
  LET bracket == Is(w[3], "<")
      n == IF bracket THEN w[4].s ELSE w[3].s
      dirs == (IF bracket THEN <<>> ELSE <<dir>>) \o s.dirs
      k == SelectInSeq(dirs, LAMBDA d : <<d, n>> \in DOMAIN s.files)
      r == BRun([b EXCEPT !.ts = s.files[<<dirs[k], n>>].text, !.depth = @ + 1], s, dirs[k])
  IN IF Len(w) < 3 THEN BFault(b, {"syntax"})
     ELSE IF ~bracket /\ w[3].t # "str" THEN BFault(b, {"syntax"})
     ELSE IF k = 0 THEN BFault(b, {"missing"})
     ELSE IF b.depth + 1 >= MaxInc THEN BFault(b, {"deep"})
     ELSE [r EXCEPT !.ts = b.ts, !.depth = @ - 1]
\* e is what the expression of an #if comes to, w the words of the line.
BDirected(b, s, line, dir, w, e) ==
  LET word == IF Len(w) > 1 THEN w[2].s ELSE ""
      known == Len(w) > 2 /\ w[3].s \in DOMAIN b.defs
      bad == {IF f = "zero" THEN f ELSE "syntax" : f \in e.bad \ {"shift"}}
  IN CASE word = "if" /\ BOn(b) -> BOpen(BFault(b, bad), e.v # 0)
       [] word = "if" /\ ~BOn(b) -> BOpen(b, FALSE)
       [] word = "ifdef" -> BOpen(b, known)
       [] word = "ifndef" -> BOpen(b, ~known)
       [] word = "elif" /\ BNeeded(b) -> BPart(BFault(b, bad), e.v # 0, FALSE)
       [] word = "elif" /\ ~BNeeded(b) -> BPart(b, FALSE, FALSE)
       [] word = "else" -> BPart(b, TRUE, TRUE)
       [] word = "endif" -> IF b.stack = <<>> THEN BFault(b, {"no if"}) ELSE [b EXCEPT !.stack = Front(@)]
       [] word \notin {"if", "ifdef", "ifndef", "elif", "else", "endif"} /\ ~BOn(b) -> b
       [] word = "define" /\ BOn(b) -> BDefine(b, line)
       [] word = "undef" /\ BOn(b) -> [b EXCEPT !.defs = [n \in DOMAIN @ \ {w[3].s} |-> @[n]]]
       [] word = "include" /\ BOn(b) -> BInclude(b, s, w, dir)
       [] word = "asm" /\ BOn(b) -> [b EXCEPT !.asms = TRUE]
       [] word = "endasm" /\ BOn(b) -> [b EXCEPT !.asms = FALSE]
       [] word = "error" /\ BOn(b) -> BFault(b, {"error"})
       [] word = "pragma" /\ BOn(b) -> BWarned(b, {"ignored"})
       [] word \in {"line", ""} /\ BOn(b) -> b
       [] OTHER -> BFault(b, {"unknown"})
BDirective(b, s, line, dir) ==
  LET of(w) == BDirected(b, s, line, dir, w, BTest(b, SubSeq(w, 3, Len(w)))) IN of(BWords(line))
BRun(b, s, dir) ==
  LET text == BText(b.ts)
      line == BLine(b.ts)
  IN IF b.ts = <<>> THEN b
     ELSE IF text # <<>> THEN BRun([BTake(b, text) EXCEPT !.ts = SubSeq(@, Len(text) + 1, Len(@))], s, dir)
     ELSE BRun([BDirective(b, s, line, dir) EXCEPT !.ts = BAfter(@)], s, dir)
BClosed(b) == BFault(b, IF b.stack # <<>> THEN {"open"} ELSE {})
BMeans(s, defs) ==
  BClosed(BRun([ts |-> s.main.text, defs |-> defs, stack |-> <<>>, out |-> <<>>, asm |-> <<>>, asms |-> FALSE,
                faults |-> {}, warned |-> {}, depth |-> 0], s, s.main.dir))
=============================================================================
