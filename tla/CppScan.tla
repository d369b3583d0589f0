------------------------------ MODULE CppScan ------------------------------
(* cpp's scanner (cotoken) with the macros it expands on the way.           *)
(*                                                                          *)
(* A file is a sequence of tokens [t, s, v, in, at]: the kind ("id", "num", *)
(* "str", "op", "#", "nl", "sp" for blanks, "com" a comment, "esc" a        *)
(* backslash before a newline), its text, its value (of a comment: the      *)
(* newlines in it), the tokens in a string, and where it is in the source.  *)
(* Where it is serves to state properties and is never looked at.           *)
(*                                                                          *)
(* The buffer is cut where the program's pointers are: pend is the text     *)
(* between outptr and inptr, tok the current token, rest what is not yet    *)
(* scanned; text pushed back goes in front of rest.                         *)
EXTENDS Integers, Sequences, FiniteSets, SequencesExt, TLC

CONSTANTS MaxLevel,     \* symsiz: nested macro calls that are taken for a loop
          MaxInc        \* MAXINC: files that can be open

Token(t, s, v) == [t |-> t, s |-> s, v |-> v, in |-> <<>>, at |-> <<>>]
Nl == Token("nl", "", 0)
Op(s) == Token("op", s, 0)
Is(x, s) == x.t = "op" /\ x.s = s
Newlines(x) == IF x.t \in {"nl", "esc"} THEN 1 ELSE IF x.t = "com" THEN x.v ELSE 0

Error(S, e) == [S EXCEPT !.errs = Append(@, e)]             \* pperror
Warn(S, e) == [S EXCEPT !.warns = Append(@, e)]             \* ppwarn
Raise(S) == [S EXCEPT !.fls = @ + 1]
Lower(S) == [S EXCEPT !.fls = @ - 1]

Dump(S) == IF S.fls # 0 THEN S ELSE [S EXCEPT !.out = @ \o S.pend, !.pend = <<>>]
Sayline(S) ==
  IF S.opt.p THEN S
  ELSE [S EXCEPT !.out = @ \o <<Token("#", "", 0), Token("num", "", S.line), Token("str", S.name, 0), Nl>>]

\* For comparison: the place in the includer is not said again.
PopSilent(S) ==
  LET up == Last(S.incs)
  IN [S EXCEPT !.rest = up.rest, !.name = up.name, !.dir = up.dir, !.line = up.line,
               !.incs = Front(@), !.lvl = 0]
\* At the end of an included file the text of the includer follows.
Pop(S) ==
  LET up == Last(S.incs)
  IN Sayline([Dump(S) EXCEPT !.rest = up.rest, !.name = up.name, !.dir = up.dir, !.line = up.line,
                             !.incs = Front(@), !.lvl = 0])
\* At the end of all a call still open is closed, or the program ends.
Refill(S) ==
  IF S.incs # <<>> THEN Pop(S)
  ELSE IF S.plvl # 0
  THEN [Error(S, "unterminated macro call") EXCEPT !.plvl = IF @ < 0 THEN 0 ELSE @, !.lvl = 0,
          !.rest = <<Nl>> \o [k \in 1 .. (IF S.plvl < 0 THEN 0 ELSE S.plvl) |-> Op(")")]]
  ELSE [Dump([S EXCEPT !.pend = @ \o S.tok, !.tok = <<>>]) EXCEPT !.over = TRUE, !.lvl = 0]

\* A comment goes; its newlines are written at once, in text that is skipped too.
Comment(S, x) ==
  [Dump(S) EXCEPT !.pend = <<>>, !.out = @ \o [k \in 1 .. x.v |-> Nl]]
\* A # at the start of a line; the newline before it is part of the token
\* when it has not been passed by.
FoundHash(S, x) ==
  IF S.pend # <<>> /\ Last(S.pend).t = "nl"
  THEN [S EXCEPT !.tok = <<Nl, x>>, !.pend = Front(@)] ELSE [S EXCEPT !.tok = <<x>>]

----------------------------------------------------------------------------
\* What a name stands for: [ps, body]; a body has [t |-> "par"] for a formal.
BodyOf(S, x) ==
  CASE x.s = "__LINE__" -> <<Token("num", "", S.line)>>
    [] x.s = "__FILE__" -> <<Token("str", S.name, 0)>>
    [] OTHER -> S.defs[x.s].body
Params(S, x) == IF x.s \in {"__LINE__", "__FILE__"} THEN 0 ELSE S.defs[x.s].ps
Fill(body, args) ==
  LET arg(k) == IF k <= Len(args) THEN args[k] ELSE <<>>
      one(x) == IF x.t = "par" THEN arg(x.v)
                ELSE <<[x EXCEPT !.in = FlattenSeq([j \in DOMAIN @ |-> IF @[j].t = "par" THEN arg(@[j].v) ELSE <<@[j]>>])]>>
  IN FlattenSeq([j \in DOMAIN body |-> one(body[j])])

\* The level counts calls since the text after a call was last shorter than
\* after the call before (macforw, macdam).
Nested(S) == Len(S.rest) >= S.far
Loops(S) == Nested(S) /\ S.lvl >= MaxLevel /\ ~S.opt.r

RECURSIVE Scan(_), Skipbl(_), FindParen(_), Args(_, _, _)
\* The next token, the pending text thrown away (outptr = inptr = p).
Fetch(S) == Scan([S EXCEPT !.pend = <<>>, !.tok = <<>>])
\* The next token, the one before kept with the pending text.
Cotoken(S) == Scan([S EXCEPT !.pend = @ \o S.tok, !.tok = <<>>])
On(S, t) == ~S.over /\ Head(S.tok).t = t
PastBlank(S) == IF On(S, "sp") THEN Skipbl(S) ELSE S
Skipbl(S) == PastBlank(Fetch(S))

PastNl(S) == IF On(S, "nl") THEN FindParen(S) ELSE S
FindParen(S) == PastNl(Skipbl(S))
\* The actuals, as they are written, up to the parenthesis of the call.
ArgsFrom(T, args, arg) ==
  LET x == Head(T.tok)
      deep == IF Is(x, "(") THEN T.plvl + 1 ELSE IF Is(x, ")") THEN T.plvl - 1 ELSE T.plvl
  IN IF T.over THEN [to |-> T, args |-> args]
     ELSE IF deep = 0 THEN [to |-> [T EXCEPT !.plvl = 0], args |-> Append(args, arg)]
     ELSE IF deep = 1 /\ Is(x, ",") THEN Args(T, Append(args, arg), <<>>)
     ELSE Args([T EXCEPT !.plvl = deep], args, Append(arg, x))
Args(S, args, arg) == ArgsFrom(Fetch(S), args, arg)
\* The token after the name of a macro with formals is gone when it is no "(".
Push(S, body, args) ==
  [S EXCEPT !.rest = Fill(body, args) \o @, !.pend = <<>>, !.tok = <<>>, !.plvl = 0]
Actuals(S) ==
  IF On(S, "op") /\ Head(S.tok).s = "(" THEN Args([S EXCEPT !.plvl = 1], <<>>, <<>>) ELSE [to |-> S, args |-> <<>>]
Counted(A, want) == IF Len(A.args) = want THEN A.to ELSE Warn(A.to, "argument mismatch")
Replace(S, x, args) == IF S.over THEN S ELSE [Push(Lower(S), BodyOf(S, x), args) EXCEPT !.slow = FALSE]
CallWith(A, x, want) == Replace(Counted(A, want), x, A.args)
Call(S, x) ==
  CallWith(Actuals(FindParen([Raise(S) EXCEPT !.slow = TRUE, !.plvl = -1])), x,
           IF Params(S, x) = -1 THEN 1 ELSE Params(S, x))
Entered(S) == Dump([S EXCEPT !.lvl = IF Nested(S) THEN @ + 1 ELSE 0, !.far = Len(S.rest)])
Subst(S, x) ==
  IF Loops(S) THEN [Error(S, "macro recursion") EXCEPT !.pend = Append(@, x)]
  ELSE IF Params(S, x) = 0 THEN Push(Entered(S), BodyOf(S, x), <<>>) ELSE Call(Entered(S), x)
\* A name stands for something (lookup).
Defined(S, x) == x.t = "id" /\ x.s \in DOMAIN S.defs

\* sloscan: every token is returned; fasscan: text is passed by up to a line
\* that begins with #.
Passed(S, x) == [S EXCEPT !.rest = Tail(@), !.lf = x.t = "nl", !.line = @ + Newlines(x)]
ScanFrom(S, T, x) ==
  IF S.lf /\ x.t = "#" THEN FoundHash(T, x)
  ELSE IF x.t = "com" /\ (S.defining \/ ~S.opt.c) THEN Scan(Comment(T, x))
  ELSE IF S.fls = 0 /\ Defined(S, x) THEN Scan(Subst(T, x))
  ELSE IF S.slow THEN [T EXCEPT !.tok = <<x>>]
  ELSE Scan([T EXCEPT !.pend = Append(@, x)])
Scan(S) ==
  IF S.over THEN S ELSE IF S.rest = <<>> THEN Scan(Refill(S))
  ELSE ScanFrom(S, Passed(S, Head(S.rest)), Head(S.rest))
=============================================================================
