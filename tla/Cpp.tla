-------------------------------- MODULE Cpp --------------------------------
(* cpp, the preprocessor: the control lines (control in cpp.c) and what     *)
(* main sets up before them.  Text is read by CppScan, the expressions of   *)
(* #if by CppExpr.                                                          *)
(*                                                                          *)
(* trulvl (tru) counts the open conditionals whose text is taken, flslvl    *)
(* (fls) those whose text is not, elflvl (elf) the level of one whose #elif *)
(* and #else are all passed over since a part of it was taken, elslvl (els) *)
(* the level of the last #else.                                             *)
EXTENDS CppExpr

CONSTANT Sources    \* sets of [main, files, dirs, args, opt]: a source file and what it includes
VARIABLES source, st, pc
cppvars == <<source, st, pc>>

\* A file is found under <<directory, name>> and is [name, dir, text].
Fresh(s) ==
  [rest |-> s.main.text, lf |-> TRUE, slow |-> FALSE, pend |-> <<>>, tok |-> <<>>, out |-> <<>>,
   incs |-> <<>>, name |-> s.main.name, dir |-> s.main.dir, line |-> 1, defs |-> <<>>,
   tru |-> 0, fls |-> 0, elf |-> 0, els |-> 0, lvl |-> 0, far |-> 1000000, plvl |-> 0,
   errs |-> <<>>, warns |-> <<>>, ifdef |-> FALSE, defining |-> FALSE, over |-> FALSE, opt |-> s.opt]

----------------------------------------------------------------------------
(* The rest of a line.                                                      *)
AtNl(S) == IF S.over THEN TRUE
           ELSE IF S.tok = <<>> THEN S.rest # <<>> /\ Head(S.rest).t = "nl" ELSE Head(S.tok).t = "nl"
RECURSIVE Drop(_), Pass(_)
Drop(S) == IF AtNl(S) THEN S ELSE Drop(Fetch(S))
Pass(S) == IF AtNl(S) THEN S ELSE Pass(Cotoken(S))
\* flush to lf, without looking for macros
Flush(S) == Lower(Drop(Raise(S)))
Unread(S) == [S EXCEPT !.rest = <<Nl>> \o @, !.tok = <<>>]
\* The next name, not expanded.
Word(S) == Lower(Skipbl(Raise(S)))

(* #define: dodef.                                                          *)
RECURSIVE Formals(_, _), Body(_, _, _)
FormalsFrom(T, x, names) ==
  IF x.t = "nl" THEN [to |-> Error([Unread(T) EXCEPT !.line = @ - 1], "missing )"), names |-> names]
  ELSE IF Is(x, ")") THEN [to |-> T, names |-> names]
  ELSE IF Is(x, ",") THEN Formals(T, names)
  ELSE IF x.t # "id" THEN Formals(Error(T, "bad formal"), names)
  ELSE Formals(T, Append(names, x.s))
FormalsAt(T, names) == FormalsFrom(T, Head(T.tok), names)
Formals(S, names) == FormalsAt(Skipbl(S), names)
\* The last formal of a name is the one that counts; strings are looked into.
Mark(x, names) ==
  LET k == SelectLastInSeq(names, LAMBDA n : n = x.s)
  IN IF x.t = "id" /\ k # 0 THEN Token("par", "", k) ELSE [x EXCEPT !.at = <<>>]
Marked(x, names) == [Mark(x, names) EXCEPT !.in = [j \in DOMAIN x.in |-> Mark(x.in[j], names)]]
BodyFrom(T, x, names, body) ==
  IF x.t = "nl" THEN [to |-> T, body |-> body]
  ELSE IF x.t \in {"esc", "sp"} THEN Body(T, names, body)
  ELSE Body(T, names, Append(body, Marked(x, names)))
BodyAt(T, names, body) == BodyFrom(T, Head(T.tok), names, body)
Body(S, names, body) == BodyAt(Fetch(S), names, body)
\* Of a name defined before, only the texts are compared (equfrm).
Enter(S, n, def) ==
  IF n \notin DOMAIN S.defs THEN [S EXCEPT !.defs = @ @@ (n :> def)]
  ELSE IF S.defs[n].body = def.body THEN S
  ELSE [Warn(S, "redefined") EXCEPT !.defs[n] = def]
DefEnd(B, n, ps) == Lower(Enter([B.to EXCEPT !.defining = FALSE], n, [ps |-> ps, body |-> B.body]))
DefBody(F, n, call) ==
  DefEnd(Body([F.to EXCEPT !.defining = TRUE], F.names, <<>>), n, IF call /\ F.names = <<>> THEN -1 ELSE Len(F.names))
DefHead(U, n) ==
  IF Is(Head(U.tok), "(") THEN DefBody(Formals(U, <<>>), n, TRUE)
  ELSE DefBody([to |-> IF On(U, "nl") THEN [Unread(U) EXCEPT !.line = @ - 1] ELSE U, names |-> <<>>], n, FALSE)
DefName(T) ==
  IF On(T, "id") THEN DefHead(Fetch(T), Head(T.tok).s) ELSE Drop(Warn(T, "illegal macro name"))
\* After a name that is none flslvl stays raised, so all text is skipped.
Dodef(S) == DefName(Skipbl(Raise(S)))

(* What main defines before the file is read: z80 and its like, then -U and *)
(* -D as they stand on the command line.                                    *)
Stsym(S, ts) == [Dodef([S EXCEPT !.rest = ts \o <<Nl>>, !.slow = TRUE]) EXCEPT !.rest = S.rest, !.slow = FALSE,
                   !.pend = <<>>, !.tok = <<>>, !.line = 1, !.lf = TRUE]
One(n) == <<Token("id", n, 0), Token("sp", "", 0), Token("num", "", 1)>>
Given(s, o) == SelectSeq(s.args, LAMBDA a : a.o = o)
Predefined(S, s) ==
  IF \E k \in DOMAIN s.args : s.args[k] = [o |-> "U", ts |-> <<>>] THEN S
  ELSE Stsym(Stsym(Stsym(S, One("z80")), One("HI_TECH_C")), One("_HOSTED"))
Undefined(S, n) == [S EXCEPT !.defs = [m \in DOMAIN @ \ {n} |-> @[m]]]
FromUs(S, s) == FoldLeft(LAMBDA T, a : IF a.ts = <<>> THEN T ELSE Undefined(T, a.ts[1].s), S, Given(s, "U"))
FromDs(S, s) == FoldLeft(LAMBDA T, a : Stsym(T, IF Len(a.ts) = 1 THEN One(a.ts[1].s) ELSE a.ts), S, Given(s, "D"))
CommandLine(s) == FromDs(FromUs(Stsym(Stsym(Predefined(Fresh(s), s), One("__LINE__")), One("__FILE__")), s), s)

(* #include: doincl.                                                        *)
Named(S, n) == [to |-> S, name |-> n, from |-> 2]
NamedTo(S, n) == Named(IF On(S, "nl") THEN Unread(S) ELSE S, n)
BracketedBy(U) == IF On(U, "nl") THEN Named(Unread(U), "") ELSE NamedTo(Fetch(U), Head(U.tok).s)
\* The name, and where in the list of directories the search begins; 0: neither.
AskedFrom(T, x) ==
  IF Is(x, "<") THEN BracketedBy(Fetch(T))
  ELSE IF x.t = "str" THEN [to |-> T, name |-> x.s, from |-> 1]
  ELSE [to |-> Error(T, "bad include syntax"), name |-> "", from |-> 0]
AskedAt(T) == AskedFrom(T, Head(T.tok))
Asked(S) == AskedAt(Skipbl(S))
\* For comparison: what includes is the directory searched, whatever the brackets.
FoundAnywhere(S, a) ==
  LET dirs == <<S.dir>> \o source.dirs
  IN {k \in 1 .. Len(dirs) : <<dirs[k], a.name>> \in DOMAIN source.files}
Found(S, a) ==
  LET dirs == <<S.dir>> \o source.dirs
  IN {k \in a.from .. Len(dirs) : <<dirs[k], a.name>> \in DOMAIN source.files}
OpenFile(S, a) ==
  LET dirs == <<S.dir>> \o source.dirs
      k == CHOOSE j \in Found(S, a) : \A i \in Found(S, a) : j <= i
      f == source.files[<<dirs[k], a.name>>]
  IN Sayline([S EXCEPT !.incs = Append(@, [rest |-> S.rest, name |-> S.name, dir |-> S.dir, line |-> S.line]),
                       !.rest = f.text, !.name = f.name, !.dir = dirs[k], !.line = 1])
DoinclOf(U, a) ==
  IF a.from = 0 THEN U
  ELSE IF Len(U.incs) + 1 >= MaxInc THEN Error(U, "Unreasonable include nesting")
  ELSE IF Found(U, a) = {} THEN Error(U, "Can't find include file")
  ELSE OpenFile(U, a)
Kept(T) == Dump([Lower(T) EXCEPT !.pend = @ \o T.tok, !.tok = <<>>])
DoinclTo(a) == DoinclOf(Kept(Flush(Fetch(Raise(a.to)))), a)
Doincl(S) == DoinclTo(Asked(S))

----------------------------------------------------------------------------
\* Text up to the next control line, whose first word is read.
Found1(T) == IF On(T, "nl") THEN [T EXCEPT !.pend = Append(@, Nl)] ELSE T
Word1(T) == IF T.over THEN T ELSE Skipbl([Dump(Found1(T)) EXCEPT !.slow = TRUE])
Text == /\ pc = "text"
        /\ \E T \in {Cotoken([st EXCEPT !.slow = FALSE])} :
             /\ st' = Word1(T)
             /\ pc' = IF T.over THEN "done" ELSE "control"
        /\ UNCHANGED source

Line(word) == pc = "control" /\ Head(st.tok).t = "id" /\ Head(st.tok).s = word
After(T) == /\ \E S \in {T} : st' = S /\ pc' = IF S.over THEN "done" ELSE "text"
            /\ UNCHANGED source
Taken(S) == [S EXCEPT !.tru = @ + 1]
Skipped(S) == [S EXCEPT !.fls = @ + 1]
Active == st.fls = 0

Define == Line("define") /\ After(IF Active THEN Dodef(st) ELSE Flush(st))
Include == Line("include") /\ After(IF Active THEN Doincl(st) ELSE Flush(st))
UndefOf(W) == Undefined(W, Head(W.tok).s)
Undef == Line("undef") /\ After(Flush(IF Active THEN UndefOf(Word(st)) ELSE st))
Depends(W, want) == IF Active /\ Defined(W, Head(W.tok)) = want THEN Taken(W) ELSE Skipped(W)
IfKnown(want) == After(Flush(Depends(Word(st), want)))
Ifdef == Line("ifdef") /\ IfKnown(TRUE)
Ifndef == Line("ifndef") /\ IfKnown(FALSE)
\* The word has been read, and is not part of the expression.
Condition(S) == Yyparse([S EXCEPT !.tok = <<>>])
If == /\ Line("if")
      /\ \E y \in {IF Active THEN Condition(st) ELSE [S |-> st, v |-> 0]} :
           After(Flush(IF y.v # 0 THEN Taken(y.S) ELSE Skipped(y.S)))

\* A part before this one was taken, or the conditional around is skipped.
PassedOver == st.elf > st.tru \/ st.fls > 1
NowTaken(S) == Sayline(Taken([S EXCEPT !.fls = 0]))
\* For comparison: that an earlier part was taken is forgotten.
ElifForgets ==
  /\ Line("elif")
  /\ IF Active
     THEN After(Flush(IF st.tru > 0 THEN Skipped([st EXCEPT !.tru = @ - 1]) ELSE Error(st, "If-less elif")))
     ELSE IF PassedOver THEN After(Flush(st))
     ELSE \E y \in {Condition([st EXCEPT !.fls = 0])} :
            After(Flush(IF y.v # 0 THEN NowTaken(y.S) ELSE Skipped(y.S)))
Elif ==
  /\ Line("elif")
  /\ IF Active
     THEN LET S == [st EXCEPT !.elf = st.tru]
          IN After(Flush(IF S.tru > 0 THEN Skipped([S EXCEPT !.tru = @ - 1]) ELSE Error(S, "If-less elif")))
     ELSE IF PassedOver THEN After(Flush(st))
     ELSE \E y \in {Condition([st EXCEPT !.fls = 0])} :
            After(Flush(IF y.v # 0 THEN NowTaken(y.S) ELSE Skipped(y.S)))
ElseOf(S) ==
  IF Active THEN (IF S.tru > 0 THEN Skipped([S EXCEPT !.tru = @ - 1]) ELSE Error(S, "If-less else"))
  ELSE IF PassedOver THEN S ELSE NowTaken(S)
Else ==
  /\ Line("else")
  /\ LET S == ElseOf(st)
         level == S.tru + S.fls
         T == IF S.els = level THEN Error(S, "Too many #else's") ELSE S
     IN After(Flush([T EXCEPT !.els = level]))
\* For comparison: an #endif without an #if closes what is not open.
EndifUnasked(S) ==
  IF S.fls = 1 THEN Sayline(Lower(S)) ELSE IF S.fls > 1 THEN Lower(S) ELSE [S EXCEPT !.tru = @ - 1]
EndifOf(S) ==
  IF S.fls = 1 THEN Sayline(Lower(S)) ELSE IF S.fls > 1 THEN Lower(S)
  ELSE IF S.tru > 0 THEN [S EXCEPT !.tru = @ - 1] ELSE Error(S, "If-less endif")
Endif ==
  /\ Line("endif")
  /\ LET S == EndifOf(st)
     IN After(Flush([S EXCEPT !.elf = IF S.fls = 0 THEN 0 ELSE @, !.els = 0]))

Pragma == Line("pragma") /\ After(Flush(Warn(st, "#pragma ignored")))
\* #error ends the program at once, what is pending is not written.
ErrorLine == Line("error") /\ After(IF Active THEN [Error(st, "#error") EXCEPT !.over = TRUE] ELSE Flush(st))
\* #line goes to the output, with the number it gives to the next line.
Numbered(S) ==
  LET given == SelectSeq(SubSeq(S.rest, 1, SelectInSeq(S.rest, LAMBDA x : x.t = "nl") - 1), LAMBDA x : x.t # "sp")
      n == IF given # <<>> /\ given[1].t = "num" THEN given[1].v ELSE 0
      named == IF n # 0 THEN Tail(given) ELSE given
      T == IF n = 0 THEN Error(S, "bad number for #line") ELSE [S EXCEPT !.line = n - 1]
  IN Pass([T EXCEPT !.name = IF named = <<>> THEN @ ELSE named[1].s,
                    !.pend = <<Token("#", "", 0)>>, !.tok = <<>>])
LineLine == Line("line") /\ After(IF Active /\ ~st.opt.p THEN Numbered(st) ELSE Flush(st))
AsmLine == /\ Line("asm") \/ Line("endasm")
           /\ After(Pass([st EXCEPT !.pend = <<Token("#", "", 0)>>]))
Known == {"define", "include", "undef", "ifdef", "ifndef", "if", "elif", "else", "endif", "pragma", "error",
          "line", "asm", "endasm"}
Unknown == /\ pc = "control" /\ ~(Head(st.tok).t = "id" /\ Head(st.tok).s \in Known)
           /\ After(IF Head(st.tok).t = "nl" THEN st ELSE Flush(Error(st, "undefined control")))

\* main: the first line is said, and control begins.
CppInit == /\ \E S \in Sources : source \in S
           /\ st = Sayline(CommandLine(source))
           /\ pc = "text"
CppNext ==
  \/ Text \/ Define \/ Include \/ Undef \/ Ifdef \/ Ifndef \/ If \/ Elif \/ Else \/ Endif
  \/ Pragma \/ ErrorLine \/ LineLine \/ AsmLine \/ Unknown
=============================================================================
