------------------------------ MODULE MCFront ------------------------------
(* Sources for cpp and p1: short files made of every sequence of conditional *)
(* lines, of macros and their calls, of files that include files, and of     *)
(* expressions of two operators.                                             *)
EXTENDS Front, Programs

Id(s) == Token("id", s, 0)
Num(n) == Token("num", "", n)
Sp == Token("sp", "", 0)
Com(n) == Token("com", "", n)
Esc == Token("esc", "", 0)
Hash == Token("#", "#", 0)
Str(s) == Token("str", s, 0)
Quote(ts) == [Str("") EXCEPT !.in = ts]
Dir(word, ts) == <<Hash, Id(word), Sp>> \o ts
A == Id("A")
B == Id("B")
C == Id("C")

\* The lines of a file, each token with its place.
LaidFrom(name, first, lines) ==
  LET place(ts, n) == [k \in DOMAIN ts |-> [ts[k] EXCEPT !.at = <<name, n>>]]
      all == FlattenSeq([k \in DOMAIN lines |-> Append(lines[k], Nl)])
      f[k \in 0 .. Len(all)] == IF k = 0 THEN first ELSE f[k - 1] + Newlines(all[k])
      plain == \A k \in DOMAIN all : all[k].t \notin {"com", "esc"}
  IN IF plain THEN FlattenSeq([k \in DOMAIN lines |-> place(Append(lines[k], Nl), first + k - 1)])
     ELSE [k \in DOMAIN all |-> [all[k] EXCEPT !.at = <<name, f[k - 1]>>]]
Laid(name, lines) == LaidFrom(name, 1, lines)
Options == [p |-> FALSE, r |-> FALSE, c |-> FALSE]
Filed(text) == [main |-> [name |-> "m.c", dir |-> "src", text |-> text], files |-> <<>>, dirs |-> <<"inc">>,
                args |-> <<>>, opt |-> Options, ast |-> <<>>]
Source(lines) == Filed(Laid("m.c", lines))

----------------------------------------------------------------------------
(* Conditionals.                                                            *)
Conditions == {Dir("if", <<Num(1)>>), Dir("if", <<Num(0)>>), Dir("elif", <<Num(1)>>), Dir("elif", <<Num(0)>>),
               <<Hash, Id("else")>>, <<Hash, Id("endif")>>}
Texts == <<<<Id("a")>>, <<Id("b")>>, <<Id("c")>>, <<Id("d")>>, <<Id("e")>>, <<Id("f")>>, <<Id("g")>>>>
Between(ds) == FlattenSeq([k \in DOMAIN ds |-> <<ds[k], Texts[k]>>])
Conditionals == {Between(ds) : ds \in [1 .. 4 -> Conditions]}
\* Two whole conditionals, one in a part of the other.
Opened == {Dir("if", <<Num(1)>>), Dir("if", <<Num(0)>>), Dir("ifdef", <<A>>), Dir("ifndef", <<A>>)}
Parts == {Dir("elif", <<Num(1)>>), Dir("elif", <<Num(0)>>), <<Hash, Id("else")>>}
End == <<Hash, Id("endif")>>
NestedIn == {Between(<<i, j, p, End, q, r, End>>) : i \in Opened, j \in Opened, p \in Parts, q \in Parts, r \in Parts}
        \cup {Between(<<i, q, j, p, End, r, End>>) : i \in Opened, j \in Opened, p \in Parts, q \in Parts, r \in Parts}

(* Macros.                                                                  *)
F(x) == <<Id("F"), Op("(")>> \o x \o <<Op(")")>>
G(x, y) == <<Id("G"), Op("(")>> \o x \o <<Op(",")>> \o y \o <<Op(")")>>
X == Id("x")
Y == Id("y")
Through == Dir("define", <<A, Sp>> \o F(<<B>>))
Definitions == {
  Dir("define", <<A, Sp, Num(1)>>), Dir("define", <<A, Sp, B>>), Dir("define", <<B, Sp, A>>), Dir("define", <<B>>),
  Dir("define", <<B, Sp, Num(2), Op("+"), C>>), Through, Dir("undef", <<A>>),
  Dir("define", F(<<X>>) \o <<Sp, X, Op("+"), X, Quote(<<X>>)>>), Dir("define", F(<<X>>) \o <<Sp>> \o G(<<X>>, <<A>>)),
  Dir("define", G(<<X>>, <<Sp, Y>>) \o <<Sp, Y, Op("-"), X>>),
  Dir("define", F(<<>>) \o <<Sp, Num(3)>>)}
Uses == {<<A, Op(";"), B>>, F(<<B, Sp, Num(7)>>), F(F(<<A>>)) \o <<Op(";")>>, G(F(<<A>>), <<Op("("), B, Op(","), C, Op(")")>>),
         <<Id("__LINE__"), Sp, Id("__FILE__"), Sp>> \o F(<<Id("__LINE__")>>), <<Quote(<<A>>), A>>}
\* A call is for the names that are defined with formals.
Calls(us) == {x.s : x \in {us[k] : k \in {j \in DOMAIN us : us[j].t = "id" /\ us[j].s \in {"F", "G"}}}}
Defines(n, ds) == \E k \in DOMAIN ds : Len(ds[k]) > 4 /\ ds[k][4].s = n /\ Is(ds[k][5], "(")
Twice == {<<d, e, u, <<C>>>> : d \in Definitions, e \in Definitions, u \in Uses}
Thrice == {<<d, e, f, F(<<B>>), <<C>>>> : d \in Definitions, e \in Definitions, f \in Definitions}
Callable(ls) == \A n \in Calls(FlattenSeq(ls)) : Defines(n, ls)
\* Of the loops those are left out that go through a call: the text can grow
\* and the calls come back to their level, and cpp then writes for ever.
Ends(ls) ==
  \/ \A k \in DOMAIN ls : ls[k] # Through
  \/ \A k \in DOMAIN ls : ls[k] \notin {Dir("define", <<B, Sp, A>>), Dir("define", F(<<X>>) \o <<Sp>> \o G(<<X>>, <<A>>))}

(* Files that include files, with and without a name before them.           *)
Quoted(n) == Dir("include", <<Str(n)>>)
Angled(n) == Dir("include", <<Op("<"), Id(n), Op(">")>>)
Lines(n) == <<<<Id("p")>>, n, <<Id("q"), Sp, Id("__LINE__")>>>>
Empty == <<Com(0)>>
Includes ==
  {[Source(<<<<Id("s")>>, i, <<Id("t")>>, Dir("if", <<Num(0)>>), i, End, j, <<Id("__FILE__"), B>>>>)
      EXCEPT !.files = (<<"src", "h">> :> [name |-> "h", dir |-> "src", text |-> Laid("h", Lines(k))])
                       @@ (<<"inc", "h">> :> [name |-> "inc/h", dir |-> "inc", text |-> Laid("inc/h", Lines(l))])
                       @@ (<<"inc", "o">> :> [name |-> "inc/o", dir |-> "inc", text |-> Laid("inc/o", Lines(Empty))])] :
     i \in {Quoted("h"), Angled("h"), Quoted("o"), Dir("define", <<B, Sp, Num(1)>>)},
     j \in {Quoted("h"), Angled("o"), Angled("n"), Empty},
     k \in {Angled("h"), Quoted("o"), Quoted("h"), Empty},
     l \in {Quoted("h"), Angled("o"), Dir("define", <<B, Sp, Num(2)>>), Quoted("n")}}

(* Expressions of two operators, and of three.                              *)
Operators == {"*", "/", "%", "+", "-", "<<", ">>", "<", ">=", "==", "!=", "&", "^", "|", "&&", "||", ","}
Unary == {<<>>, <<Op("-")>>, <<Op("~")>>, <<Op("!")>>}
Infix(o, p, a, b, c) == {
  a \o <<Op(o)>> \o b \o <<Op(p)>> \o c,
  <<Op("(")>> \o a \o <<Op(o)>> \o b \o <<Op(")"), Op(p)>> \o c,
  a \o <<Op(o), Op("(")>> \o b \o <<Op(p)>> \o c \o <<Op(")")>>}
\* Those on which the program's grammar is not the language's are left apart:
\* ^ and | are on one level in it, and no comparison follows another.
Level(o) == IF o \in {"<", ">="} THEN "compared" ELSE IF o \in {"==", "!="} THEN "equal" ELSE IF o \in {"^", "|"} THEN "bits" ELSE o
Apart(o, p) == Level(o) = Level(p) /\ (o # p \/ Level(o) \in {"compared", "equal"})
Twos ==
  UNION {Infix(o, p, <<Num(6)>>, <<Num(2)>>, <<Num(1)>>) : o \in Operators, p \in Operators}
    \cup UNION {Infix(o, p, u \o <<Num(3)>>, <<Num(0)>>, <<Num(5)>>) :
                  o \in {"/", "-", "<", "&", "&&"}, p \in {"*", "+", "==", "|", ","}, u \in Unary}
Threes == {<<Num(a), Op("?"), Num(b), Op(":"), Num(c), Op("?"), Num(3), Op(":"), Num(4)>> : a \in 0 .. 1, b \in 0 .. 1, c \in 0 .. 1}
     \cup {<<Op("!"), Id("defined"), A, Op(o), Id("defined"), Op("("), Id("z80"), Op(")"), Op(p), Id("z80")>> :
             o \in {"&&", "||", "+"}, p \in {"==", "||", "-"}}
Chosen == {e \in Twos : \A k, l \in DOMAIN e : k < l /\ e[k].t = "op" /\ e[l].t = "op" /\ Apart(e[k].s, e[l].s) => FALSE}
\* Each is compared with the value it has.
Meant(e) == BCondition(e, [z80 |-> [ps |-> 0, body |-> <<Num(1)>>]])
Equals(e, m) ==
  <<Op("(")>> \o e \o <<Op(")"), Op("==")>> \o (IF m.v < 0 THEN <<Op("-"), Num(-m.v)>> ELSE <<Num(m.v)>>)
Expressions == {<<Dir("if", Equals(e, Meant(e))), <<Id("y")>>, <<Hash, Id("else")>>, <<Id("n")>>, End>> : e \in {x \in Chosen \cup Threes : "shift" \notin Meant(x).bad}}

(* Lines of every other kind.                                               *)
Others == {
  <<Dir("pragma", <<A>>), <<A>>>>, <<Dir("error", <<A>>), <<A>>>>, <<<<Hash>>, <<A>>>>,
  <<<<A, Com(2), B>>, <<C>>>>, <<Dir("define", <<A, Sp, Num(1), Esc, B>>), <<A, C>>>>, <<<<A, Esc>>, <<C>>>>, <<<<Com(3)>>, <<C, Com(0)>>, Dir("if", <<Num(0)>>), <<Com(2)>>, End, <<A>>>>,
  <<Dir("foo", <<A>>), <<A>>>>, <<Dir("if", <<>>), <<A>>, End>>, <<Dir("if", <<Op("+")>>), <<A>>, End>>,
  <<Dir("define", <<Num(3)>>), <<A>>>>,
  <<<<Hash, Id("asm")>>, <<Sp, Id("ld"), Sp, A, Op(","), Num(3)>>, <<Id("ret")>>, <<Hash, Id("endasm")>>, <<B>>>>,
  <<<<B>>, <<Hash, Id("asm")>>, <<A>>>>,
  <<Dir("include", <<A>>), <<A>>>>, <<Dir("if", <<Op("("), Num(1)>>), <<A>>, End>>,
  <<Dir("if", <<Num(1), Sp, Op("$")>>), <<A>>, End>>, <<Dir("endif", <<>>), Dir("else", <<>>), <<A>>>>}
Renumbered == Filed(Laid("m.c", <<<<A>>, Dir("line", <<Num(50), Sp, Str("g")>>)>>) \o LaidFrom("g", 50, <<<<B>>, <<C>>>>))

\* Names defined and undefined on the command line.
D(ts) == [o |-> "D", ts |-> ts]
U(ts) == [o |-> "U", ts |-> ts]
Commanded ==
  {[Source(<<<<A, B, Id("z80"), Id("HI_TECH_C")>>, Dir("ifdef", <<Id("z80")>>), <<C>>, End>>) EXCEPT !.args = a] :
     a \in [1 .. 2 -> {D(<<A>>), D(<<A, Sp, Num(5)>>), D(<<B, Sp, A>>), U(<<A>>), U(<<Id("z80")>>), U(<<>>)}]}
\* A program, all on one line.
ProgramSource(g) ==
  LET text == Append(KProgram(g), Nl)
  IN [Filed(<<>> \o [k \in DOMAIN text |-> [text[k] EXCEPT !.at = <<"m.c", 1>>]]) EXCEPT !.ast = g]
Written == {Conditionals, NestedIn, Expressions, Others, {m \in Twice : Callable(m) /\ Ends(m)}, {m \in Thrice : Callable(m) /\ Ends(m)}}
FrontSources ==
  {{ProgramSource(g) : g \in family} : family \in FrontPrograms}
    \cup {{Source(ls) : ls \in family} : family \in Written} \cup {Includes, Commanded, {Renumbered}}
FrontMaxLevel == 8
FrontMaxInc == 4
=============================================================================
