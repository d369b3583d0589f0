------------------------------- MODULE Front -------------------------------
(* A source file on its way through cpp and into p1, as zc runs them.  Of a  *)
(* source p1 only reads the tokens; of one that is a program, the text of a  *)
(* tree in its field ast, p1 writes the code.                                *)
EXTENDS Cpp, CppBook, P1Machine

CONSTANT Runs       \* values that variables have, and calls give back

VARIABLES rd,       \* p1's reader
          read,     \* the tokens p1 has been given
          parser    \* the state of p1's parser
vars == <<source, st, pc, rd, read, parser>>
IsProgram == source.ast # <<>>

\* zc runs p1 when cpp has ended without an error.
StartReading == /\ pc = "done" /\ st.errs = <<>> /\ ~IsProgram
                /\ rd' = Reader(st.out)
                /\ pc' = "reading"
                /\ UNCHANGED <<source, st, read, parser>>
\* A call of yylex.
Read == /\ pc = "reading"
        /\ \E R \in {Lex(rd)} :
             /\ rd' = R
             /\ read' = read \o R.tok
             /\ pc' = IF R.tok = <<>> THEN "read" ELSE "reading"
        /\ UNCHANGED <<source, st, parser>>
StartParsing == /\ pc = "done" /\ st.errs = <<>> /\ IsProgram
                /\ parser' = Parser(st.out)
                /\ pc' = "parsing"
                /\ UNCHANGED <<source, st, rd, read>>
\* mainParseLoop: one declaration of the file, and its end.
mainParseLoop == /\ pc = "parsing"
                 /\ \E P \in {yylex(parser)} :
                      LET end == P.tok.k = "eof" \/ P.fatal # ""
                      IN /\ parser' = IF end THEN releaseScopeSym(P) ELSE External(unget(P))
                         /\ pc' = IF end THEN "parsed" ELSE "parsing"
                 /\ UNCHANGED <<source, st, rd, read>>
Ended == /\ pc \in {"read", "parsed"} \/ (pc = "done" /\ st.errs # <<>>)
         /\ UNCHANGED vars

Init == CppInit /\ rd = Reader(<<>>) /\ read = <<>> /\ parser = Parser(<<>>)
Next == (CppNext /\ UNCHANGED <<rd, read, parser>>) \/ StartReading \/ Read \/ StartParsing \/ mainParseLoop \/ Ended
Spec == Init /\ [][Next]_vars

----------------------------------------------------------------------------
\* Every level and every list is one the program's counters and arrays hold:
\* no conditional is closed that was not open, the files open at once are
\* fewer than MAXINC, the level of the calls stays under symsiz; every name p1
\* knows is one symbol's, of a scope that is open, its stacks of operators and
\* operands are empty between two declarations and hold what they have room for.
TypeOK ==
  /\ pc \in {"text", "control", "done", "reading", "read", "parsing", "parsed"}
  /\ {st.tru, st.fls, st.elf, st.els} \subseteq Nat
  /\ Len(st.incs) < MaxInc /\ st.lvl \in 0 .. MaxLevel /\ st.line \in Nat /\ rd.line \in Nat
  /\ rd.fatal \in {"", "EOF in #asm", "illegal '#' directive"}
  /\ parser.os = <<>> /\ parser.es = <<>> /\ parser.depth = 0 /\ parser.mode = 0
  /\ \A n \in DOMAIN parser.hash : \A k \in DOMAIN parser.hash[n] :
       LET y == parser.syms[parser.hash[n][k]] IN y.name = n /\ y.lvl = 0

Means(S) == BMeans(source, S.defs)
Bare(ts) ==
  LET one(x) == [x EXCEPT !.at = <<>>]
  IN [k \in DOMAIN ts |-> [one(ts[k]) EXCEPT !.in = [j \in DOMAIN BWords(@) |-> one(BWords(@)[j])]]]
TextAs(b) ==
  b.faults = {} => Bare(read) = Bare(b.out) /\ Bare(BWords(FlattenSeq(rd.asm))) = Bare(b.asm)
\* What p1 reads of a source without faults is what the language says: the
\* text of the conditionals' parts that hold and of the files included, each
\* macro expanded, expressions of #if with the values the precedence of their
\* operators gives, and the lines of #asm where the assembler gets them
\* (control, doincl, dodef and subst in cpp.c, cpy.y, parseAsm of p1).
TextRight == pc = "read" /\ rd.fatal = "" => TextAs(Means(CommandLine(source)))

LookedFor == {"no if", "loop", "missing", "deep", "syntax", "zero", "error", "unknown"}
FaultsAs(b, warned) ==
  /\ b.faults = {} => st.errs = <<>> /\ (b.warned = {} <=> ~warned)
  /\ b.faults \cap LookedFor # {} => st.errs # <<>>
  /\ b.faults \cap {"mismatch", "undefinable"} # {} => warned
FaultsFrom(S) == FaultsAs(Means(S), st.warns # S.warns)
AboutTypes == {"float to integer", "integer to pointer", "pointer to integer", "pointer types", "pointer type", "not same type"}
Told(P) == IF P.errs # <<>> THEN 2 ELSE IF \E k \in DOMAIN P.warns : P.warns[k].w \in AboutTypes THEN 1 ELSE 0
\* A source without faults goes through cpp without a message, and the faults
\* cpp looks for (conditionals that close nothing, loops of macros, files that
\* are not found or too deep, expressions that are none) are not let pass
\* (pperror and ppwarn in cpp.c).
\* Of a program that is wrong p1 tells an error, of one that puts a value where
\* one of another kind belongs a warning about types, and of no other either
\* (prError and prWarning, the checks of op.c, expr.c, type.c and sym.c).
FaultsTold == /\ pc = "done" => FaultsFrom(CommandLine(source))
              /\ pc = "parsed" => Told(parser) = KSays(source.ast)

\* The line and the file p1 takes a token to be on, and tells in its messages,
\* are the ones it is on: over text skipped, files included and left, comments
\* and #line (sayline in cpp.c, the places in yylex of p1).  They are not after
\* an #elif that is taken, whose newline is read before the place is said and
\* written after it, nor after a definition of several lines, whose newlines go.
Drifts == \E k \in DOMAIN source.main.text : source.main.text[k].s = "elif" \/ source.main.text[k].t = "esc"
LinesTold ==
  pc \in {"reading", "read"} /\ rd.tok # <<>> =>
    \/ Head(rd.tok).at \in {<<>>, <<rd.file, rd.line>>}
    \/ Drifts

BookSteps == 20
MachineSteps == 400
SameRun(E, F) == ~E.bad => F = E
SameRuns(g, V, W) ==
  W.agree /\ \A r \in Runs : SameRun(KRun(V, g, r.vals, r.q, BookSteps), MRunIn(parser, W, g, r.vals, r.q, MachineSteps))
\* The code p1 writes for a program does what the language says the program
\* does: from the same values of the variables it makes the same calls with the
\* same arguments, gives back the same and leaves the same in every variable,
\* whatever is called gives back, and every variable has its type.  Of the
\* book only runs that have a meaning count, and no step of the code has none:
\* operands of an operator have one type, conditions are truth values, jumps
\* have a label (parseExpr, conv, unary and binary of expr.c and op.c, stmt.c,
\* sub_5c50 and sub_4eed of type.c and sym.c, emit.c).
CodeRight ==
  pc = "parsed" /\ Told(parser) = 0 => SameRuns(source.ast, KWorld(source.ast), MWorld(parser, source.ast))
=============================================================================
