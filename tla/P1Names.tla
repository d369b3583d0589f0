------------------------------ MODULE P1Names ------------------------------
(* The state of p1's parser, its symbol table and the tokens it reads.      *)
(*                                                                          *)
(* P is all the state: rd the Reader (below), un a token given back, tok    *)
(* the token [k, v, s, name] read last; os and es the stacks of operators   *)
(* and operands, the top first; mode what ends an expression (byte_9d37);   *)
(* memb and tags which names are looked up (lexMember, byte_8f85); syms and *)
(* hash the symbols and, for each name, those with it, the innermost first; *)
(* tmps the symbols without a name; depth, lab the last label made; code    *)
(* what is written; d the declarator being read (decl_t); sw the cases of   *)
(* the switch being read, and brk whether a break has been met.             *)
EXTENDS P1Tree, CppScan

CONSTANTS MaxStack,    \* opStk and exprStk
          MaxArgs      \* the array of the arguments of a call

----------------------------------------------------------------------------
(* How p1 reads what cpp has written: yylex as far as lines, the places cpp *)
(* tells and #asm go.  Tokens are those of CppScan; which C token each is   *)
(* is left as it is.                                                        *)

\* rest: what is not yet read; tok: the token given to the parser; asm: the
\* lines passed on to the assembler; errs: what was complained of; fatal: the message p1 ends with.
Reader(out) == [rest |-> out, line |-> 1, file |-> "", tok |-> <<>>, asm |-> <<>>,
                errs |-> <<>>, fatal |-> ""]

EndOfLine(R) == SelectInSeq(R.rest, LAMBDA x : x.t = "nl")
SkipLine(R) == [R EXCEPT !.rest = SubSeq(@, EndOfLine(R), Len(@))]
\* # n "file": the next line is line n of the file.
Place(R) ==
  LET named == Len(R.rest) > 1 /\ R.rest[2].t = "str"
  IN [R EXCEPT !.line = R.rest[1].v - 1, !.file = IF named THEN R.rest[2].s ELSE @,
               !.rest = SubSeq(@, IF named THEN 3 ELSE 2, Len(@))]
\* parseAsm: whole lines, up to one that begins with #endasm.
RECURSIVE ParseAsm(_)
ParseAsm(R) ==
  LET n == EndOfLine(R)
      line == SubSeq(R.rest, 1, n - 1)
      next == [R EXCEPT !.rest = SubSeq(@, n + 1, Len(@)), !.line = @ + 1]
  IN IF R.rest = <<>> THEN [R EXCEPT !.fatal = "EOF in #asm"]
     ELSE IF Len(line) > 1 /\ line[1].t = "#" /\ line[2].s = "endasm"
     THEN [R EXCEPT !.rest = SubSeq(@, n, Len(@))]
     ELSE ParseAsm([next EXCEPT !.asm = Append(@, line)])
AfterLine(R) == [R EXCEPT !.rest = Tail(@), !.line = @ + 1]

RECURSIVE Lex(_)
Lex(R) ==
  IF R.rest = <<>> THEN [R EXCEPT !.tok = <<>>]
  ELSE LET x == Head(R.rest)
           T == [R EXCEPT !.rest = Tail(@)]
       IN CASE x.t = "nl" -> Lex([T EXCEPT !.line = @ + 1])
            [] x.t = "sp" -> Lex(T)
            [] x.t = "esc" -> Lex([T EXCEPT !.line = @ + 1, !.errs = Append(@, "illegal character")])
            [] x.t = "#" /\ T.rest # <<>> /\ Head(T.rest).t = "num" -> Lex(Place(T))
            [] x.t = "#" /\ T.rest # <<>> /\ Head(T.rest).s = "asm" ->
                 LET A == ParseAsm(AfterLine(SkipLine(T))) IN IF A.fatal = "" THEN Lex(A) ELSE [A EXCEPT !.tok = <<>>]
            [] x.t = "#" /\ (T.rest = <<>> \/ (Head(T.rest).t # "num" /\ Head(T.rest).s # "asm")) ->
                 [T EXCEPT !.fatal = "illegal '#' directive", !.tok = <<>>]
            [] OTHER -> [T EXCEPT !.tok = <<x>>]

----------------------------------------------------------------------------
(* The parser *)

TokenOf(k, v, s, name) == [k |-> k, v |-> v, s |-> s, name |-> name]
Eof == TokenOf("eof", 0, 0, "")
NoDeclarator == [at |-> Plain(0), cur |-> 0, sym |-> 0, sym2 |-> 0, ind |-> 0, uca |-> FALSE, dim |-> FALSE,
                 bad |-> FALSE, ucb |-> FALSE]
NoSwitch == [x |-> Null, def |-> 0, cases |-> <<>>]
Parser(out) ==
  [rd |-> Reader(out), un |-> <<>>, tok |-> Eof, os |-> <<>>, es |-> <<>>, mode |-> 0, memb |-> FALSE,
   tags |-> FALSE, syms |-> <<>>, hash |-> <<>>, tmps |-> {}, depth |-> 0, lab |-> 0, strs |-> <<>>,
   code |-> <<>>, errs |-> <<>>, warns |-> <<>>, fatal |-> "", unreachable |-> FALSE, ret |-> 0, fn |-> 0,
   void |-> FALSE, args |-> <<>>, defc |-> "", top |-> FALSE, d |-> NoDeclarator, sw |-> NoSwitch,
   x |-> Null, l |-> Null, r |-> Null, s |-> 0, at |-> Plain(0), cls |-> "", fl |-> {}, n |-> 0, bad |-> FALSE, brk |-> FALSE]
fatalErr(P, e) == IF P.fatal # "" THEN P ELSE [prError(P, e) EXCEPT !.fatal = e]

Item(k, x, n, s) == [k |-> k, x |-> x, n |-> n, s |-> s]
Emit(P, item) == [P EXCEPT !.code = Append(@, item)]
newTmpLabel(P) == [P EXCEPT !.lab = @ + 1]

----------------------------------------------------------------------------
(* Symbols.                                                                 *)
Chain(P, name) == IF name \in DOMAIN P.hash THEN P.hash[name] ELSE <<>>
SetChain(P, name, chain) == [P EXCEPT !.hash = (name :> chain) @@ @]
Matches(P, s) ==
  LET c == P.syms[s].cls
  IN c = "" \/ (P.tags = (c \in {"struct", "union"}) /\ P.memb = (c = "member"))
\* The place of a name in its list: the first that is of the kind looked for.
lookup(P, name) ==
  LET chain == Chain(P, name)
      hits == {k \in DOMAIN chain : Matches(P, chain[k])}
  IN IF hits = {} THEN Len(chain) + 1 ELSE CHOOSE k \in hits : \A j \in hits : k <= j
symAlloc(P, name) ==
  [P EXCEPT !.syms = Append(@, [name |-> name, cls |-> "", lvl |-> P.depth, at |-> Plain(0), fl |-> {}, mem |-> 0,
                                mid |-> 0, bw |-> 0]),
            !.s = Len(P.syms) + 1]
sub_4e90(P, name) ==
  LET k == lookup(P, name)
      enter(Q) == SetChain(Q, name, Append(Chain(Q, name), Q.s))
  IN IF k <= Len(Chain(P, name)) THEN [P EXCEPT !.s = Chain(P, name)[k]] ELSE enter(symAlloc(P, name))
newTmpSym(P) ==
  LET kept(Q) == [Flag(Q, Q.s, {"temp", "used", "defined"}) EXCEPT !.tmps = @ \cup {Q.s}] IN kept(symAlloc(P, ""))
defineArg(P, s) ==
  IF s = 0 \/ "temp" \in P.syms[s].fl THEN P
  ELSE Flag(Complain(P, "defined" \notin P.syms[s].fl, "redefined"), s, {"defined"})

\* sub_4eed: a symbol declared again in its scope, or made.
Redeclared(P, s, cls, a) ==
  LET old == P.syms[s]
      known == a.node = "func" /\ a.args # <<>> /\ old.at.args # <<>>
      wrong == \/ cls # old.cls
               \/ /\ "var" \in old.fl
                  /\ \/ ~haveSameDataType(P.syms, a, old.at)
                     \/ a.node = "func" /\ a.args # <<>> /\ old.at.args = <<>>
                     \/ known /\ Len(a.args[1]) # Len(old.at.args[1])
                     \/ known /\ \E k \in DOMAIN a.args[1] :
                                   ~haveSameDataType(P.syms, a.args[1][k], old.at.args[1][k])
      newer(Q) == IF a.node = "expr" /\ a.ex # <<>> THEN [Q EXCEPT !.syms[s].at.ex = a.ex]
                  ELSE IF a.node = "func" /\ (old.at.args = <<>> \/ a.args # <<>>) THEN [Q EXCEPT !.syms[s].at.args = a.args]
                  ELSE Q
  IN [IF wrong THEN prError(P, "redeclared") ELSE newer(P) EXCEPT !.s = s]
NewSym(P, cls, a, owner) ==
  LET s == P.s
      member == IF cls \in {"const", "member"} THEN [P EXCEPT !.syms[s].mem = owner] ELSE P
      typed(Q) == IF cls \in {"member", "typedef"} THEN Q ELSE Flag(Q, s, {"var"})
      labelled(Q) == [newTmpLabel(Q) EXCEPT !.syms[s].at.next = Q.lab + 1]
      done(Q) == CASE cls \in {"label", "struct", "union"} -> labelled(Q)
                   [] cls = "enum" -> Q
                   [] OTHER -> [typed(Q) EXCEPT !.syms[s].at = a]
  IN done([member EXCEPT !.syms[s].cls = cls])
\* For comparison: a name is declared anew only where it has not been used.
DeclareOuter(P, s, cls, a, owner) ==
  IF P.syms[s].cls = "" THEN NewSym([P EXCEPT !.s = s], cls, a, owner)
  ELSE IF cls # "member" \/ P.syms[s].cls = "member" THEN Redeclared(P, s, cls, a)
  ELSE NewSym(symAlloc(P, P.syms[s].name), cls, a, owner)
Declare(P, s, cls, a, owner) ==
  LET old == P.syms[s]
      here == P.depth = old.lvl /\ (cls # "member" \/ (old.cls = "member" /\ old.mem = owner))
      k == lookup(P, old.name)
      before(Q) == SetChain(Q, old.name, InsertAt(Chain(Q, old.name), k, Q.s))
  IN IF old.cls = "" THEN NewSym([P EXCEPT !.s = s], cls, a, owner)
     ELSE IF here THEN Redeclared(P, s, cls, a)
     ELSE NewSym(before(symAlloc(P, old.name)), cls, a, owner)

\* releaseScopeSym: what is said of the names of a scope when it is left.
NotDefined(y) ==
  IF y.cls = "label" THEN {"undefined label"}
  ELSE IF y.cls \in {"struct", "union", "extern"} THEN {} ELSE {"undefined variable"}
Unused(y) == IF y.cls \in {"stack", ""} THEN {} ELSE {"unused"}
Leaving(P, s, last) ==
  LET y == P.syms[s]
      errs == IF y.fl \cap {"defined", "used"} = {"used"} THEN NotDefined(y) ELSE {}
      warns == IF y.fl \cap {"defined", "used"} # {"used"} /\ (P.depth > 0 \/ y.cls = "static") /\ "used" \notin y.fl
               THEN Unused(y) ELSE {}
  IN [P EXCEPT !.errs = @ \o SetToSeq(errs), !.warns = @ \o SetToSeq({[w |-> w, at |-> Len(P.code)] : w \in warns})]
releaseScopeSym(P) ==
  LET known(s) == \E k \in DOMAIN Chain(P, P.syms[s].name) : Chain(P, P.syms[s].name)[k] = s
      going == SelectSeq([s \in DOMAIN P.syms |-> s], LAMBDA s : P.syms[s].lvl = P.depth /\ known(s))
      said == FoldSeq(LAMBDA s, Q : Leaving(Q, s, P.depth), P, going)
  IN [said EXCEPT !.hash = [n \in DOMAIN @ |-> SelectSeq(@[n], LAMBDA s : P.syms[s].lvl # P.depth)],
                  !.tmps = {s \in @ : P.syms[s].lvl # P.depth}]
enterScope(P) == [Emit(P, Item("{", Null, 0, 0)) EXCEPT !.depth = @ + 1]
exitScope(P) ==
  LET out(Q) == Emit([Q EXCEPT !.depth = @ - 1], Item("}", Null, 0, 0)) IN out(releaseScopeSym(P))

\* emitVar: a variable, after the types it is made of.
RECURSIVE emitVar(_, _)
emitDependentVar(P, a) ==
  IF a.ty = DT.complex /\ a.ind = 0 /\ P.syms[a.next].at.node # "func" /\ "emitted" \notin P.syms[a.next].fl
  THEN emitVar(P, a.next) ELSE P
emitVar(P, s) ==
  LET it(Q) == Emit(Flag(Q, s, {"emitted"}), Item("v", Null, IF "defined" \in Q.syms[s].fl THEN 1 ELSE 0, s))
  IN IF s = 0 THEN P ELSE it(emitDependentVar(P, P.syms[s].at))

----------------------------------------------------------------------------
(* Tokens: what yylex makes of what is read.                                *)
Joined == {"+", "-", "*", "/", "%", "&", "|", "^", "<<", ">>"}
AsAssignment == [o \in Joined |-> CASE o = "+" -> "=+" [] o = "-" -> "=-" [] o = "*" -> "=*" [] o = "/" -> "=/" [] o = "%" -> "=%"
                   [] o = "&" -> "=&" [] o = "|" -> "=|" [] o = "^" -> "=^" [] o = "<<" -> "=<<" [] OTHER -> "=>>"]
Classes == {"auto", "extern", "register", "static", "typedef"}
Types == {"char", "double", "enum", "float", "int", "long", "short", "struct", "union", "unsigned", "void"}
Keywords == {"asm", "break", "case", "continue", "default", "do", "else", "for", "goto", "if", "return", "switch", "while"}
parseName(P, x) ==
  LET known(Q) == [Q EXCEPT !.tok = TokenOf("id", 0, Q.s, x.s)]
      key(k) == [P EXCEPT !.tok = TokenOf(k, 0, 0, x.s)]
  IN CASE x.s \in Classes -> key("class") [] x.s \in Types -> key("type") [] x.s = "sizeof" -> key("#")
       [] x.s \in Keywords -> key(x.s) [] OTHER -> known(sub_4e90(P, x.s))
\* An operator and the = that follows it, which blanks may part from it.
Operator(P, x) ==
  LET next == Lex(P.rd)
      eq == x.s \in Joined /\ next.tok # <<>> /\ Is(Head(next.tok), "=")
      k == CASE eq -> AsAssignment[x.s] [] x.s = "++" -> "++U" [] x.s = "--" -> "--U" [] OTHER -> x.s
  IN [P EXCEPT !.tok = TokenOf(k, 0, 0, ""), !.rd = IF eq THEN next ELSE @]
\* parseString: strings one after the other are one.
RECURSIVE Strung(_, _)
Strung(P, n) ==
  LET next == Lex(P.rd)
      more == next.tok # <<>> /\ Head(next.tok).t = "str"
  IN IF more THEN Strung([P EXCEPT !.rd = next], n + Head(next.tok).v)
     ELSE [P EXCEPT !.tok = TokenOf("sconst", n, 0, "")]
Classified(P) ==
  IF P.rd.fatal # "" THEN [fatalErr(P, P.rd.fatal) EXCEPT !.tok = Eof]
  ELSE IF P.rd.tok = <<>> \/ P.fatal # "" THEN [P EXCEPT !.tok = Eof]
  ELSE LET x == Head(P.rd.tok)
       IN CASE x.t = "id" -> parseName(P, x)
            [] x.t = "num" -> [P EXCEPT !.tok = TokenOf(IF x.s = "L" THEN "lconst" ELSE "iconst", x.v, 0, "")]
            [] x.t = "str" -> Strung(P, x.v)
            [] OTHER -> Operator(P, x)
yylex(P) ==
  LET again(Q) == IF Q.tok.k = "id" /\ Q.memb
                  THEN LET R == sub_4e90(Q, Q.tok.name) IN [R EXCEPT !.tok.s = R.s] ELSE Q
  IN IF P.un # <<>> THEN again([P EXCEPT !.tok = P.un[1], !.un = <<>>])
     ELSE Classified([P EXCEPT !.rd = Lex(@)])
unget(P) == [P EXCEPT !.un = <<P.tok>>]
\* peekCh
Peek(P, s) == LET next == Lex(P.rd).tok IN next # <<>> /\ Is(Head(next), s)

IsTypedef(P) == P.tok.k = "id" /\ P.syms[P.tok.s].cls = "typedef"
StartsType(P) == P.tok.k = "type" \/ IsTypedef(P)
StartsDecl(P) == P.tok.k = "class" \/ StartsType(P)
=============================================================================
