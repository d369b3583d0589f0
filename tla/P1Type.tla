------------------------------- MODULE P1Type -------------------------------
(* p1's types, symbols and trees.                                           *)
(*                                                                          *)
(* An attribute (attr_t) [ty, ind, node, next, ex, args] is one level of a  *)
(* type: the data type under ind pointers, of which node makes a value      *)
(* ("sym"), an array ("expr", its dimension in ex) or a function ("func",   *)
(* its arguments in args when they are known).  The program's indirection   *)
(* has a bit set for each pointer; here they are counted.  A data type      *)
(* complex stands for the type of the symbol next.                          *)
(*                                                                          *)
(* A symbol (sym_t) [name, cls, lvl, at, fl, mem, mid, bw] has flags fl     *)
(* "defined" (S_MEM), "used", "reg", "var", "argdecl", "implicit", "temp"   *)
(* (S_NAMEID), "emitted", "arg", "typed", "bits"; mem links it to another.  *)
(*                                                                          *)
(* A tree (expr_t) [op, kids, at, v, sy, fixed]: fixed for eOne and eZero,  *)
(* which stand in the program's data.                                       *)
EXTENDS Integers, Sequences, FiniteSets, SequencesExt, TLC

DT == [none |-> 0, bool |-> 2, char |-> 4, uchar |-> 5, short |-> 6, ushort |-> 7, int |-> 8, uint |-> 9,
       long |-> 10, ulong |-> 11, const |-> 12, uconst |-> 13, float |-> 14, double |-> 16, enum |-> 18,
       void |-> 20, complex |-> 22, vargs |-> 24, struct |-> 26, union |-> 28]
Unsigned(d) == d % 2 = 1
AsUnsigned(d) == IF Unsigned(d) THEN d ELSE d + 1

Plain(d) == [ty |-> d, ind |-> 0, node |-> "sym", next |-> 0, ex |-> <<>>, args |-> <<>>]
isVarOfType(a, d) == a.ty = d /\ a.ind = 0 /\ a.node = "sym"
isVoidStar(a) == a.ty = DT.void /\ a.ind = 1
Pointer(a) == a.ind > 0 /\ a.node = "sym"
isLogicalType(a) == a.node = "sym" /\ (a.ind > 0 \/ a.ty < DT.void)
isSimpleType(a) == a.node = "sym" /\ a.ind = 0 /\ a.ty <= DT.enum
isIntType(a) == a.node = "sym" /\ a.ind = 0 /\ a.ty < DT.float
isFloatType(a) == isVarOfType(a, DT.float) \/ isVarOfType(a, DT.double)
isValidIndex(a) == isIntType(a) \/ isVarOfType(a, DT.enum)

RECURSIVE haveSameDataType(_, _, _)
haveSameDataType(syms, a, b) ==
  /\ a.node = b.node /\ a.ty = b.ty /\ a.ind = b.ind
  /\ CASE a.ty \in {DT.enum, DT.struct, DT.union} -> a.next = b.next
       [] a.ty = DT.complex -> haveSameDataType(syms, syms[a.next].at, syms[b.next].at)
       [] OTHER -> a.node = "func" /\ a.args # <<>> /\ b.args # <<>> =>
                     /\ Len(a.args[1]) = Len(b.args[1])
                     /\ \A k \in DOMAIN a.args[1] : haveSameDataType(syms, a.args[1][k], b.args[1][k])

MaxIndirection == 16
delIndirection(syms, a) ==
  LET under == IF a.node = "func" THEN [a EXCEPT !.node = "sym"] ELSE [a EXCEPT !.ind = IF @ = 0 THEN 0 ELSE @ - 1]
  IN IF isVarOfType(under, DT.complex) THEN syms[a.next].at ELSE under

----------------------------------------------------------------------------
Tree(op, kids, at) == [op |-> op, kids |-> kids, at |-> at, v |-> 0, sy |-> 0, fixed |-> FALSE]
Null == Tree("null", <<>>, Plain(DT.void))
newIConstLeaf(n) == [Tree("iconst", <<>>, Plain(DT.void)) EXCEPT !.v = n]
newIntLeaf(n, d) == [newIConstLeaf(n) EXCEPT !.at.ty = d]
newSTypeLeaf(a) == Tree("stype", <<>>, a)
newSConstLeaf(id, n) == [Tree("sconst", <<>>, [Plain(DT.char) EXCEPT !.ind = 1]) EXCEPT !.v = n, !.sy = id]
eOne == [newIntLeaf(1, DT.int) EXCEPT !.fixed = TRUE]
eZero == [newIntLeaf(0, DT.int) EXCEPT !.fixed = TRUE]
newIdLeaf(syms, s) ==
  [Tree("id", <<>>, IF "var" \in syms[s].fl \/ syms[s].cls = "member" THEN syms[s].at ELSE Plain(DT.void))
     EXCEPT !.sy = s]

RECURSIVE isZero(_)
isZero(e) == \/ e.op = "iconst" /\ e.v = 0
             \/ e.op = "cv" /\ isIntType(e.at) /\ isZero(e.kids[1])

----------------------------------------------------------------------------
(* The operators (opTable): precedence, operand flags, operator flags and   *)
(* the rule for the attribute of the result.                                *)
Row(prec, operand, flags, result) == [prec |-> prec, operand |-> operand, flags |-> flags, result |-> result]
Prefix == {"const", "rtol"}
InfixOp == {"binary", "const"}
Assigns == {"binary", "rtol"}
Usual == {"float", "int", "usual"}
Compares == Usual \cup {"void", "ptrs", "arel"}
Keeps == {"lvalue", "assign"}
Rows(ops, row) == [o \in ops |-> row]
opTable ==
     Rows({"root"}, Row(6, {}, {"sep"}, "void"))
  @@ Rows({"func"}, Row(30, {"binary"}, {"sep"}, "deref"))
  @@ Rows({"("}, Row(31, {}, {}, "none"))
  @@ Rows({")", "]"}, Row(2, {}, {}, "none"))
  @@ Rows({"[]", "->"}, Row(30, {"binary"}, {}, "none"))
  @@ Rows({"["}, Row(30, {}, {}, "none"))
  @@ Rows({"."}, Row(30, {"binary"}, {"sep", "member"}, "right"))
  @@ Rows({"*U"}, Row(28, Prefix \cup {"alt"}, {"pointer", "sep"}, "deref"))
  @@ Rows({"&U"}, Row(28, Prefix \cup {"alt"}, {"lvalue", "sep"}, "address"))
  @@ Rows({"-U"}, Row(28, Prefix \cup {"alt"}, {"float", "int"}, "left"))
  @@ Rows({"!"}, Row(28, {"rtol"}, {"lbool"}, "bool"))
  @@ Rows({"~"}, Row(28, Prefix, {"int"}, "left"))
  @@ Rows({"++U", "U++", "--U", "U--"}, Row(28, {"rtol"}, {}, "none"))
  @@ Rows({"#"}, Row(28, Prefix, {"sizeof", "sep"}, "int"))
  @@ Rows({"cast"}, Row(28, {"binary", "rtol"}, {}, "none"))
  @@ Rows({"*"}, Row(26, InfixOp \cup {"alt"}, Usual, "left"))
  @@ Rows({"&"}, Row(17, InfixOp \cup {"alt"}, {"int", "usual"}, "left"))
  @@ Rows({"-"}, Row(24, InfixOp \cup {"alt"}, Usual \cup {"ptrs", "scale"}, "left"))
  @@ Rows({"/"}, Row(26, InfixOp, Usual, "left"))
  @@ Rows({"%"}, Row(26, InfixOp, {"int", "usual"}, "left"))
  @@ Rows({"+"}, Row(24, InfixOp, Usual \cup {"scale"}, "left"))
  @@ Rows({">>", "<<"}, Row(22, InfixOp, {"int", "usual"}, "left"))
  @@ Rows({"<", ">", "<=", ">="}, Row(20, InfixOp, Compares, "bool"))
  @@ Rows({"==", "!="}, Row(18, InfixOp, Compares \cup {"erel"}, "bool"))
  @@ Rows({"^"}, Row(16, InfixOp, {"int", "usual"}, "left"))
  @@ Rows({"|"}, Row(15, InfixOp, {"int", "usual"}, "left"))
  @@ Rows({"&&"}, Row(14, {"binary"}, {"lbool", "rbool"}, "bool"))
  @@ Rows({"||"}, Row(13, {"binary"}, {"lbool", "rbool"}, "bool"))
  @@ Rows({"?"}, Row(12, Assigns \cup {"const"}, {"lbool"}, "right"))
  @@ Rows({":"}, Row(12, Assigns \cup {"const"}, Compares \cup {"sep"}, "left"))
  @@ Rows({"="}, Row(10, Assigns, Keeps \cup {"sep"}, "left"))
  @@ Rows({"=+", "=-"}, Row(10, Assigns, Keeps \cup {"float", "int", "scale"}, "left"))
  @@ Rows({"++", "--"}, Row(0, Assigns, Keeps \cup {"float", "int", "scale"}, "left"))
  @@ Rows({"=*", "=/"}, Row(10, Assigns, Keeps \cup {"float", "int"}, "left"))
  @@ Rows({"=%", "=&", "=^", "=|"}, Row(10, Assigns, Keeps \cup {"int"}, "left"))
  @@ Rows({"=>>", "=<<"}, Row(10, Assigns, {"lvalue", "int"}, "left"))
  @@ Rows({","}, Row(7, {"binary"}, {"sep"}, "void"))
  @@ Rows({"seq"}, Row(7, {"binary"}, {"sep"}, "right"))
  @@ Rows({"id", "memid"}, Row(0, {"leaf"}, {}, "none"))
  @@ Rows({"iconst", "lconst", "sconst", "stype", "fconst"}, Row(0, {"leaf", "const"}, {}, "none"))
  @@ Rows({".."}, Row(0, {}, {}, "none"))
  @@ Rows({"ret", "$U"}, Row(0, {}, {"sep"}, "void"))
  @@ Rows({"$"}, Row(0, {"binary"}, {"lbool"}, "void"))
  @@ Rows({"cv"}, Row(0, InfixOp, {"member", "void"}, "right"))
  @@ Rows({"@"}, Row(0, {"binary"}, {"assign", "void"}, "void"))
IsBinary(op) == "binary" \in opTable[op].operand

RECURSIVE Linkable(_, _), isConstExpr(_, _)
\* Whether the address is known when the program is linked (sub_0b93).
Linkable(syms, e) ==
  \/ e.op = "id" /\ syms[e.sy].cls \in {"extern", "static"}
  \/ e.op = "." /\ Linkable(syms, e.kids[1])
  \/ e.op = "*U" /\ isConstExpr(syms, e.kids[1])
isConstExpr(syms, e) ==
  CASE e.op \in {"null", "#"} -> TRUE
    [] e.op = "id" -> isVarOfType(e.at, DT.enum)
    [] OTHER -> \/ e.op = "&U" /\ Linkable(syms, e.kids[1])
                \/ /\ "const" \in opTable[e.op].operand
                   /\ \A k \in DOMAIN e.kids : isConstExpr(syms, e.kids[k])
\* What may be assigned to (sub_1ef1).
RECURSIVE Assignable(_, _)
Assignable(syms, e) ==
  CASE e.op = "*U" -> TRUE
    [] e.op = "id" -> "var" \in syms[e.sy].fl /\ syms[e.sy].cls # "const" /\ e.at.node = "sym"
    [] e.op = "." -> e.at.node = "sym" /\ Assignable(syms, e.kids[1])
    [] OTHER -> FALSE
=============================================================================
