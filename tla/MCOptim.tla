------------------------------ MODULE MCOptim ------------------------------
(* Functions put together from statements, each in the code that cgen       *)
(* writes for it.  Their variables: int i and chars c and d in the frame, int      *)
(* arguments a and b, and g, k (a char), p and q (pointers), s and t        *)
(* (structures) outside.                                                    *)
EXTENDS Optim

MCPublic == {"_g", "_k", "_p", "_q", "_s", "_t", "_h", "_j", "_f"}
MCSym == [s \in {"_g", "changed"} |-> 0] @@ ("_k" :> 2) @@ ("_p" :> 4) @@ ("_q" :> 6) @@ ("_s" :> 10)
           @@ ("_t" :> 14) @@ ("S" :> 18) @@ ("stack" :> 24) @@ ("saved" :> 46) @@ ("f4" :> -4) @@ ("f6" :> -6) @@ ("f0" :> 0) @@ ("case" :> 200)
MCTop == 58
\* p points behind q, the pointers of a program to none of its variables.
MCMemory(a, g, k) ==
  [x \in 0 .. MCTop - 1 |->
    CASE x = 0 -> g [] x = 2 -> k [] x \in {4, 6} -> 8 [] x \in {8, 9} -> 70 + x [] x \in 10 .. 17 -> 80 + x
      [] x \in {18, 20, 22} -> 200 + (x - 16) \div 2 [] x = 52 -> a [] x \in {53, 55} -> 0 [] x = 54 -> 3
      [] x \in 24 .. 51 -> Unset [] OTHER -> 0]
Regs8 == {"a", "b", "c", "d", "e", "h", "l"}
Start(a, g, k, run) ==
  [pc |-> 1, fuel |-> Fuel, end |-> "", ev |-> <<>>, mem |-> MCMemory(a, g, k), run |-> run, void |-> FALSE, base |-> 50,
   r |-> [q \in Regs8 |-> Unset] @@ [sp |-> 50, ix |-> 300, iy |-> 400],
   x |-> [q \in Regs8 |-> Unset], z |-> Unset, s |-> Unset, cy |-> Unset]
MCStarts == {Start(0, 0, 0, 0), Start(1, 3, 200, 1), Start(3, 255, 2, 0)}

----------------------------------------------------------------------------
Ld(l, r) == Instr("ld", "ld", "ld", l, r)
R(r) == Reg(r)
Ix(n) == Operand("idx", "ix", n, "")
Iy(n) == Operand("idx", "iy", n, "")
Mem(s) == Operand("addr", "", 0, s)
AtHL == Operand("ref", "hl", 0, "")
Alu(op, o) == Instr("alu", op, op, o, Absent)
Inc(op, o) == Instr("incdec", op, op, o, Absent)
Shift(op, o) == Instr("shift", op, op, o, Absent)
Simple(op) == Instr("simple", op, op, Absent, Absent)
Stk(op, r) == Instr("stk", op, op, R(r), Absent)
Add(l, r) == Instr("add", "add", "add", l, r)
Carr(op, l, r) == Instr("carr", op, op, l, r)
Ex == Instr("ex", "ex", "", R("de"), R("hl"))
Jp(cc, o) == Instr("jp", "jp", cc, o, Absent)
Jr(cc, o) == Instr("jr", "jr", cc, o, Absent)
Djnz(o) == Instr("djnz", "djnz", "", o, Absent)
Fwd(n) == Operand("fwd", "", n, "")
Bwd(n) == Operand("bwd", "", n, "")
Call(f) == Instr("call", "call", "", Name(f), Absent)
Lab(s) == Instr("label", "", s, Absent, Absent)
Tmp(n) == [Instr("tmp", "", "", Absent, Absent) EXCEPT !.n = n]

I == -2
C == -3
A == 6
B == 8
LdW(h, l, n) == <<Ld(R(l), Ix(n)), Ld(R(h), Ix(n + 1))>>
LdHL(n) == LdW("h", "l", n)
LdDE(n) == LdW("d", "e", n)
StHL(n) == <<Ld(Ix(n), R("l")), Ld(Ix(n + 1), R("h"))>>
TestW(n) == <<Ld(R("a"), Ix(n)), Alu("or", Ix(n + 1))>>
\* After a call: the arguments go; for a result in HL, between two exx.
Pop0(n) == <<Ld(R("hl"), Const(n)), Add(R("hl"), R("sp")), Ld(R("sp"), R("hl"))>>
Keep(n) == <<Simple("exx")>> \o Pop0(n) \o <<Simple("exx")>>
Do(f, n) == <<Call(f)>> \o Pop0(n)
LdLL == <<Ld(R("l"), R("l")), Ld(R("h"), R("h"))>>
SetG(n) == <<Ld(R("hl"), Const(n)), Ld(Mem("_g"), R("hl"))>>
PushC(n) == <<Ld(R("hl"), Const(n)), Stk("push", "hl")>>
\* A comparison of words that leaves zero, and one that a routine does.
IsNot(n, k) == <<Ld(R("de"), Const(k))>> \o LdHL(n) \o <<Alu("or", R("a")), Carr("sbc", R("hl"), R("de"))>>
Less(n, k) == <<Ld(R("de"), Const(k))>> \o LdHL(n) \o <<Call("wrelop")>>
Extend == <<Ld(R("l"), R("a")), Simple("rla"), Carr("sbc", R("a"), R("a")), Ld(R("h"), R("a"))>>

\* The statement named s; k makes its labels its own.
Code(s, k) ==
  LET x == "l" \o ToString(k)
      y == "m" \o ToString(k)
      z == "n" \o ToString(k)
  IN
  CASE s = "g=i" -> LdHL(I) \o <<Ld(Mem("_g"), R("hl"))>>
    [] s = "i=g" -> <<Ld(R("hl"), Mem("_g"))>> \o StHL(I)
    [] s = "i=3" -> <<Ld(Ix(I), Const(3)), Ld(Ix(I + 1), Const(0))>>
    [] s = "i=a" -> LdHL(A) \o StHL(I)
    [] s = "i++" -> LdHL(I) \o <<Inc("inc", R("hl"))>> \o StHL(I)
    [] s = "g=i+2" -> LdHL(I) \o <<Inc("inc", R("hl")), Inc("inc", R("hl")), Ld(Mem("_g"), R("hl"))>>
    [] s = "g=2" -> SetG(2)
    [] s = "g--" -> <<Ld(R("hl"), Mem("_g")), Inc("dec", R("hl")), Ld(Mem("_g"), R("hl"))>>
    [] s = "k=i" -> <<Ld(R("a"), Ix(I)), Ld(Mem("_k"), R("a"))>>
    [] s = "c=k" -> <<Ld(R("a"), Mem("_k")), Ld(Ix(C), R("a"))>>
    [] s = "k=c" -> <<Ld(R("a"), Ix(C)), Ld(Mem("_k"), R("a"))>>
    [] s = "k=0" -> <<Ld(R("a"), Const(0)), Ld(Mem("_k"), R("a"))>>
    [] s = "k|=4" -> <<Ld(R("a"), Mem("_k")), Alu("or", Const(4)), Ld(Mem("_k"), R("a"))>>
    [] s = "k^=0" -> <<Ld(R("a"), Mem("_k")), Alu("xor", Const(0)), Ld(Mem("_k"), R("a"))>>
    [] s = "k&=255" -> <<Ld(R("a"), Mem("_k")), Alu("and", Const(255)), Ld(Mem("_k"), R("a"))>>
    [] s = "k+=1" -> <<Ld(R("a"), Mem("_k")), Add(R("a"), Const(1)), Ld(Mem("_k"), R("a"))>>
    [] s = "c=k*4" -> <<Ld(R("a"), Mem("_k")), Shift("sla", R("a")), Shift("sla", R("a")), Ld(Ix(C), R("a"))>>
    [] s = "g=a>>1" -> LdHL(A) \o <<Shift("sra", R("h")), Shift("rr", R("l")), Ld(Mem("_g"), R("hl"))>>
    [] s = "g=a&7" -> <<Ld(R("a"), Ix(A)), Alu("and", Const(7)), Ld(R("l"), R("a")), Ld(R("a"), Ix(A + 1)),
                        Alu("and", Const(0)), Ld(R("h"), R("a")), Ld(Mem("_g"), R("hl"))>>
    [] s = "g=k" -> <<Ld(R("a"), Mem("_k"))>> \o Extend \o <<Ld(Mem("_g"), R("hl"))>>
    [] s = "g<<=k" -> <<Ld(R("hl"), Mem("_g")), Ld(R("b"), Ix(A)), Inc("inc", R("b")), Inc("dec", R("b")),
                        Jr("z", Fwd(2)), Tmp(1), Add(R("hl"), R("hl")), Djnz(Bwd(1)), Tmp(2),
                        Ld(Mem("_g"), R("hl"))>>
    [] s = "*p=a" -> LdDE(A) \o <<Ld(R("hl"), Mem("_p")), Ld(AtHL, R("e")), Inc("inc", R("hl")), Ld(AtHL, R("d"))>>
    [] s = "g=*p" -> <<Ld(R("hl"), Mem("_p")), Ld(R("a"), AtHL), Inc("inc", R("hl")), Ld(R("h"), AtHL),
                       Ld(R("l"), R("a")), Ld(Mem("_g"), R("hl"))>>
    [] s = "p++" -> <<Ld(R("hl"), Mem("_p")), Inc("inc", R("hl")), Inc("inc", R("hl")), Ld(Mem("_p"), R("hl"))>>
    [] s = "r=p" -> <<Ld(R("iy"), Mem("_p"))>>
    [] s = "*r=1" -> <<Ld(Iy(0), Const(1)), Ld(Iy(1), Const(0))>>
    [] s = "g=*r" -> <<Ld(R("l"), Iy(0)), Ld(R("h"), Iy(1)), Ld(Mem("_g"), R("hl"))>>
    [] s = "h(r++)" -> <<Stk("push", "iy"), Inc("inc", R("iy"))>> \o Do("_h", 2)
    [] s = "p=r" -> <<Ld(Mem("_p"), R("iy"))>>
    [] s = "s=t" -> <<Ld(R("hl"), Name("_t")), Ld(R("de"), Name("_s")), Stk("push", "hl"), Ld(R("bc"), Const(4)),
                      Instr("two", "ldir", "ldir", Absent, Absent), Stk("pop", "hl")>>
    [] s = "h()" -> Do("_h", 0)
    [] s = "h(1)" -> PushC(1) \o Do("_h", 2)
    [] s = "h(a,1)" -> PushC(1) \o LdHL(A) \o <<Stk("push", "hl")>> \o Do("_h", 4)
    [] s = "i=h(a)" -> LdHL(A) \o <<Stk("push", "hl"), Call("_h")>> \o Keep(2) \o LdLL \o StHL(I)
    [] s = "h(j(i))" -> LdHL(I) \o <<Stk("push", "hl"), Call("_j")>> \o Keep(2) \o LdLL
                        \o <<Stk("push", "hl")>> \o Do("_h", 2)
    [] s = "h(&a)" -> <<Stk("push", "ix"), Stk("pop", "de"), Ld(R("hl"), Const(A)), Add(R("hl"), R("de")),
                        Stk("push", "hl")>> \o Do("_h", 2)
    [] s = "if(i)g=2" -> TestW(I) \o <<Jp("z", Name(x))>> \o SetG(2) \o <<Lab(x)>>
    [] s = "if(c)g=2 else g=3" -> <<Ld(R("a"), Ix(C)), Alu("or", R("a")), Jp("z", Name(x))>> \o SetG(2)
                        \o <<Jp("", Name(y)), Lab(x)>> \o SetG(3) \o <<Lab(y)>>
    [] s = "if(a)h(1) else h(2)" -> TestW(A) \o <<Jp("z", Name(x))>> \o PushC(1) \o Do("_h", 2)
                        \o <<Jp("", Name(y)), Lab(x)>> \o PushC(2) \o Do("_h", 2) \o <<Lab(y)>>
    [] s = "if(a==3)return" -> IsNot(A, 3) \o <<Jp("nz", Name(x)), Jp("", Name("ret")), Lab(x)>>
    [] s = "if(k&2)k=0" -> <<Ld(R("a"), Mem("_k")), Instr("bit", "bit", "bit", Const(1), R("a")), Jp("z", Name(x)),
                        Ld(R("a"), Const(0)), Ld(Mem("_k"), R("a")), Lab(x)>>
    [] s = "if(a<3&&g)h()" -> Less(A, 3) \o <<Jp("p", Fwd(20)), Jp("", Fwd(21)), Tmp(21), Ld(R("hl"), Mem("_g")),
                        Ld(R("a"), R("l")), Alu("or", R("h")), Jp("z", Fwd(20)), Jp("", Fwd(21)),
                        Tmp(21), Jp("", Fwd(11)), Tmp(20), Jp("", Fwd(10)), Tmp(10), Jp("", Name(x)), Tmp(11)>>
                        \o Do("_h", 0) \o <<Lab(x)>>
    [] s = "i=a<3" -> Less(A, 3) \o <<Ld(R("de"), Const(1)), Jp("m", Fwd(10)), Inc("dec", R("de")), Tmp(10),
                        Ld(Ix(I), R("e")), Ld(Ix(I + 1), R("d"))>>
    [] s = "while(a)h(a--)" -> <<Jp("", Name(y)), Lab(x)>> \o LdHL(A) \o <<Stk("push", "hl")>> \o Do("_h", 2)
                        \o LdHL(A) \o <<Inc("dec", R("hl"))>> \o StHL(A) \o <<Lab(y)>> \o TestW(A)
                        \o <<Jp("nz", Name(x)), Lab(z), Lab(x \o "b")>>
    [] s = "do g=2 while(i<3)" -> <<Lab(x)>> \o SetG(2) \o <<Lab(y)>> \o Less(I, 3) \o <<Jp("m", Name(x)), Lab(z)>>
    [] s = "for(;;)if(h())break" -> <<Lab(x), Call("_h")>> \o Keep(0) \o LdLL \o <<Ld(R("a"), R("l")), Alu("or", R("h")),
                        Jp("z", Name(y)), Jp("", Name(z)), Lab(y), Lab(y \o "b"), Jp("", Name(x)), Lab(z)>>
    [] s = "if(g)for(;;);" -> <<Ld(R("hl"), Mem("_g")), Ld(R("a"), R("l")), Alu("or", R("h")), Jp("z", Name(z)),
                        Lab(x), Lab(x \o "b"), Jp("", Name(x)), Lab(y), Lab(z)>>
    [] s = "switch(i)" -> <<Jp("", Name(z)), Lab(x)>> \o SetG(1) \o <<Jp("", Name(z \o "b")), Lab(y)>> \o SetG(2)
                        \o <<Jp("", Name(z \o "b")), Lab(z)>> \o LdHL(I) \o <<Ld(R("a"), R("h")), Alu("or", R("a")),
                        Jp("nz", Fwd(1)), Ld(R("a"), R("l")), Alu("cp", Const(1)), Jp("z", Name(x)),
                        Alu("cp", Const(3)), Jp("z", Name(y)), Tmp(1), Jp("", Name(z \o "b")), Lab(z \o "b")>>
    [] s = "switch(a)" -> <<Jp("", Name("sw")), Lab("c1")>> \o SetG(1) \o <<Jp("", Name("c4")), Lab("c2"), Lab("c3")>>
                        \o SetG(2) \o <<Jp("", Name("c4")), Lab("sw")>> \o LdHL(A) \o <<Inc("dec", R("hl")),
                        Ld(R("a"), Const(0)), Alu("cp", R("h")), Jp("c", Name("c4")), Jp("nz", Fwd(1)),
                        Ld(R("a"), Const(2)), Alu("cp", R("l")), Jp("c", Name("c4")), Tmp(1),
                        Add(R("hl"), R("hl")), Ld(R("de"), Name("S")), Add(R("hl"), R("de")),
                        Ld(R("a"), AtHL), Inc("inc", R("hl")), Ld(R("h"), AtHL), Ld(R("l"), R("a")),
                        Jp("", AtHL), Lab("c4")>>
    [] s = "return" -> <<>>
    [] s = "return i" -> LdHL(I) \o <<Jp("", Name("ret"))>>
    [] s = "return g" -> <<Ld(R("hl"), Mem("_g")), Jp("", Name("ret"))>>
    [] s = "return c" -> <<Ld(R("a"), Ix(C))>> \o Extend \o <<Jp("", Name("ret"))>>
    [] s = "return *p" -> <<Ld(R("hl"), Mem("_p")), Ld(R("a"), AtHL), Inc("inc", R("hl")), Ld(R("h"), AtHL),
                            Ld(R("l"), R("a")), Jp("", Name("ret"))>>
    [] s = "q=&c" -> <<Stk("push", "ix"), Stk("pop", "de"), Ld(R("hl"), Const(C)), Add(R("hl"), R("de")),
                       Ld(Mem("_q"), R("hl"))>>
    [] s = "*q=5" -> <<Ld(R("hl"), Mem("_q")), Ld(AtHL, Const(5))>>

MCFunction(body, f) ==
  [code |-> <<Lab("_f"), Call("ncsv"), Instr("defw", "defw", "", Name(f), Absent)>>
            \o FlattenSeq([k \in DOMAIN body |-> Code(body[k], k)])
            \o <<Lab("ret"), Jp("", Name("cret")), Instr("equ", "", f, Const(MCSym[f]), Absent)>>,
   tab |-> IF "switch(a)" \in ToSet(body) THEN <<"c1", "c2", "c3">> ELSE <<>>,
   void |-> Last(body) = "return"]
\* Three statements of a kind, and a way out.
Bodies(S, T) == {<<a, b, c, r>> : a, b, c \in S, r \in T}
OnceIn(body, s) == Cardinality({k \in DOMAIN body : body[k] = s}) <= 1
With(S, f) == {MCFunction(b, f) : b \in {x \in S : OnceIn(x, "switch(a)")}}

Words == Bodies({"g=i", "i=g", "i=3", "i++", "g=i+2", "g--", "h(1)"}, {"return i", "return g"})
Chars == Bodies({"c=k", "k=c", "k=0", "k|=4", "k&=255", "k+=1", "c=k*4", "g=k", "if(k&2)k=0"}, {"return c"})
Calls == Bodies({"h()", "h(1)", "h(a,1)", "i=h(a)", "h(j(i))", "h(&a)", "i++"}, {"return", "return i"})
Pointers == Bodies({"*p=a", "g=*p", "p++", "r=p", "*r=1", "g=*r", "h(r++)", "p=r"}, {"return *p"})
Jumps == {"if(i)g=2", "if(c)g=2 else g=3", "if(a)h(1) else h(2)", "if(a==3)return", "while(a)h(a--)", "i=a<3", "g=a&7",
          "do g=2 while(i<3)", "for(;;)if(h())break", "switch(i)", "switch(a)", "if(a<3&&g)h()", "g<<=k", "g=a>>1"}
Paths == {<<x, y, r>> : x, y \in Jumps, r \in {"return", "return g"}}
\* Without variables of its own a function may do without a frame.
Bare == {<<x, y, r>> : x, y \in {"g=2", "g--", "k|=4", "h()", "h(1)", "*p=a", "s=t", "if(k&2)k=0", "if(a)h(1) else h(2)",
                                 "if(a==3)return", "if(g)for(;;);", "switch(a)"},
                       r \in {"return", "return g", "return *p"}}
MCFunctions ==
  UNION {With(S, "f4") : S \in {Words, Chars, Calls, Pointers, Paths}}
    \cup With(Bare, "f0") \cup With({x \in Calls : x[1] = "i++"}, "f6")

\* A store through a pointer to c, between two uses of c.
MCAliases == With({<<"q=&c">> \o x \o <<"*q=5", r>> : x \in {<<"c=k*4">>, <<"c=k">>, <<"k=c", "c=k">>, <<"c=k*4", "g=k">>},
                                                     r \in {"return c", "return i"}}, "f4")
\* An operation that the optimiser replaces by another.
=============================================================================
