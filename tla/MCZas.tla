------------------------------- MODULE MCZas -------------------------------
(* Sources of the assembler for model checking. *)
EXTENDS Zas

CONSTANTS alpha, beta, data

Num(n)  == [k |-> "num", n |-> n]
Name(s) == [k |-> "sym", s |-> s]
Fwd(n)  == [k |-> "fwd", n |-> n]
Bwd(n)  == [k |-> "bwd", n |-> n]
Dollar  == [k |-> "here"]
One(a)  == [op |-> "one", a |-> a]
Two(op, a, b) == [op |-> op, a |-> a, b |-> b]

LabelOf(s)  == [t |-> "label", s |-> s]
GlobalOf(s) == [t |-> "global", s |-> s]
Equ(s, e)   == [t |-> "equ", s |-> s, e |-> e]
Defl(s, e)  == [t |-> "defl", s |-> s, e |-> e]
TmpOf(n)    == [t |-> "tmp", n |-> n]
PsectOf(q)  == [t |-> "psect", p |-> q]
JpTo(a)     == [t |-> "jp", cc |-> "none", e |-> One(a)]
JpCc(a)     == [t |-> "jp", cc |-> "long", e |-> One(a)]
On(t, e)    == [t |-> t, e |-> e]
Just(t)     == [t |-> t]
Op          == [w |-> 0]
Inst        == [t |-> "code", items |-> <<Op>>]
Load(e)     == [t |-> "code", items |-> <<Op, [w |-> 2, e |-> e]>>]
Byte(e)     == [t |-> "code", items |-> <<[w |-> 1, e |-> e]>>]
Bad         == [t |-> "bad", items |-> <<Op>>]

Texts(alphabet, n) == UNION {[1..i -> alphabet] : i \in 0..n}
Sources(texts) == {[j |-> j, text |-> t] : j \in BOOLEAN, t \in texts}

\* labels before and after the jumps to them, in two psects, near and far
Layout == {LabelOf(alpha), LabelOf(beta), GlobalOf(beta), JpTo(Name(alpha)), JpTo(Name(beta)),
           On("defs", One(Num(7))), PsectOf(data), Load(One(Name(alpha))), Inst}

\* temporary labels
Temps == {TmpOf(1), TmpOf(2), JpTo(Fwd(1)), JpTo(Bwd(1)), Load(One(Fwd(2))), On("jr", One(Fwd(1))),
          On("defs", One(Num(7))), PsectOf(data)}

\* all the rest
Odd == {LabelOf(alpha), Equ(alpha, Two("+", Dollar, Num(2))), Equ(beta, One(Name(alpha))), Defl(alpha, One(Num(1))),
        JpTo(Name(alpha)), JpCc(Name(alpha)), Load(Two("-", Name(alpha), Name(beta))), Load(Two("+", Name(alpha), Fwd(1))),
        Byte(One(Name(alpha))), Byte(One(Num(20))), On("jr", One(Name(alpha))), On("defs", One(Name(alpha))),
        On("org", One(Num(9))), On("org", Two("-", Dollar, Num(9))), On("cond", One(Name(alpha))),
        On("cond", One(Num(0))), Just("endc"), Just("end"), On("start", One(Name(alpha))), Bad,
        JpTo(Bwd(1)), TmpOf(1), PsectOf(data)}

\* three jumps, with space between and the labels they may go to
Jumpy ==
  {<<PsectOf(data), j1, On("defs", One(Num(d1))), j2, l1, On("defs", One(Num(d2))), j3, l2>> :
     j1 \in {JpTo(Name(alpha)), JpTo(Name(beta)), JpTo(Fwd(1))}, j2 \in {JpTo(Name(alpha)), JpTo(Name(beta))},
     j3 \in {JpTo(Name(alpha)), JpTo(Bwd(1))}, l1 \in {LabelOf(alpha), TmpOf(1)}, l2 \in {LabelOf(beta), TmpOf(1)},
     d1 \in 2..8, d2 \in 2..8}

\* jumps forward to temporary labels, in the absolute psect
Forward(a, b, c) ==
  <<On("defs", One(Num(a))), JpTo(Fwd(1)), On("defs", One(Num(b))), JpTo(Fwd(2)), JpTo(Fwd(2)),
    TmpOf(2), On("defs", One(Num(c))), TmpOf(1)>>
Forwards == {Forward(a, b, c) : a \in {5, 6}, b \in 0..9, c \in 0..2}

MCPrograms ==
  Sources(Texts(Layout, 4) \cup Texts(Temps, 4) \cup Texts(Odd, 3) \cup Jumpy
            \cup {t \o <<LabelOf(alpha), Load(One(Name(alpha)))>> : t \in Forwards})
=============================================================================
